---------------------------- MODULE MemoryProofs ----------------------------
(***************************************************************************)
(* Proofs about MemoryUpdates, for any updates, pollers and bounds.        *)
(*                                                                         *)
(* TypeOK is inductive once the repository is known to be a record and a   *)
(* batch to hold presses that were made.  LoopInv says what the two kinds  *)
(* of offset stand for: every press below a poller's offset, or below one  *)
(* of its batch, was handled, waits in the batch, or is in its handler.    *)
(* DecisionInv follows one update from its row to its pull request,        *)
(* EditsInv the entries in the working tree and on the branches.           *)
(***************************************************************************)
EXTENDS MemoryUpdatesProps, FiniteSetTheorems, TLAPS

---------------------------------------------------------------------------
(* Types *)

Repo == [head: Branches \cup {MainBranch}, tree: SUBSET Updates,
         refs: [Branches \cup {MainBranch} -> SUBSET Updates]]

Stages == {"idle", "reject", "prepare", "edit", "commit", "push", "open", "approved", "failed"}

Status == Decided \cup {"none", "pending"}

\* A handler at work has an update, and a branch once it applies it.
WorkInv ==
    \A p \in Pollers :
        /\ work[p].stage # "idle" => work[p].of \in Updates
        /\ work[p].stage \notin {"idle", "reject"} => work[p].branch \in Branches

ShapeInv ==
    /\ TypeOK
    /\ WorkInv
    /\ repo \in Repo
    /\ \A p \in Pollers : poller[p].batch \subseteq DOMAIN presses

\* The bounds are naturals.
LEMMA BoundsNat == MaxPresses \in Nat /\ MaxBranches \in Nat /\ MaxEvents \in Nat
BY MemoryAssumption

\* A failure counts against the bound.
LEMMA RoomLeft ==
    ASSUME ShapeInv, Room
    PROVE  faults < MaxEvents
<1> DEFINE drafts == {u \in Updates : rows[u] # "none"}
<1>1. IsFiniteSet(Updates)
    BY MemoryAssumption, FS_Union DEF Updates
<1>2. IsFiniteSet(drafts)
    BY <1>1, FS_Subset
<1>3. Cardinality(drafts) \in Nat
    BY <1>2, FS_CardinalityType
<1> QED
    BY <1>3, BoundsNat DEF Room, ShapeInv, TypeOK

\* The number of failures stays in its bound.
LEMMA FaultType ==
    ASSUME ShapeInv, Fault \/ UNCHANGED faults
    PROVE  faults' \in 0..MaxEvents
BY RoomLeft, BoundsNat DEF Fault, ShapeInv, TypeOK

\* The presses are numbered from 1.
LEMMA PressShape ==
    ASSUME ShapeInv
    PROVE  \E k \in 0..MaxPresses :
               presses \in [1..k -> Press] /\ DOMAIN presses = 1..k /\ Cardinality(1..k) = k
<1>1. PICK k \in 0..MaxPresses : presses \in [1..k -> Press]
    BY DEF ShapeInv, TypeOK
<1>2. Cardinality(1..k) = k
    BY FS_Interval, BoundsNat
<1> QED
    BY <1>1, <1>2

\* The steps of a handler leave its press alone.
LEMMA GotoShape ==
    ASSUME ShapeInv, NEW p \in Pollers, NEW stage \in Stages, Goto(p, stage),
           work[p].stage \notin {"idle", "reject"}
    PROVE  /\ work' \in [Pollers -> Work]
           /\ WorkInv'
           /\ work'[p].stage = stage /\ work'[p].press = work[p].press
           /\ \A q \in Pollers \ {p} : work'[q] = work[q]
<1>1. work \in [Pollers -> Work]
    BY DEF ShapeInv, TypeOK
<1>2. work' = [work EXCEPT ![p].stage = stage]
    BY DEF Goto
<1>3. /\ work' \in [Pollers -> Work]
      /\ work'[p].stage = stage /\ work'[p].press = work[p].press
      /\ work'[p].of = work[p].of /\ work'[p].branch = work[p].branch
      /\ \A q \in Pollers \ {p} : work'[q] = work[q]
    BY <1>1, <1>2 DEF Work, Stages
<1> QED
    BY <1>3 DEF ShapeInv, WorkInv

\* A handler that has returned.
LEMMA IdleShape ==
    ASSUME ShapeInv, NEW p \in Pollers, work' = [work EXCEPT ![p] = NoWork]
    PROVE  /\ work' \in [Pollers -> Work]
           /\ WorkInv'
           /\ work'[p].stage = "idle"
           /\ \A q \in Pollers \ {p} : work'[q] = work[q]
<1>1. NoWork \in Work /\ NoWork.stage = "idle"
    BY BoundsNat DEF NoWork, Work
<1>2. work \in [Pollers -> Work]
    BY DEF ShapeInv, TypeOK
<1>3. /\ work' \in [Pollers -> Work]
      /\ work'[p].stage = "idle"
      /\ \A q \in Pollers \ {p} : work'[q] = work[q]
    BY <1>1, <1>2
<1> QED
    BY <1>3 DEF ShapeInv, WorkInv

\* Forgotten branches are empty branches.
LEMMA ForgetShape ==
    ASSUME ShapeInv, NEW S, Forget(S)
    PROVE  /\ repo' \in Repo
           /\ remote' \in [Branches -> SUBSET Updates]
           /\ openHeads' \subseteq Branches
<1>1. repo \in Repo /\ remote \in [Branches -> SUBSET Updates] /\ openHeads \subseteq Branches
    BY DEF ShapeInv, TypeOK
<1> QED
    BY <1>1 DEF Forget, Repo

\* Parts of TypeOK that single steps change.
LEMMA Parts ==
    ASSUME ShapeInv
    PROVE  /\ rows \in [Updates -> Status]
           /\ poller \in [Pollers -> Loop]
           /\ work \in [Pollers -> Work] /\ WorkInv
           /\ repo \in Repo
           /\ remote \in [Branches -> SUBSET Updates]
           /\ confirmed \in 0..MaxPresses
           /\ offsetRow \in 0..(MaxPresses + 1)
           /\ faults \in 0..MaxEvents
           /\ opened \in [Updates -> Nat]
           /\ \A p \in Pollers : poller[p].batch \subseteq DOMAIN presses
BY DEF ShapeInv, TypeOK, Status

\* What is left to show of a step, part by part.
LEMMA Whole ==
    ASSUME ShapeInv,
           rows' \in [Updates -> Status],
           announced' \subseteq Updates,
           presses' \in UNION {[1..n -> Press] : n \in 0..MaxPresses},
           confirmed' \in 0..MaxPresses,
           offsetRow' \in 0..(MaxPresses + 1),
           poller' \in [Pollers -> Loop],
           work' \in [Pollers -> Work], WorkInv',
           repo' \in Repo,
           remote' \in [Branches -> SUBSET Updates],
           openHeads' \subseteq Branches,
           faults' \in 0..MaxEvents,
           opened' \in [Updates -> Nat],
           \A p \in Pollers : poller'[p].batch \subseteq DOMAIN presses'
    PROVE  ShapeInv'
BY DEF ShapeInv, TypeOK, Status, Repo

\* The variables start with their types.
LEMMA ShapeInit == Init => ShapeInv
<1> SUFFICES ASSUME Init PROVE ShapeInv
    OBVIOUS
<1>1. NoWork \in Work /\ Off \in Loop
    BY BoundsNat DEF NoWork, Work, Off, Loop
<1>2. presses \in [1..0 -> Press]
    BY DEF Init
<1>3. presses \in UNION {[1..n -> Press] : n \in 0..MaxPresses}
    BY <1>2, BoundsNat
<1>4. repo \in Repo
    BY DEF Init, Repo
<1>5. faults \in 0..MaxEvents /\ confirmed \in 0..MaxPresses /\ offsetRow \in 0..(MaxPresses + 1)
    BY BoundsNat DEF Init
<1>6. /\ \A p \in Pollers : poller[p].batch \subseteq DOMAIN presses
      /\ WorkInv
    BY DEF Init, Off, WorkInv, NoWork
<1> QED
    BY <1>1, <1>3, <1>4, <1>5, <1>6 DEF Init, ShapeInv, TypeOK, Repo

\* Every step keeps the types.
LEMMA ShapeStep ==
    ASSUME ShapeInv, [Next]_vars
    PROVE  ShapeInv'
<1>a. /\ announced \subseteq Updates
      /\ presses \in UNION {[1..n -> Press] : n \in 0..MaxPresses}
      /\ openHeads \subseteq Branches
    BY DEF ShapeInv, TypeOK
<1>b. UNCHANGED work => WorkInv'
    BY Parts DEF WorkInv
<1> USE DEF chatVars, gitVars, histVars
<1>1. ASSUME NEW S \in SUBSET Updates, Draft(S)
      PROVE  ShapeInv'
    <2>1. rows' \in [Updates -> Status] /\ announced' \subseteq Updates
        <3>1. PICK u \in S : /\ rows' = [rows EXCEPT ![u] = "pending"]
                             /\ announced' = announced \cup {u} \/ announced' = announced
            BY <1>1 DEF Draft
        <3> QED
            BY <3>1, <1>a, Parts DEF Status
    <2>2. faults' \in 0..MaxEvents
        BY <1>1, FaultType DEF Draft
    <2> QED
        BY <1>1, <1>a, <1>b, <2>1, <2>2, Parts, Whole DEF Draft
<1>2. ASSUME NEW u \in announced, NEW a \in {"approve", "reject"}, PressButton(u, a)
      PROVE  ShapeInv'
    <2>1. PICK k \in 0..MaxPresses :
              presses \in [1..k -> Press] /\ DOMAIN presses = 1..k /\ Cardinality(1..k) = k
        BY PressShape
    <2>2. [of |-> u, action |-> a] \in Press
        BY <1>2, <1>a DEF Press
    <2>3. k + 1 \in 0..MaxPresses /\ presses' \in [1..(k + 1) -> Press]
        BY <1>2, <2>1, <2>2, BoundsNat DEF PressButton
    <2>4. presses' \in UNION {[1..n -> Press] : n \in 0..MaxPresses}
        BY <2>3
    <2>5. \A p \in Pollers : poller'[p].batch \subseteq DOMAIN presses'
        BY <1>2, <2>1, <2>3, Parts DEF PressButton
    <2> QED
        BY <1>2, <1>a, <1>b, <2>4, <2>5, Parts, Whole DEF PressButton
<1>3. ASSUME NEW p \in Pollers, StartDaemon(p)
      PROVE  ShapeInv'
    <2>1. [Off EXCEPT !.stage = "on", !.next = 1] \in Loop
        <3>1. 1 \in 0..(MaxPresses + 1)
            BY BoundsNat
        <3>2. Off \in Loop
            BY BoundsNat DEF Off, Loop
        <3> QED
            BY <3>1, <3>2 DEF Loop
    <2>2. poller' \in [Pollers -> Loop] /\ poller'[p].batch = {}
        BY <1>3, <2>1, Parts DEF StartDaemon, Off
    <2>3. \A q \in Pollers : poller'[q].batch \subseteq DOMAIN presses'
        BY <1>3, <2>2, Parts DEF StartDaemon
    <2> QED
        BY <1>3, <1>a, <1>b, <2>2, <2>3, Parts, Whole DEF StartDaemon
<1>4. ASSUME NEW p \in Pollers, NEW offset \in 0..(MaxPresses + 1), NEW stage \in {"on", "fetched"},
             Fetch(p, offset, stage)
      PROVE  ShapeInv'
    <2> DEFINE dropped == IF offset - 1 > confirmed THEN offset - 1 ELSE confirmed
               loop == [stage |-> stage, next |-> offset,
                        batch |-> {n \in DOMAIN presses : n > dropped}]
    <2>1. confirmed' \in 0..MaxPresses
        BY <1>4, Parts, BoundsNat DEF Fetch
    <2>2. DOMAIN presses \subseteq 1..MaxPresses
        BY PressShape, BoundsNat
    <2>3. loop \in Loop
        BY <2>2, BoundsNat DEF Loop
    <2>4. poller' = [poller EXCEPT ![p] = loop]
        BY <1>4 DEF Fetch
    <2>5. poller' \in [Pollers -> Loop]
        BY <2>3, <2>4, Parts
    <2>6. \A q \in Pollers : poller'[q].batch \subseteq DOMAIN presses'
        BY <1>4, <2>4, Parts DEF Fetch
    <2> QED
        BY <1>4, <1>a, <1>b, <2>1, <2>5, <2>6, Parts, Whole DEF Fetch
<1>5. ASSUME NEW p \in Pollers, FetchDaemon(p) \/ FetchPoll(p)
      PROVE  ShapeInv'
    <2>1. poller[p].next \in 0..(MaxPresses + 1)
        BY Parts DEF Loop
    <2> QED
        BY <1>4, <1>5, <2>1, Parts DEF FetchDaemon, FetchPoll
<1>6. ASSUME NEW p \in Pollers, EndPoll(p)
      PROVE  ShapeInv'
    <2>1. Off \in Loop /\ Off.batch = {}
        BY BoundsNat DEF Off, Loop
    <2>2. poller' \in [Pollers -> Loop]
        BY <1>6, <2>1, Parts DEF EndPoll
    <2>3. \A q \in Pollers : poller'[q].batch \subseteq DOMAIN presses'
        BY <1>6, <2>1, Parts DEF EndPoll
    <2>4. faults' \in 0..MaxEvents
        BY <1>6, FaultType DEF EndPoll
    <2>5. offsetRow' \in 0..(MaxPresses + 1)
        BY <1>6, Parts DEF EndPoll, Loop
    <2> QED
        BY <1>6, <1>a, <1>b, <2>2, <2>3, <2>4, <2>5, Parts, Whole DEF EndPoll
<1>7. ASSUME NEW p \in Pollers, Take(p)
      PROVE  ShapeInv'
    <2>1. PICK n \in poller[p].batch :
              /\ poller' = [poller EXCEPT ![p].batch = @ \ {n}, ![p].next = n + 1]
              /\ \/ Start(p, n, "reject", MainBranch)
                 \/ \E b \in BranchesFor(presses[n].of) : Start(p, n, "prepare", b)
                 \/ UNCHANGED <<work, faults>>
                 \/ Fault /\ UNCHANGED work
              /\ UNCHANGED <<rows, chatVars, offsetRow, gitVars, opened>>
        BY <1>7 DEF Take
    <2>2. n \in DOMAIN presses /\ n \in 1..MaxPresses /\ presses[n].of \in Updates
        <3>1. PICK k \in 0..MaxPresses : presses \in [1..k -> Press] /\ DOMAIN presses = 1..k
            BY PressShape
        <3>2. n \in DOMAIN presses
            BY <2>1, Parts
        <3> QED
            BY <3>1, <3>2, BoundsNat DEF Press
    <2>3. [poller[p] EXCEPT !.batch = @ \ {n}, !.next = n + 1] \in Loop
        <3>1. n + 1 \in 0..(MaxPresses + 1)
            BY <2>2, BoundsNat
        <3>2. poller[p] \in Loop
            BY Parts
        <3> QED
            BY <3>1, <3>2 DEF Loop
    <2>4. poller' \in [Pollers -> Loop]
        BY <2>1, <2>3, Parts
    <2>5. \A q \in Pollers : poller'[q].batch \subseteq poller[q].batch
        BY <2>1, Parts DEF Loop
    <2>6. \A q \in Pollers : poller'[q].batch \subseteq DOMAIN presses'
        BY <2>1, <2>5, Parts
    <2>7. \A b \in BranchesFor(presses[n].of) : b \in Branches
        BY DEF BranchesFor, FreeBranches, Branches
    <2>8. \A stage \in {"reject", "prepare"}, b \in Branches \cup {MainBranch} :
              [stage |-> stage, press |-> n, of |-> presses[n].of, branch |-> b] \in Work
        BY <2>2, BoundsNat DEF Work
    <2>9. work' \in [Pollers -> Work] /\ WorkInv'
        <3>1. CASE UNCHANGED work
            BY <3>1, <1>b, Parts
        <3>2. ASSUME NEW stage \in {"reject", "prepare"}, NEW b \in Branches \cup {MainBranch},
                     stage = "prepare" => b \in Branches,
                     Start(p, n, stage, b)
              PROVE  work' \in [Pollers -> Work] /\ WorkInv'
            <4> DEFINE w == [stage |-> stage, press |-> n, of |-> presses[n].of, branch |-> b]
            <4>1. work' = [work EXCEPT ![p] = w]
                BY <3>2 DEF Start
            <4>2. work'[p] = w /\ \A q \in Pollers \ {p} : work'[q] = work[q]
                BY <4>1, Parts
            <4>3. work' \in [Pollers -> Work]
                BY <4>1, <2>8, Parts
            <4> QED
                BY <4>2, <4>3, <3>2, <2>2, Parts DEF WorkInv
        <3> QED
            BY <2>1, <2>7, <3>1, <3>2
    <2>10. faults' \in 0..MaxEvents
        BY <2>1, FaultType DEF Start
    <2> QED
        BY <1>a, <1>b, <2>1, <2>4, <2>6, <2>9, <2>10, Parts, Whole
<1>8. ASSUME NEW p \in Pollers, Reject(p)
      PROVE  ShapeInv'
    <2>1. rows' \in [Updates -> Status]
        BY <1>8, Parts DEF Reject, SetRow, Status, Decided
    <2>2. faults' \in 0..MaxEvents
        BY <1>8, FaultType DEF Reject, SetRow
    <2>3. work' \in [Pollers -> Work] /\ WorkInv'
        BY <1>8, IdleShape DEF Reject
    <2> QED
        BY <1>8, <1>a, <1>b, <2>1, <2>2, <2>3, Parts, Whole DEF Reject
<1>9. ASSUME NEW p \in Pollers, Prepare(p)
      PROVE  ShapeInv'
    <2>1. work[p].branch \in Branches \cup {MainBranch}
        BY Parts DEF Work
    <2>2. Switched(work[p].branch) \in Repo
        BY <2>1, Parts DEF Switched, Repo
    <2>3. repo' \in Repo
        BY <1>9, <2>2, Parts DEF Prepare
    <2>4. work' \in [Pollers -> Work] /\ WorkInv'
        BY <1>9, GotoShape, Parts DEF Prepare, Stages
    <2>5. faults' \in 0..MaxEvents
        BY <1>9, FaultType DEF Prepare
    <2> QED
        BY <1>9, <1>a, <1>b, <2>3, <2>4, <2>5, Parts, Whole DEF Prepare
<1>10. ASSUME NEW p \in Pollers, Edit(p)
       PROVE  ShapeInv'
    <2>1. work[p].of \in Updates
        BY <1>10, Parts DEF Edit, WorkInv
    <2>2. repo' \in Repo
        BY <1>10, <2>1, Parts DEF Edit, Repo
    <2>3. work' \in [Pollers -> Work] /\ WorkInv'
        BY <1>10, GotoShape, Parts DEF Edit, Stages
    <2> QED
        BY <1>10, <1>a, <1>b, <2>2, <2>3, Parts, Whole DEF Edit
<1>11. ASSUME NEW p \in Pollers, Commit(p)
       PROVE  ShapeInv'
    <2>1. repo' \in Repo
        BY <1>11, Parts DEF Commit, Repo
    <2>2. work' \in [Pollers -> Work] /\ WorkInv'
        BY <1>11, GotoShape, Parts DEF Commit, Stages
    <2>3. faults' \in 0..MaxEvents
        BY <1>11, FaultType DEF Commit
    <2> QED
        BY <1>11, <1>a, <1>b, <2>1, <2>2, <2>3, Parts, Whole DEF Commit
<1>12. ASSUME NEW p \in Pollers, Push(p)
       PROVE  ShapeInv'
    <2>1. remote' \in [Branches -> SUBSET Updates]
        BY <1>12, Parts DEF Push, Repo, Work
    <2>2. work' \in [Pollers -> Work] /\ WorkInv'
        BY <1>12, GotoShape, Parts DEF Push, Stages
    <2>3. faults' \in 0..MaxEvents
        BY <1>12, FaultType DEF Push
    <2> QED
        BY <1>12, <1>a, <1>b, <2>1, <2>2, <2>3, Parts, Whole DEF Push
<1>13. ASSUME NEW p \in Pollers, OpenPr(p)
       PROVE  ShapeInv'
    <2>1. openHeads' \subseteq Branches
        <3>1. work[p].branch \in Branches
            BY <1>13, Parts DEF OpenPr, WorkInv
        <3> QED
            BY <1>13, <1>a, <3>1 DEF OpenPr
    <2>2. opened' \in [Updates -> Nat]
        BY <1>13, Parts DEF OpenPr
    <2>3. work' \in [Pollers -> Work] /\ WorkInv'
        BY <1>13, GotoShape, Parts DEF OpenPr, Stages
    <2>4. faults' \in 0..MaxEvents
        BY <1>13, FaultType DEF OpenPr
    <2> QED
        BY <1>13, <1>a, <1>b, <2>1, <2>2, <2>3, <2>4, Parts, Whole DEF OpenPr
<1>14. ASSUME NEW p \in Pollers, Finish(p)
       PROVE  ShapeInv'
    <2>1. rows' \in [Updates -> Status]
        BY <1>14, Parts DEF Finish, SetRow, Status, Decided
    <2>2. faults' \in 0..MaxEvents
        BY <1>14, FaultType DEF Finish, SetRow
    <2>3. work' \in [Pollers -> Work] /\ WorkInv'
        BY <1>14, IdleShape DEF Finish
    <2>4. /\ repo' \in Repo
          /\ remote' \in [Branches -> SUBSET Updates]
          /\ openHeads' \subseteq Branches
        BY <1>14, ForgetShape DEF Finish
    <2> QED
        BY <1>14, <1>a, <1>b, <2>1, <2>2, <2>3, <2>4, Parts, Whole DEF Finish
<1>15. ASSUME NEW u \in Updates, Sweep(u) \/ CloudSweep(u)
       PROVE  ShapeInv'
    <2>1. rows' \in [Updates -> Status]
        BY <1>15, Parts DEF Sweep, CloudSweep, SetRow, Status, Decided
    <2>2. UNCHANGED faults
        BY <1>15 DEF Sweep, CloudSweep, SetRow
    <2> QED
        BY <1>15, <1>a, <1>b, <2>1, <2>2, Parts, Whole DEF Sweep, CloudSweep
<1>16. ASSUME Crash
       PROVE  ShapeInv'
    <2>1. Off \in Loop /\ Off.batch = {} /\ NoWork \in Work
        BY BoundsNat DEF Off, Loop, NoWork, Work
    <2>2. /\ poller' \in [Pollers -> Loop]
          /\ work' \in [Pollers -> Work] /\ WorkInv'
          /\ \A q \in Pollers : poller'[q].batch \subseteq DOMAIN presses'
        BY <1>16, <2>1 DEF Crash, WorkInv, NoWork
    <2>3. faults' \in 0..MaxEvents
        BY <1>16, FaultType DEF Crash
    <2>4. /\ repo' \in Repo
          /\ remote' \in [Branches -> SUBSET Updates]
          /\ openHeads' \subseteq Branches
        BY <1>16, ForgetShape DEF Crash
    <2> QED
        BY <1>16, <1>a, <1>b, <2>2, <2>3, <2>4, Parts, Whole DEF Crash
<1>17. ASSUME UNCHANGED vars
       PROVE  ShapeInv'
    BY <1>17, <1>a, <1>b, Parts, Whole DEF vars
<1>18. \A order \in OrderIds : TradesOf(order) \subseteq Updates
    BY DEF TradesOf, Updates
<1> QED
    BY <1>1, <1>2, <1>3, <1>5, <1>6, <1>7, <1>8, <1>9, <1>10, <1>11, <1>12, <1>13, <1>14,
        <1>15, <1>16, <1>17, <1>18
        DEF Next, Enqueue, WeeklyReview, LoopStep, HandlerStep, WriterStep, Updates

\* Every variable keeps its type, for any number of updates, pollers and presses
\* (PostmortemPipeline, MemoryWriter, TelegramNotifier).
THEOREM TypeInvariant == Spec => []TypeOK
<1>1. ShapeInv /\ [Next]_vars => ShapeInv'
    BY ShapeStep
<1>2. ShapeInv => TypeOK
    BY DEF ShapeInv
<1> QED
    BY <1>1, <1>2, ShapeInit, PTL DEF Spec

---------------------------------------------------------------------------
(* Offsets *)

AtWork(p, n) == work[p].stage # "idle" /\ work[p].press = n

\* What each kind of offset stands for.
LoopInv ==
    /\ \A p \in Pollers, m \in 1..MaxPresses :
           m < poller[p].next => m \in handled \/ AtWork(p, m)
    /\ \A p \in Pollers : \A n \in poller[p].batch, m \in 1..MaxPresses :
           m < n => m \in poller[p].batch \/ m \in handled \/ AtWork(p, m)
    /\ \A m \in 1..MaxPresses : m < offsetRow => m \in handled
    /\ DroppedWasHandled

\* Before the first press everything was handled.
LEMMA LoopInit == Init => LoopInv
BY BoundsNat DEF Init, LoopInv, Off, DroppedWasHandled

\* Steps that leave the loops alone and finish no press unhandled.
LEMMA LoopKept ==
    ASSUME ShapeInv, LoopInv,
           UNCHANGED <<poller, confirmed, offsetRow>>,
           handled \subseteq handled',
           \A p \in Pollers, m \in 1..MaxPresses :
               AtWork(p, m) => AtWork(p, m)' \/ m \in handled'
    PROVE  LoopInv'
BY DEF LoopInv, DroppedWasHandled

\* Every step keeps it.
LEMMA OffsetStep ==
    ASSUME ShapeInv, ShapeInv', LoopInv, [Next]_vars
    PROVE  LoopInv'
<1> USE DEF chatVars, gitVars, histVars
<1>1. ASSUME NEW S \in SUBSET Updates, Draft(S)
      PROVE  LoopInv'
    BY <1>1, LoopKept DEF Draft, AtWork
<1>2. ASSUME NEW u \in announced, NEW a \in {"approve", "reject"}, PressButton(u, a)
      PROVE  LoopInv'
    BY <1>2, LoopKept DEF PressButton, AtWork
<1>3. ASSUME NEW p \in Pollers, StartDaemon(p)
      PROVE  LoopInv'
    <2>1. poller'[p].next = 1 /\ poller'[p].batch = {} /\ \A q \in Pollers \ {p} : poller'[q] = poller[q]
        BY <1>3, Parts DEF StartDaemon, Off
    <2>2. UNCHANGED <<work, handled, offsetRow, confirmed>>
        BY <1>3 DEF StartDaemon
    <2> QED
        BY <2>1, <2>2 DEF LoopInv, AtWork, DroppedWasHandled
<1>4. ASSUME NEW p \in Pollers, NEW offset \in 0..(MaxPresses + 1), NEW stage,
             Fetch(p, offset, stage),
             \A m \in 1..MaxPresses : m < offset => m \in handled
      PROVE  LoopInv'
    <2> DEFINE dropped == IF offset - 1 > confirmed THEN offset - 1 ELSE confirmed
    <2>1. /\ confirmed' = dropped
          /\ poller'[p].next = offset
          /\ poller'[p].batch = {n \in DOMAIN presses : n > dropped}
          /\ \A q \in Pollers \ {p} : poller'[q] = poller[q]
          /\ UNCHANGED <<work, handled, offsetRow>>
        BY <1>4, Parts DEF Fetch
    <2>2. dropped \in 0..MaxPresses
        BY Parts, BoundsNat
    <2>3. \A m \in 1..MaxPresses : m <= dropped => m \in handled
        BY <1>4, Parts, BoundsNat DEF LoopInv, DroppedWasHandled
    <2>4. DroppedWasHandled'
        BY <2>1, <2>2, <2>3, BoundsNat DEF DroppedWasHandled
    <2>5. PICK k \in 0..MaxPresses : DOMAIN presses = 1..k
        BY PressShape
    <2>6. \A n \in poller'[p].batch, m \in 1..MaxPresses :
              m < n => m \in poller'[p].batch \/ m \in handled'
        BY <2>1, <2>2, <2>3, <2>5, BoundsNat
    <2> HIDE DEF dropped
    <2> QED
        BY <1>4, <2>1, <2>4, <2>6 DEF LoopInv, AtWork
<1>5. ASSUME NEW p \in Pollers, FetchDaemon(p) \/ FetchPoll(p)
      PROVE  LoopInv'
    <2>1. poller[p].next \in 0..(MaxPresses + 1) /\ offsetRow \in 0..(MaxPresses + 1)
        BY Parts DEF Loop
    <2>2. CASE FetchDaemon(p)
        <3>1. \A m \in 1..MaxPresses : m < poller[p].next => m \in handled
            BY <2>2 DEF FetchDaemon, Waiting, LoopInv, AtWork
        <3> QED
            BY <1>4, <2>1, <2>2, <3>1 DEF FetchDaemon
    <2>3. CASE FetchPoll(p)
        BY <1>4, <2>1, <2>3 DEF FetchPoll, LoopInv
    <2> QED
        BY <1>5, <2>2, <2>3
<1>6. ASSUME NEW p \in Pollers, EndPoll(p)
      PROVE  LoopInv'
    <2>1. poller'[p].next = 0 /\ poller'[p].batch = {} /\ \A q \in Pollers \ {p} : poller'[q] = poller[q]
        BY <1>6, Parts DEF EndPoll, Off
    <2>2. UNCHANGED <<work, handled, confirmed>>
        BY <1>6 DEF EndPoll
    <2>3. \A m \in 1..MaxPresses : m < offsetRow' => m \in handled
        BY <1>6 DEF EndPoll, Waiting, LoopInv, AtWork
    <2> QED
        BY <2>1, <2>2, <2>3 DEF LoopInv, AtWork, DroppedWasHandled
<1>7. ASSUME NEW p \in Pollers, Take(p)
      PROVE  LoopInv'
    <2>1. PICK n \in poller[p].batch :
              /\ \A m \in poller[p].batch : n <= m
              /\ work[p].stage = "idle"
              /\ poller' = [poller EXCEPT ![p].batch = @ \ {n}, ![p].next = n + 1]
              /\ \/ \E stage \in {"reject", "prepare"} : \E b : Start(p, n, stage, b)
                 \/ handled' = handled \cup {n} /\ UNCHANGED work
              /\ UNCHANGED <<confirmed, offsetRow>>
        BY <1>7 DEF Take
    <2>2. n \in 1..MaxPresses /\ poller[p].batch \subseteq 1..MaxPresses
        BY <2>1, Parts DEF Loop
    <2>3. /\ poller'[p].next = n + 1 /\ poller'[p].batch = poller[p].batch \ {n}
          /\ \A q \in Pollers \ {p} : poller'[q] = poller[q]
        BY <2>1, Parts DEF Loop
    <2>4. /\ handled \subseteq handled'
          /\ n \in handled' \/ AtWork(p, n)'
          /\ \A q \in Pollers \ {p} : work'[q] = work[q]
        BY <2>1, Parts DEF Start, AtWork
    <2>5. \A m \in 1..MaxPresses : m < n => m \in handled
        BY <2>1, <2>2 DEF LoopInv, AtWork
    <2>6. \A m \in 1..MaxPresses : m < n + 1 => m \in handled' \/ AtWork(p, m)'
        BY <2>2, <2>4, <2>5, BoundsNat
    <2>7. \A k \in poller'[p].batch, m \in 1..MaxPresses :
              m < k => m \in poller'[p].batch \/ m \in handled' \/ AtWork(p, m)'
        BY <2>1, <2>3, <2>4 DEF LoopInv, AtWork
    <2>8. DroppedWasHandled'
        BY <2>1, <2>4 DEF LoopInv, DroppedWasHandled
    <2>9. \A q \in Pollers, m \in 1..MaxPresses :
              m < poller'[q].next => m \in handled' \/ AtWork(q, m)'
        BY <2>3, <2>4, <2>6 DEF LoopInv, AtWork
    <2>10. \A q \in Pollers : \A k \in poller'[q].batch, m \in 1..MaxPresses :
               m < k => m \in poller'[q].batch \/ m \in handled' \/ AtWork(q, m)'
        BY <2>3, <2>4, <2>7 DEF LoopInv, AtWork
    <2>11. \A m \in 1..MaxPresses : m < offsetRow' => m \in handled'
        BY <2>1, <2>4 DEF LoopInv
    <2> QED
        BY <2>8, <2>9, <2>10, <2>11 DEF LoopInv
<1>8. ASSUME NEW p \in Pollers, WriterStep(p)
      PROVE  LoopInv'
    <2>1. \E stage \in Stages \ {"idle"} : Goto(p, stage)
        BY <1>8 DEF WriterStep, Prepare, Edit, Commit, Push, OpenPr, Stages
    <2>2. /\ work[p].stage \notin {"idle", "reject"}
          /\ UNCHANGED <<poller, confirmed, offsetRow, handled>>
        BY <1>8 DEF WriterStep, Prepare, Edit, Commit, Push, OpenPr
    <2>3. \A q \in Pollers, m \in 1..MaxPresses : AtWork(q, m) => AtWork(q, m)'
        BY <2>1, <2>2, GotoShape DEF AtWork
    <2> QED
        BY <2>2, <2>3, LoopKept
<1>9. ASSUME NEW p \in Pollers, Reject(p) \/ Finish(p)
      PROVE  LoopInv'
    <2>1. /\ UNCHANGED <<poller, confirmed, offsetRow>>
          /\ handled' = handled \cup {work[p].press}
          /\ work' = [work EXCEPT ![p] = NoWork]
        BY <1>9 DEF Reject, Finish
    <2>2. \A q \in Pollers, m \in 1..MaxPresses : AtWork(q, m) => AtWork(q, m)' \/ m \in handled'
        BY <2>1, Parts DEF AtWork
    <2> QED
        BY <2>1, <2>2, LoopKept
<1>10. ASSUME NEW u \in Updates, Sweep(u) \/ CloudSweep(u)
       PROVE  LoopInv'
    BY <1>10, LoopKept DEF Sweep, CloudSweep, AtWork
<1>11. ASSUME Crash
       PROVE  LoopInv'
    <2>1. /\ \A q \in Pollers : poller'[q].next = 0 /\ poller'[q].batch = {}
          /\ UNCHANGED <<handled, offsetRow, confirmed>>
        BY <1>11 DEF Crash, Off
    <2> QED
        BY <2>1 DEF LoopInv, DroppedWasHandled
<1>12. ASSUME UNCHANGED vars
       PROVE  LoopInv'
    BY <1>12, LoopKept DEF vars, AtWork
<1>13. \A order \in OrderIds : TradesOf(order) \subseteq Updates
    BY DEF TradesOf, Updates
<1> QED
    BY <1>1, <1>2, <1>3, <1>5, <1>6, <1>7, <1>8, <1>9, <1>10, <1>11, <1>12, <1>13
        DEF Next, Enqueue, WeeklyReview, LoopStep, HandlerStep, Updates

\* At least once: with any number of pollers of both kinds, crashes and failures,
\* Telegram drops no press that no handler has returned from.
THEOREM AtLeastOnce == Spec => []DroppedWasHandled
<1>1. Init => ShapeInv /\ LoopInv
    BY ShapeInit, LoopInit
<1>2. ShapeInv /\ LoopInv /\ [Next]_vars => (ShapeInv /\ LoopInv)'
    BY ShapeStep, OffsetStep
<1>3. LoopInv => DroppedWasHandled
    BY DEF LoopInv
<1> QED
    BY <1>1, <1>2, <1>3, PTL DEF Spec

---------------------------------------------------------------------------
(* Decisions *)

Deals(p, u) == work[p].stage # "idle" /\ work[p].of = u

Undecided(u) == rows[u] \in {"none", "pending"}

\* Exempt like in AppliedOnce and RejectedIsFinal.
Disturbed(u) == <<u, u>> \in overlaps \/ u \in cut

\* Of an update that is not exempt, one handler at a time has a hand in; its pull
\* request is the last thing before its row is decided, and a rejected one has none.
DecisionInv(u) ==
    ~Disturbed(u) =>
        /\ \A p, q \in Pollers : Deals(p, u) /\ Deals(q, u) => p = q
        /\ opened[u] <= 1
        /\ Undecided(u) => u \notin refused
        /\ Undecided(u) /\ opened[u] # 0 =>
               \E p \in Pollers : Deals(p, u) /\ work[p].stage = "approved"
        /\ \A p \in Pollers :
               Deals(p, u) => /\ u \notin refused
                              /\ work[p].stage # "approved" => opened[u] = 0
        /\ u \in refused => opened[u] = 0

\* Nothing was decided in the beginning.
LEMMA DecisionInit ==
    ASSUME NEW u \in Updates, Init
    PROVE  DecisionInv(u)
BY DEF Init, DecisionInv, Deals, Undecided, NoWork

\* Steps that leave the decision of u alone, or let its row expire.
LEMMA DecisionKept ==
    ASSUME NEW u \in Updates, DecisionInv(u),
           opened'[u] = opened[u],
           u \in refused' => u \in refused,
           overlaps \subseteq overlaps', cut \subseteq cut',
           Undecided(u)' => Undecided(u),
           \A p \in Pollers : Deals(p, u)' =>
               Deals(p, u) /\ (work'[p].stage # "approved" => work[p].stage # "approved"),
           \A p \in Pollers : Deals(p, u) /\ work[p].stage = "approved" =>
               Deals(p, u)' /\ work'[p].stage = "approved"
    PROVE  DecisionInv(u)'
<1> SUFFICES ASSUME ~Disturbed(u)'
             PROVE  /\ (\A p, q \in Pollers : Deals(p, u) /\ Deals(q, u) => p = q)'
                    /\ opened'[u] <= 1
                    /\ Undecided(u)' => u \notin refused'
                    /\ Undecided(u)' /\ opened'[u] # 0 =>
                           \E p \in Pollers : Deals(p, u)' /\ work'[p].stage = "approved"
                    /\ \A p \in Pollers :
                           Deals(p, u)' => /\ u \notin refused'
                                           /\ work'[p].stage # "approved" => opened'[u] = 0
                    /\ u \in refused' => opened'[u] = 0
    BY DEF DecisionInv
<1>1. ~Disturbed(u)
    BY DEF Disturbed
<1> QED
    BY <1>1 DEF DecisionInv

\* The same, when the handlers are left alone too.
LEMMA DecisionUntouched ==
    ASSUME NEW u \in Updates, DecisionInv(u),
           UNCHANGED <<work, opened, refused, overlaps, cut>>,
           Undecided(u)' => Undecided(u)
    PROVE  DecisionInv(u)'
BY DecisionKept DEF Deals

\* A press is taken up only when its update is undecided.
LEMMA DecisionTake ==
    ASSUME ShapeInv, ShapeInv', NEW u \in Updates, DecisionInv(u),
           NEW p \in Pollers, Take(p)
    PROVE  DecisionInv(u)'
<1>1. UNCHANGED <<rows, opened, refused, cut>> /\ work[p].stage = "idle"
    BY DEF Take
<1>2. CASE UNCHANGED <<work, overlaps>>
    BY <1>1, <1>2, DecisionUntouched DEF Undecided
<1>3. ASSUME NEW n, NEW stage \in {"reject", "prepare"}, NEW b,
             Start(p, n, stage, b), Answered(presses[n].of)
      PROVE  DecisionInv(u)'
    <2> DEFINE v == presses[n].of
    <2>1. /\ overlaps' = overlaps \cup ({v} \X UnderWay(p))
          /\ work'[p].stage = stage /\ work'[p].of = v
          /\ \A q \in Pollers \ {p} : work'[q] = work[q]
        BY <1>3, Parts DEF Start
    <2>2. CASE v # u
        <3>1. \A q \in Pollers : Deals(q, u)' => Deals(q, u) /\ work'[q] = work[q]
            BY <2>1, <2>2 DEF Deals
        <3>2. \A q \in Pollers : Deals(q, u) => Deals(q, u)' /\ work'[q] = work[q]
            BY <1>1, <2>1 DEF Deals
        <3> QED
            BY <1>1, <2>1, <3>1, <3>2, DecisionKept DEF Undecided
    <2>3. CASE v = u
        <3> SUFFICES ASSUME ~Disturbed(u)' PROVE DecisionInv(u)'
            BY DEF DecisionInv
        <3>1. ~Disturbed(u) /\ u \notin UnderWay(p)
            BY <1>1, <2>1, <2>3 DEF Disturbed
        <3>2. \A q \in Pollers : ~Deals(q, u)
            BY <1>1, <3>1 DEF UnderWay, Deals
        <3>3. Undecided(u)
            BY <1>3, <2>3 DEF Answered, Undecided
        <3>4. u \notin refused /\ opened[u] = 0
            BY <3>1, <3>2, <3>3 DEF DecisionInv
        <3>5. \A q \in Pollers : Deals(q, u)' => q = p
            BY <2>1, <3>2 DEF Deals
        <3> QED
            BY <1>1, <3>4, <3>5 DEF DecisionInv
    <2> QED
        BY <2>2, <2>3
<1> QED
    BY <1>2, <1>3 DEF Take

\* The writer's steps up to the pull request.
LEMMA DecisionWrite ==
    ASSUME ShapeInv, NEW u \in Updates, DecisionInv(u), NEW p \in Pollers, WriterStep(p)
    PROVE  DecisionInv(u)'
<1>1. \E stage \in Stages \ {"idle"} : Goto(p, stage)
    BY DEF WriterStep, Prepare, Edit, Commit, Push, OpenPr, Stages
<1>2. /\ work[p].stage \notin {"idle", "reject", "approved", "failed"}
      /\ UNCHANGED <<rows, refused, overlaps>>
    BY DEF WriterStep, Prepare, Edit, Commit, Push, OpenPr, histVars
<1>3. /\ work'[p].of = work[p].of /\ work'[p].stage # "idle"
      /\ \A q \in Pollers \ {p} : work'[q] = work[q]
    BY <1>1, Parts DEF Goto, Work, Stages
<1>4. \A q \in Pollers : Deals(q, u)' <=> Deals(q, u)
    BY <1>2, <1>3 DEF Deals
<1>5. CASE opened'[u] = opened[u] /\ cut \subseteq cut'
    BY <1>2, <1>3, <1>4, <1>5, DecisionKept DEF Undecided
<1>6. CASE /\ work[p].of = u
           /\ opened' = [opened EXCEPT ![u] = @ + 1]
           /\ \/ Goto(p, "approved") /\ UNCHANGED cut
              \/ cut' = cut \cup {u}
    <2> SUFFICES ASSUME ~Disturbed(u)' PROVE DecisionInv(u)'
        BY DEF DecisionInv
    <2>1. ~Disturbed(u) /\ Goto(p, "approved")
        BY <1>2, <1>6 DEF Disturbed
    <2>2. work'[p].stage = "approved"
        BY <2>1, Parts DEF Goto, Work
    <2>3. Deals(p, u)
        BY <1>2, <1>6 DEF Deals
    <2>4. u \notin refused /\ opened[u] = 0 /\ \A q \in Pollers : Deals(q, u) => q = p
        BY <1>2, <2>1, <2>3 DEF DecisionInv
    <2>5. opened'[u] = 1
        BY <1>6, <2>4, Parts
    <2> QED
        BY <1>2, <1>4, <2>2, <2>3, <2>4, <2>5 DEF DecisionInv, Undecided
<1>7. ASSUME OpenPr(p)
      PROVE  \/ opened'[u] = opened[u] /\ cut \subseteq cut'
             \/ /\ work[p].of = u
                /\ opened' = [opened EXCEPT ![u] = @ + 1]
                /\ \/ Goto(p, "approved") /\ UNCHANGED cut
                   \/ cut' = cut \cup {u}
    <2>1. CASE work[p].of = u
        BY <1>7, <2>1 DEF OpenPr
    <2>2. CASE work[p].of # u
        BY <1>7, <2>2, Parts DEF OpenPr
    <2> QED
        BY <2>1, <2>2
<1>8. CASE Prepare(p) \/ Edit(p) \/ Commit(p) \/ Push(p)
    BY <1>5, <1>8 DEF Prepare, Edit, Commit, Push, histVars
<1> QED
    BY <1>5, <1>6, <1>7, <1>8 DEF WriterStep

\* The handler returns: the row is decided, or the update was misinformed.
LEMMA DecisionEnd ==
    ASSUME ShapeInv, NEW u \in Updates, DecisionInv(u),
           NEW p \in Pollers, Reject(p) \/ Finish(p)
    PROVE  DecisionInv(u)'
<1> DEFINE v == work[p].of
<1>1. /\ work'[p].stage = "idle"
      /\ \A q \in Pollers \ {p} : work'[q] = work[q]
      /\ work[p].stage # "idle"
      /\ UNCHANGED <<opened, overlaps>>
    BY IdleShape DEF Reject, Finish
<1>2. v \in Updates /\ rows \in [Updates -> Status]
    BY <1>1, Parts DEF WorkInv
<1>3. \A q \in Pollers : Deals(q, u)' <=> Deals(q, u) /\ q # p
    BY <1>1 DEF Deals
<1>4. cut \subseteq cut' /\ refused \subseteq refused'
    BY DEF Reject, Finish
<1>5. CASE v # u
    <2>1. rows'[u] = rows[u] /\ (u \in refused' => u \in refused)
        BY <1>2, <1>5 DEF Reject, Finish, SetRow
    <2>2. \A q \in Pollers : Deals(q, u) => q # p
        BY <1>5 DEF Deals
    <2> QED
        BY <1>1, <1>3, <1>4, <2>1, <2>2, DecisionKept DEF Undecided
<1>6. CASE v = u
    <2> SUFFICES ASSUME ~Disturbed(u)' PROVE DecisionInv(u)'
        BY DEF DecisionInv
    <2>1. ~Disturbed(u) /\ Deals(p, u) /\ u \notin cut'
        BY <1>1, <1>4, <1>6 DEF Disturbed, Deals
    <2>2. \A q \in Pollers : ~Deals(q, u)'
        BY <1>3, <2>1 DEF DecisionInv
    <2>3. u \notin refused /\ opened[u] <= 1
        BY <2>1 DEF DecisionInv
    <2>4. CASE Reject(p)
        <3>1. opened[u] = 0
            BY <2>1, <2>4 DEF DecisionInv, Reject
        <3>2. \/ ~Undecided(u)'
              \/ UNCHANGED <<rows, refused>>
            BY <1>2, <1>6, <2>4 DEF Reject, SetRow, Undecided
        <3> QED
            BY <1>1, <2>2, <2>3, <3>1, <3>2 DEF DecisionInv
    <2>5. CASE Finish(p)
        <3>1. ~Undecided(u)'
            BY <1>2, <1>6, <2>1, <2>5 DEF Finish, SetRow, Undecided
        <3>2. UNCHANGED refused
            BY <2>5 DEF Finish
        <3> QED
            BY <1>1, <2>2, <2>3, <3>1, <3>2 DEF DecisionInv
    <2> QED
        BY <2>4, <2>5
<1> QED
    BY <1>5, <1>6

\* A crash disturbs what was being handled.
LEMMA DecisionCrash ==
    ASSUME ShapeInv, NEW u \in Updates, DecisionInv(u), Crash
    PROVE  DecisionInv(u)'
<1>1. /\ work' = [p \in Pollers |-> NoWork]
      /\ cut' = cut \cup ({work[p].of : p \in Pollers} \ {0})
      /\ UNCHANGED <<rows, opened, refused, overlaps>>
    BY DEF Crash
<1>2. \A p \in Pollers : ~Deals(p, u)'
    BY <1>1 DEF Deals, NoWork
<1>3. u # 0
    BY MemoryAssumption DEF Updates
<1>4. CASE \E p \in Pollers : Deals(p, u)
    BY <1>1, <1>3, <1>4 DEF DecisionInv, Disturbed, Deals
<1>5. CASE ~\E p \in Pollers : Deals(p, u)
    BY <1>1, <1>2, <1>5, DecisionKept DEF Undecided
<1> QED
    BY <1>4, <1>5

\* Every step keeps it.
LEMMA DecisionStep ==
    ASSUME ShapeInv, ShapeInv', NEW u \in Updates, DecisionInv(u), [Next]_vars
    PROVE  DecisionInv(u)'
<1> USE DEF chatVars, gitVars, histVars
<1>1. ASSUME NEW S \in SUBSET Updates, Draft(S)
      PROVE  DecisionInv(u)'
    <2>1. Undecided(u)' => Undecided(u)
        BY <1>1, Parts DEF Draft, Undecided
    <2> QED
        BY <1>1, <2>1, DecisionUntouched DEF Draft
<1>2. ASSUME NEW v \in announced, NEW a \in {"approve", "reject"}, PressButton(v, a)
      PROVE  DecisionInv(u)'
    BY <1>2, DecisionUntouched DEF PressButton, Undecided
<1>3. ASSUME NEW p \in Pollers,
             StartDaemon(p) \/ FetchDaemon(p) \/ FetchPoll(p) \/ EndPoll(p)
      PROVE  DecisionInv(u)'
    BY <1>3, DecisionUntouched DEF StartDaemon, FetchDaemon, FetchPoll, Fetch, EndPoll, Undecided
<1>4. ASSUME NEW v \in Updates, Sweep(v) \/ CloudSweep(v)
      PROVE  DecisionInv(u)'
    <2>1. Undecided(u)' => Undecided(u)
        BY <1>4, Parts DEF Sweep, CloudSweep, SetRow, Undecided
    <2> QED
        BY <1>4, <2>1, DecisionUntouched DEF Sweep, CloudSweep
<1>5. CASE UNCHANGED vars
    BY <1>5, DecisionUntouched DEF vars, Undecided
<1>6. \A order \in OrderIds : TradesOf(order) \subseteq Updates
    BY DEF TradesOf, Updates
<1> QED
    BY <1>1, <1>2, <1>3, <1>4, <1>5, <1>6, DecisionTake, DecisionWrite, DecisionEnd, DecisionCrash
        DEF Next, Enqueue, WeeklyReview, LoopStep, HandlerStep, Updates

\* Only updates are rejected.
LEMMA RefusedStep ==
    ASSUME ShapeInv, refused \subseteq Updates, [Next]_vars
    PROVE  refused' \subseteq Updates
<1> USE DEF chatVars, gitVars, histVars
<1>1. ASSUME NEW p \in Pollers, Reject(p)
      PROVE  refused' \subseteq Updates
    BY <1>1, Parts DEF Reject, WorkInv
<1>2. ASSUME NEW p \in Pollers, WriterStep(p) \/ Finish(p)
      PROVE  UNCHANGED refused
    BY <1>2 DEF WriterStep, Prepare, Edit, Commit, Push, OpenPr, Finish
<1>3. ASSUME NEW p \in Pollers, StartDaemon(p) \/ LoopStep(p)
      PROVE  UNCHANGED refused
    BY <1>3 DEF StartDaemon, LoopStep, FetchDaemon, FetchPoll, Fetch, Take, EndPoll
<1>4. ASSUME NEW u, NEW a, PressButton(u, a) \/ Sweep(u) \/ CloudSweep(u)
      PROVE  UNCHANGED refused
    BY <1>4 DEF PressButton, Sweep, CloudSweep
<1>5. ASSUME NEW S, Draft(S)
      PROVE  UNCHANGED refused
    BY <1>5 DEF Draft
<1>6. CASE Crash \/ UNCHANGED vars
    BY <1>6 DEF Crash, vars
<1> QED
    BY <1>1, <1>2, <1>3, <1>4, <1>5, <1>6 DEF Next, Enqueue, WeeklyReview, HandlerStep

\* What is shown of every update.
DecisionsInv == refused \subseteq Updates /\ \A u \in Updates : DecisionInv(u)

LEMMA DecisionsInit == Init => DecisionsInv
BY DecisionInit DEF DecisionsInv, Init

LEMMA DecisionsStep ==
    ASSUME ShapeInv, ShapeInv', DecisionsInv, [Next]_vars
    PROVE  DecisionsInv'
<1>1. refused' \subseteq Updates
    BY RefusedStep DEF DecisionsInv
<1>2. \A u \in Updates : DecisionInv(u)'
    BY DecisionStep DEF DecisionsInv
<1> QED
    BY <1>1, <1>2 DEF DecisionsInv

LEMMA DecisionsImply ==
    ASSUME ShapeInv, DecisionsInv
    PROVE  AppliedOnce /\ RejectedIsFinal
<1>1. AppliedOnce
    BY DEF DecisionsInv, DecisionInv, Disturbed, AppliedOnce
<1>2. RejectedIsFinal
    BY DEF DecisionsInv, DecisionInv, Disturbed, RejectedIsFinal
<1> QED
    BY <1>1, <1>2

\* One approval, one pull request, for any number of pollers, presses and failures
\* (handle_memory_callback, MemoryWriter.apply); exempt are updates two pollers
\* handled at the same time and those whose handler was cut off or misinformed.
THEOREM OnePullRequest == Spec => []AppliedOnce
<1>1. Init => ShapeInv /\ DecisionsInv
    BY ShapeInit, DecisionsInit
<1>2. ShapeInv /\ DecisionsInv /\ [Next]_vars => (ShapeInv /\ DecisionsInv)'
    BY ShapeStep, DecisionsStep
<1> QED
    BY <1>1, <1>2, DecisionsImply, PTL DEF Spec

\* A rejected update never gets a pull request, with the same exemptions
\* (handle_memory_callback).
THEOREM RejectionIsFinal == Spec => []RejectedIsFinal
<1>1. Init => ShapeInv /\ DecisionsInv
    BY ShapeInit, DecisionsInit
<1>2. ShapeInv /\ DecisionsInv /\ [Next]_vars => (ShapeInv /\ DecisionsInv)'
    BY ShapeStep, DecisionsStep
<1> QED
    BY <1>1, <1>2, DecisionsImply, PTL DEF Spec

---------------------------------------------------------------------------
(* What a pull request carries *)

\* The handler owns the entry, or shares it with one of the same time.
Owns(p, v) ==
    \/ v = work[p].of
    \/ v \in spilled
    \/ <<v, work[p].of>> \in overlaps
    \/ <<work[p].of, v>> \in overlaps

\* The edits in the working tree that are not committed.
Loose == repo.tree \ repo.refs[repo.head]

\* Every uncommitted edit is of a handler that has still to commit, or was left;
LooseInv ==
    \A v \in Loose : v \in spilled \/ \E r \in Pollers : work[r].stage = "commit" /\ work[r].of = v

\* handlers of the same time are recorded;
PairInv ==
    \A p, q \in Pollers :
        p # q /\ work[p].stage # "idle" /\ work[q].stage # "idle" =>
            <<work[p].of, work[q].of>> \in overlaps \/ <<work[q].of, work[p].of>> \in overlaps

\* The stages from which on the branch, here and then on GitHub, is the handler's.
Applying == {"edit", "commit", "push", "open", "approved"}
Pushed == {"open", "approved"}

\* and a branch holds what its handler owns, here and on GitHub.
BranchInv ==
    \A p \in Pollers :
        /\ work[p].stage \in Applying =>
               \A v \in repo.refs[work[p].branch] : Owns(p, v)
        /\ work[p].stage \in Pushed =>
               \A v \in remote[work[p].branch] : Owns(p, v)

EditsInv == LooseInv /\ PairInv /\ BranchInv

\* Steps that edit, commit and push nothing.
LEMMA EditsKept ==
    ASSUME ShapeInv, EditsInv,
           Loose' \subseteq Loose,
           \A b \in Branches : repo'.refs[b] \subseteq repo.refs[b] /\ remote'[b] \subseteq remote[b],
           spilled \subseteq spilled', overlaps \subseteq overlaps',
           \A p \in Pollers :
               \/ work'[p].stage = "idle"
               \/ /\ work'[p].of = work[p].of /\ work'[p].branch = work[p].branch
                  /\ work[p].stage # "idle"
                  /\ work'[p].stage \in Applying => work[p].stage \in Applying
                  /\ work'[p].stage \in Pushed => work[p].stage \in Pushed,
           \/ \A p \in Pollers : work[p].stage = "commit" => work'[p] = work[p]
           \/ Loose' \subseteq spilled'
    PROVE  EditsInv'
<1>1. \A p \in Pollers : work'[p].stage # "idle" =>
          /\ work[p].stage # "idle" /\ work'[p].of = work[p].of
          /\ \A v : Owns(p, v) => Owns(p, v)'
    BY DEF Owns
<1>2. PairInv'
    BY <1>1 DEF EditsInv, PairInv
<1>3. LooseInv'
    BY DEF EditsInv, LooseInv
<1>4. BranchInv'
    <2>1. \A p \in Pollers : work[p].stage \in Applying => work[p].branch \in Branches
        BY DEF ShapeInv, WorkInv, Applying
    <2>2. Pushed \subseteq Applying /\ "idle" \notin Applying
        BY DEF Pushed, Applying
    <2> QED
        BY <1>1, <2>1, <2>2 DEF EditsInv, BranchInv
<1> QED
    BY <1>2, <1>3, <1>4 DEF EditsInv

LEMMA EditsUntouched ==
    ASSUME ShapeInv, EditsInv, UNCHANGED <<repo, remote, work, spilled, overlaps>>
    PROVE  EditsInv'
BY DEF EditsInv, LooseInv, PairInv, BranchInv, Loose, Owns

\* A handler begins, and is recorded with the others of its time.
LEMMA EditsTake ==
    ASSUME ShapeInv, EditsInv, NEW p \in Pollers, Take(p)
    PROVE  EditsInv'
<1>1. UNCHANGED <<repo, remote, spilled>> /\ work[p].stage = "idle"
    BY DEF Take, gitVars
<1>2. CASE UNCHANGED <<work, overlaps>>
    BY <1>1, <1>2, EditsUntouched
<1>3. ASSUME NEW n, NEW stage \in {"reject", "prepare"}, NEW b, Start(p, n, stage, b)
      PROVE  EditsInv'
    <2> DEFINE u == presses[n].of
    <2>1. /\ work'[p].of = u /\ work'[p].stage = stage
          /\ \A q \in Pollers \ {p} : work'[q] = work[q]
          /\ \A q \in Pollers \ {p} : work[q].stage # "idle" => <<u, work[q].of>> \in overlaps'
          /\ overlaps \subseteq overlaps'
        BY <1>3, Parts DEF Start, UnderWay
    <2>2. \A q \in Pollers \ {p}, v \in Updates : Owns(q, v) => Owns(q, v)'
        BY <1>1, <2>1 DEF Owns
    <2>3. PairInv'
        BY <2>1 DEF EditsInv, PairInv
    <2>4. LooseInv'
        BY <1>1, <2>1 DEF EditsInv, LooseInv, Loose
    <2>5. BranchInv'
        <3>1. work'[p].stage \notin Applying /\ work'[p].stage \notin Pushed
            BY <2>1 DEF Applying, Pushed
        <3> QED
            BY <1>1, <2>1, <3>1 DEF EditsInv, BranchInv, Owns
    <2> QED
        BY <2>3, <2>4, <2>5 DEF EditsInv
<1> QED
    BY <1>2, <1>3 DEF Take

\* A branch starts from main, with what is not committed.
LEMMA EditsPrepare ==
    ASSUME ShapeInv, EditsInv, NEW p \in Pollers, Prepare(p),
           CanCheckout, repo' = Switched(work[p].branch), Goto(p, "edit")
    PROVE  EditsInv'
<1> DEFINE b == work[p].branch
<1>1. /\ UNCHANGED <<remote, spilled, overlaps>> /\ work[p].stage = "prepare"
      /\ b \in Branches
    BY DEF Prepare, histVars, ShapeInv, WorkInv
<1>2. /\ repo'.head = b /\ repo'.refs[b] = {}
      /\ \A c \in Branches \ {b} : repo'.refs[c] = repo.refs[c]
      /\ repo'.tree = IF Clean THEN {} ELSE repo.tree
    BY <1>1, Parts DEF Switched, Repo
<1>3. Loose' \subseteq Loose
    BY <1>2 DEF Loose, Clean, CanCheckout
<1>4. /\ work'[p].stage = "edit" /\ work'[p].of = work[p].of /\ work'[p].branch = b
      /\ \A q \in Pollers \ {p} : work'[q] = work[q]
    BY Parts DEF Goto, Work
<1>5. \A q \in Pollers, v \in Updates : Owns(q, v)' <=> Owns(q, v)
    BY <1>1, <1>4 DEF Owns
<1>6. LooseInv'
    BY <1>1, <1>3, <1>4 DEF EditsInv, LooseInv
<1>7. PairInv'
    BY <1>1, <1>4 DEF EditsInv, PairInv
<1>8. BranchInv'
    <2>1. \A q \in Pollers : work[q].stage \in Applying \cup Pushed => work[q].branch \in Branches
        BY DEF ShapeInv, WorkInv, Applying, Pushed
    <2>2. "edit" \notin Pushed
        BY DEF Pushed
    <2> QED
        BY <1>1, <1>2, <1>4, <2>1, <2>2 DEF EditsInv, BranchInv, Owns
<1> QED
    BY <1>6, <1>7, <1>8 DEF EditsInv

\* The entry of the handler joins the working tree.
LEMMA EditsEdit ==
    ASSUME ShapeInv, EditsInv, NEW p \in Pollers, Edit(p),
           Goto(p, "commit"), repo' = [repo EXCEPT !.tree = @ \cup {work[p].of}]
    PROVE  EditsInv'
<1>1. UNCHANGED <<remote, spilled, overlaps>> /\ work[p].stage = "edit"
    BY DEF Edit, histVars
<1>2. /\ repo'.head = repo.head /\ repo'.refs = repo.refs
      /\ repo'.tree = repo.tree \cup {work[p].of}
    BY Parts DEF Repo
<1>3. /\ work'[p].stage = "commit" /\ work'[p].of = work[p].of
      /\ work'[p].branch = work[p].branch
      /\ \A q \in Pollers \ {p} : work'[q] = work[q]
    BY Parts DEF Goto, Work
<1>4. LooseInv'
    BY <1>1, <1>2, <1>3 DEF EditsInv, LooseInv, Loose
<1>5. PairInv'
    BY <1>1, <1>3 DEF EditsInv, PairInv
<1>6. BranchInv'
    BY <1>1, <1>2, <1>3 DEF EditsInv, BranchInv, Owns, Applying, Pushed
<1> QED
    BY <1>4, <1>5, <1>6 DEF EditsInv

\* A commit takes what is in the tree to the branch that is checked out: another
\* handler's entry only if that handler is of the same time.
LEMMA EditsCommit ==
    ASSUME ShapeInv, EditsInv, NEW p \in Pollers, Commit(p),
           Goto(p, "push"), UNCHANGED spilled,
           repo' = [repo EXCEPT !.refs[repo.head] = repo.tree]
    PROVE  EditsInv'
<1>1. UNCHANGED <<remote, overlaps>> /\ work[p].stage = "commit"
    BY DEF Commit
<1>2. /\ repo'.head = repo.head /\ repo'.tree = repo.tree
      /\ repo'.refs[repo.head] = repo.tree
      /\ \A c \in Branches \ {repo.head} : repo'.refs[c] = repo.refs[c]
    BY Parts DEF Repo
<1>3. /\ work'[p].stage = "push" /\ work'[p].of = work[p].of
      /\ work'[p].branch = work[p].branch
      /\ \A q \in Pollers \ {p} : work'[q] = work[q]
    BY Parts DEF Goto, Work
<1>4. LooseInv'
    BY <1>2 DEF LooseInv, Loose
<1>5. PairInv'
    BY <1>1, <1>3 DEF EditsInv, PairInv
<1>6. \A q \in Pollers : work[q].stage \in Applying => \A v \in Loose : Owns(q, v)
    <2> SUFFICES ASSUME NEW q \in Pollers, work[q].stage \in Applying,
                        NEW v \in Loose, v \notin spilled
                 PROVE  Owns(q, v)
        BY DEF Owns
    <2>1. PICK r \in Pollers : work[r].stage = "commit" /\ work[r].of = v
        BY DEF EditsInv, LooseInv
    <2>2. work[q].stage # "idle"
        BY DEF Applying
    <2> QED
        BY <2>1, <2>2 DEF EditsInv, PairInv, Owns
<1>7. BranchInv'
    <2>1. \A q \in Pollers : work[q].stage \in Applying \cup Pushed => work[q].branch \in Branches
        BY DEF ShapeInv, WorkInv, Applying, Pushed
    <2>2. \A q \in Pollers :
              /\ work'[q].stage \in Applying => work[q].stage \in Applying
              /\ work'[q].stage \in Pushed => work[q].stage \in Pushed
              /\ work'[q].branch = work[q].branch
              /\ \A v : Owns(q, v)' <=> Owns(q, v)
        BY <1>1, <1>3 DEF Applying, Pushed, Owns
    <2>3. \A q \in Pollers : work[q].stage \in Applying =>
              \A v \in repo'.refs[work[q].branch] : Owns(q, v)
        <3> SUFFICES ASSUME NEW q \in Pollers, work[q].stage \in Applying,
                            NEW v \in repo'.refs[work[q].branch]
                     PROVE  Owns(q, v)
            OBVIOUS
        <3>1. v \in repo.refs[work[q].branch] \/ v \in Loose
            BY <1>2, <2>1 DEF Loose
        <3> QED
            BY <1>6, <3>1 DEF EditsInv, BranchInv
    <2> QED
        BY <1>1, <2>2, <2>3 DEF EditsInv, BranchInv
<1> QED
    BY <1>4, <1>5, <1>7 DEF EditsInv

\* What is pushed is what the branch holds, and everybody who works on it owns it.
LEMMA EditsPush ==
    ASSUME ShapeInv, EditsInv, NEW p \in Pollers, Push(p), Goto(p, "open"),
           remote' = [remote EXCEPT ![work[p].branch] = repo.refs[work[p].branch]]
    PROVE  EditsInv'
<1> DEFINE b == work[p].branch
<1>1. UNCHANGED <<repo, spilled, overlaps>> /\ work[p].stage = "push"
    BY DEF Push, histVars
<1>2. /\ work'[p].stage = "open" /\ work'[p].of = work[p].of /\ work'[p].branch = b
      /\ \A q \in Pollers \ {p} : work'[q] = work[q]
    BY Parts DEF Goto, Work
<1>3. LooseInv'
    BY <1>1, <1>2 DEF EditsInv, LooseInv, Loose
<1>4. PairInv'
    BY <1>1, <1>2 DEF EditsInv, PairInv
<1>5. BranchInv'
    <2>1. \A q \in Pollers : work[q].stage \in Applying \cup Pushed => work[q].branch \in Branches
        BY DEF ShapeInv, WorkInv, Applying, Pushed
    <2>2. \A q \in Pollers :
              /\ work'[q].stage \in Applying => work[q].stage \in Applying
              /\ work'[q].stage \in Pushed => (work[q].stage \in Pushed \/ q = p)
              /\ work'[q].branch = work[q].branch
              /\ \A v : Owns(q, v)' <=> Owns(q, v)
        BY <1>1, <1>2 DEF Applying, Pushed, Owns
    <2>3. \A c \in Branches : remote'[c] = IF c = b THEN repo.refs[b] ELSE remote[c]
        BY Parts
    <2>4. Pushed \subseteq Applying /\ work[p].stage \in Applying
        BY <1>1 DEF Pushed, Applying
    <2>5. ASSUME NEW q \in Pollers, work'[q].stage \in Applying
          PROVE  \A v \in repo'.refs[work'[q].branch] : Owns(q, v)'
        BY <1>1, <2>2, <2>5 DEF EditsInv, BranchInv
    <2>6. ASSUME NEW q \in Pollers, work'[q].stage \in Pushed
          PROVE  \A v \in remote'[work'[q].branch] : Owns(q, v)'
        <3>1. work[q].stage \in Applying /\ work[q].branch \in Branches
            BY <2>1, <2>2, <2>4, <2>6
        <3>2. CASE work[q].branch = b
            BY <2>2, <2>3, <3>1, <3>2 DEF EditsInv, BranchInv
        <3>3. CASE work[q].branch # b
            BY <2>2, <2>3, <2>6, <3>1, <3>3 DEF EditsInv, BranchInv
        <3> QED
            BY <3>2, <3>3
    <2> QED
        BY <2>5, <2>6 DEF BranchInv
<1> QED
    BY <1>3, <1>4, <1>5 DEF EditsInv

\* A handler that goes on without touching the repository, or gives up.
LEMMA EditsGoto ==
    ASSUME ShapeInv, EditsInv, NEW p \in Pollers, NEW stage, Goto(p, stage),
           UNCHANGED <<repo, remote, overlaps>>, spilled \subseteq spilled',
           \/ stage = "failed" /\ work[p].stage \notin {"idle", "commit"}
           \/ stage = "failed" /\ work[p].stage = "commit" /\ Loose \subseteq spilled'
           \/ stage = "approved" /\ work[p].stage = "open"
    PROVE  EditsInv'
<1>1. /\ work'[p].stage = stage /\ work'[p].of = work[p].of
      /\ work'[p].branch = work[p].branch
      /\ \A q \in Pollers \ {p} : work'[q] = work[q]
    BY Parts DEF Goto, Work
<1>2. \A q \in Pollers :
          /\ work'[q].of = work[q].of /\ work'[q].branch = work[q].branch
          /\ work'[q].stage # "idle" => work[q].stage # "idle"
          /\ work'[q].stage \in Applying => work[q].stage \in Applying
          /\ work'[q].stage \in Pushed => work[q].stage \in Pushed
    BY <1>1 DEF Applying, Pushed
<1>3. Loose' = Loose
    BY DEF Loose
<1> QED
    BY <1>1, <1>2, <1>3, EditsKept

\* The steps of the writer.
LEMMA EditsWrite ==
    ASSUME ShapeInv, EditsInv, NEW p \in Pollers, WriterStep(p)
    PROVE  EditsInv'
<1> USE DEF histVars, gitVars
<1>1. CASE Prepare(p)
    BY <1>1, EditsPrepare, EditsGoto DEF Prepare
<1>2. CASE Edit(p)
    BY <1>2, EditsEdit, EditsGoto DEF Edit
<1>3. CASE Commit(p)
    <2>1. Clean => Loose = {}
        BY DEF Clean, Loose
    <2>2. CASE /\ repo' = [repo EXCEPT !.refs[repo.head] = repo.tree]
               /\ Goto(p, "push")
               /\ UNCHANGED spilled
        BY <1>3, <2>2, EditsCommit
    <2>3. CASE /\ Loose \subseteq spilled'
               /\ spilled \subseteq spilled'
               /\ Goto(p, "failed")
               /\ UNCHANGED repo
        <3>1. work[p].stage = "commit" /\ UNCHANGED <<remote, overlaps>>
            BY <1>3 DEF Commit
        <3> QED
            BY <2>3, <3>1, EditsGoto
    <2> QED
        BY <1>3, <2>1, <2>2, <2>3 DEF Commit, Loose
<1>4. CASE Push(p)
    BY <1>4, EditsPush, EditsGoto DEF Push
<1>5. CASE OpenPr(p)
    BY <1>5, EditsGoto DEF OpenPr
<1> QED
    BY <1>1, <1>2, <1>3, <1>4, <1>5 DEF WriterStep

\* The handler returns, or the process dies.
LEMMA EditsEnd ==
    ASSUME ShapeInv, EditsInv,
           (\E p \in Pollers : Reject(p) \/ Finish(p)) \/ Crash
    PROVE  EditsInv'
<1>1. ASSUME NEW S, Forget(S)
      PROVE  /\ Loose' = Loose
             /\ \A b \in Branches : repo'.refs[b] \subseteq repo.refs[b]
                                    /\ remote'[b] \subseteq remote[b]
    <2> DEFINE B == {b \in S : b[1] = "postmortem"}
    <2>1. /\ repo'.head = repo.head /\ repo'.tree = repo.tree
          /\ repo'.refs = [b \in DOMAIN repo.refs |->
                              IF b \in B \ {repo.head} THEN {} ELSE repo.refs[b]]
        BY <1>1, Parts DEF Forget, Repo
    <2>2. repo.head \in Branches \cup {MainBranch} /\ DOMAIN repo.refs = Branches \cup {MainBranch}
        BY Parts DEF Repo
    <2>3. repo'.refs[repo.head] = repo.refs[repo.head]
        BY <2>1, <2>2
    <2>4. \A b \in Branches : repo'.refs[b] \subseteq repo.refs[b]
        BY <2>1, <2>2
    <2>5. \A b \in Branches : remote'[b] \subseteq remote[b]
        BY <1>1 DEF Forget
    <2> QED
        BY <2>1, <2>3, <2>4, <2>5 DEF Loose
<1>2. ASSUME NEW p \in Pollers, Reject(p) \/ Finish(p)
      PROVE  EditsInv'
    <2>1. /\ work'[p].stage = "idle" /\ work[p].stage # "commit"
          /\ \A q \in Pollers \ {p} : work'[q] = work[q]
          /\ UNCHANGED <<spilled, overlaps>>
        BY <1>2, IdleShape DEF Reject, Finish
    <2>2. /\ Loose' = Loose
          /\ \A b \in Branches : repo'.refs[b] \subseteq repo.refs[b]
                                 /\ remote'[b] \subseteq remote[b]
        BY <1>1, <1>2 DEF Reject, Finish, gitVars, Loose
    <2> QED
        BY <2>1, <2>2, EditsKept
<1>3. CASE Crash
    <2>1. /\ \A p \in Pollers : work'[p].stage = "idle"
          /\ Loose \subseteq spilled' /\ spilled \subseteq spilled'
          /\ UNCHANGED overlaps
        BY <1>3 DEF Crash, NoWork, Loose
    <2>2. /\ Loose' = Loose
          /\ \A b \in Branches : repo'.refs[b] \subseteq repo.refs[b]
                                 /\ remote'[b] \subseteq remote[b]
        BY <1>1, <1>3 DEF Crash
    <2> QED
        BY <2>1, <2>2, EditsKept
<1> QED
    BY <1>2, <1>3

LEMMA EditsInit == Init => EditsInv
<1> SUFFICES ASSUME Init PROVE EditsInv
    OBVIOUS
<1>1. Loose = {}
    BY DEF Init, Loose
<1>2. \A p \in Pollers : work[p].stage = "idle"
    BY DEF Init, NoWork
<1> QED
    BY <1>1, <1>2 DEF EditsInv, LooseInv, PairInv, BranchInv, Applying, Pushed

\* Every step keeps what branches hold.
LEMMA EditsStep ==
    ASSUME ShapeInv, EditsInv, [Next]_vars
    PROVE  EditsInv'
<1> USE DEF chatVars, gitVars, histVars
<1>1. ASSUME NEW S, Draft(S)
      PROVE  EditsInv'
    BY <1>1, EditsUntouched DEF Draft
<1>2. ASSUME NEW u, NEW a, PressButton(u, a) \/ Sweep(u) \/ CloudSweep(u)
      PROVE  EditsInv'
    BY <1>2, EditsUntouched DEF PressButton, Sweep, CloudSweep
<1>3. ASSUME NEW p \in Pollers,
             StartDaemon(p) \/ FetchDaemon(p) \/ FetchPoll(p) \/ EndPoll(p)
      PROVE  EditsInv'
    BY <1>3, EditsUntouched DEF StartDaemon, FetchDaemon, FetchPoll, Fetch, EndPoll
<1>4. CASE UNCHANGED vars
    BY <1>4, EditsUntouched DEF vars
<1> QED
    BY <1>1, <1>2, <1>3, <1>4, EditsTake, EditsWrite, EditsEnd
        DEF Next, Enqueue, WeeklyReview, LoopStep, HandlerStep

\* A pull request carries its own update: whatever other handlers check out,
\* commit and push in the one working tree, the branch it is made of holds no
\* other entry than one a failed or interrupted commit left, or one handled at
\* the same time (MemoryWriter.apply).
THEOREM PullRequestIsOwn == Spec => []OwnEditsOnly
<1>1. Init => ShapeInv /\ EditsInv
    BY ShapeInit, EditsInit
<1>2. ShapeInv /\ EditsInv /\ [Next]_vars => (ShapeInv /\ EditsInv)'
    BY ShapeStep, EditsStep
<1>3. EditsInv => OwnEditsOnly
    BY DEF EditsInv, BranchInv, Owns, Pushed, OwnEditsOnly
<1> QED
    BY <1>1, <1>2, <1>3, PTL DEF Spec

=============================================================================
