--------------------------- MODULE ApprovalProofs ---------------------------
(***************************************************************************)
(* Proofs about Approval, for every value of its constants.                *)
(*                                                                         *)
(* TypeOK is inductive.  QueueInv adds who may know a signal that is not   *)
(* yet in the database: only the engine that announced it.  OnceInv then   *)
(* says, when one thread handles the presses, that a signal it has         *)
(* executed, rejected or is about to execute is pending nowhere.           *)
(***************************************************************************)
EXTENDS ApprovalProps, FiniteSetTheorems, TLAPS

---------------------------------------------------------------------------
(* Types *)

\* The bounds are naturals.
LEMMA BoundsNat ==
    /\ MaxSignals \in Nat
    /\ MaxPresses \in Nat
    /\ MaxCrashes \in Nat
    /\ MaxFaults \in Nat
BY ApprovalAssumption

\* A write changes the rows as it says, or counts as a failure.
LEMMA WriteType ==
    ASSUME TypeOK, NEW id \in Signals,
           NEW new \in [Signals -> SignalStatus \cup {"none"}], Write(id, new)
    PROVE  /\ rows' \in [Signals -> SignalStatus \cup {"none"}]
           /\ faults' \in 0..MaxFaults
           /\ unsaved' \subseteq Signals
BY BoundsNat DEF TypeOK, Write

\* A change of status leaves rows rows.
LEMMA WithStatusType ==
    ASSUME TypeOK, NEW id \in Signals, NEW status \in SignalStatus
    PROVE  WithStatus(id, status) \in [Signals -> SignalStatus \cup {"none"}]
BY DEF TypeOK, WithStatus

\* Records of the calls and cycles.
LEMMA RecordTypes ==
    /\ NoCall \in Call
    /\ NoCycle \in Cycle
    /\ \A id \in Signals, a \in Actions :
           [stage |-> "checked", id |-> id, action |-> a] \in Call
    /\ \A c \in Call : /\ [c EXCEPT !.stage = "decided"] \in Call
                       /\ [c EXCEPT !.stage = "execute"] \in Call
                       /\ Outcome(c.action) \in SignalStatus
    /\ \A c \in Cycle : /\ [c EXCEPT !.stage = "expire"] \in Cycle
                        /\ [c EXCEPT !.stage = "scan"] \in Cycle
                        /\ [c EXCEPT !.stage = "queued"] \in Cycle
    /\ \A id \in Signals : [stage |-> "sent", id |-> id] \in Cycle
    /\ [stage |-> "scan", id |-> 0] \in Cycle
BY DEF NoCall, NoCycle, Call, Cycle, Actions, Outcome, SignalStatus, Decided

\* A call or a cycle that is under way names a signal that was announced.
NamesSignals ==
    /\ \A h \in Handlers :
           call[h].stage # "idle" => call[h].id \in Signals /\ call[h].id < nextSignal
    /\ \A e \in Engines :
           cycle[e].stage \in {"sent", "queued"} =>
               cycle[e].id \in Signals /\ cycle[e].id < nextSignal

ShapeInv == TypeOK /\ NamesSignals

\* The variables start with their types.
LEMMA ShapeInit == Init => ShapeInv
<1> SUFFICES ASSUME Init PROVE ShapeInv
    OBVIOUS
<1>1. /\ nextSignal \in 1..(MaxSignals + 1)
      /\ presses \in 0..MaxPresses
      /\ crashes \in 0..MaxCrashes
      /\ faults \in 0..MaxFaults
    BY BoundsNat DEF Init
<1>2. /\ call \in [Handlers -> Call]
      /\ cycle \in [Engines -> Cycle]
    BY RecordTypes DEF Init
<1>3. NamesSignals
    BY DEF Init, NamesSignals, NoCall, NoCycle
<1> QED
    BY <1>1, <1>2, <1>3 DEF Init, ShapeInv, TypeOK, Ages

\* Every step keeps the types.
LEMMA ShapeStep ==
    ASSUME ShapeInv, [Next]_vars
    PROVE  ShapeInv'
<1> USE DEF ShapeInv, TypeOK, NamesSignals
<1>1. ASSUME NEW e \in Engines, BeginCycle(e)
      PROVE  ShapeInv'
    <2>1. cycle' \in [Engines -> Cycle] /\ NamesSignals'
        BY <1>1, RecordTypes DEF BeginCycle, envVars, Cycle
    <2> QED
        BY <1>1, <2>1 DEF BeginCycle, envVars, boundVars, histVars
<1>2. ASSUME NEW e \in Engines, NEW id \in Signals, Expire(e, id)
      PROVE  ShapeInv'
    <2>1. memory' \in [Engines -> [Signals -> SignalStatus \cup {"none"}]]
        BY <1>2 DEF Expire, SignalStatus, Decided
    <2>2. /\ rows' \in [Signals -> SignalStatus \cup {"none"}]
          /\ faults' \in 0..MaxFaults
          /\ unsaved' \subseteq Signals
        BY <1>2, WithStatusType, WriteType DEF Expire, SignalStatus, Decided
    <2> QED
        BY <1>2, <2>1, <2>2 DEF Expire, envVars
<1>3. ASSUME NEW e \in Engines, CleanUp(e)
      PROVE  ShapeInv'
    <2>1. rows' \in [Signals -> SignalStatus \cup {"none"}] /\ faults' \in 0..MaxFaults
        BY <1>3, BoundsNat DEF CleanUp
    <2>2. cycle' \in [Engines -> Cycle]
        BY <1>3, RecordTypes DEF CleanUp
    <2>3. NamesSignals'
        BY <1>3 DEF CleanUp, envVars, Cycle
    <2> QED
        BY <1>3, <2>1, <2>2, <2>3 DEF CleanUp, envVars, histVars
<1>4. ASSUME NEW e \in Engines, Announce(e)
      PROVE  ShapeInv'
    <2>1. nextSignal \in Signals /\ nextSignal' \in 1..(MaxSignals + 1)
        BY <1>4, BoundsNat DEF Announce, Signals
    <2>2. cycle' \in [Engines -> Cycle]
        BY <1>4, <2>1, RecordTypes DEF Announce
    <2>3. NamesSignals'
        BY <1>4, <2>1 DEF Announce, Signals
    <2> QED
        BY <1>4, <2>1, <2>2, <2>3 DEF Announce, boundVars, histVars
<1>5. ASSUME NEW e \in Engines, Queue(e)
      PROVE  ShapeInv'
    <2>1. memory' \in [Engines -> [Signals -> SignalStatus \cup {"none"}]]
        BY <1>5 DEF Queue, SignalStatus
    <2>2. cycle' \in [Engines -> Cycle]
        BY <1>5, RecordTypes DEF Queue
    <2>3. NamesSignals'
        BY <1>5 DEF Queue, envVars, Cycle
    <2> QED
        BY <1>5, <2>1, <2>2, <2>3 DEF Queue, envVars, boundVars, histVars
<1>6. ASSUME NEW e \in Engines, SaveSignal(e)
      PROVE  ShapeInv'
    <2> DEFINE new == [rows EXCEPT ![cycle[e].id] = memory[e][cycle[e].id]]
    <2>1. cycle[e].id \in Signals /\ Write(cycle[e].id, new)
        BY <1>6 DEF SaveSignal
    <2>2. new \in [Signals -> SignalStatus \cup {"none"}]
        BY <2>1
    <2>3. /\ rows' \in [Signals -> SignalStatus \cup {"none"}]
          /\ faults' \in 0..MaxFaults
          /\ unsaved' \subseteq Signals
        BY <2>1, <2>2, WriteType
    <2>4. cycle' \in [Engines -> Cycle]
        BY <1>6, RecordTypes DEF SaveSignal
    <2>5. NamesSignals'
        BY <1>6 DEF SaveSignal, envVars
    <2> QED
        BY <1>6, <2>3, <2>4, <2>5 DEF SaveSignal, envVars
<1>7. ASSUME NEW e \in Engines, EndCycle(e)
      PROVE  ShapeInv'
    BY <1>7, RecordTypes DEF EndCycle, NoCycle, envVars, boundVars, histVars
<1>8. ASSUME NEW h \in Handlers, NEW id \in Announced, NEW a \in Actions, Press(h, id, a)
      PROVE  ShapeInv'
    <2>1. id \in Signals /\ id < nextSignal /\ EngineOf[h] \in Engines
        BY ApprovalAssumption DEF Announced, Signals
    <2>2. presses' \in 0..MaxPresses
        BY <1>8, BoundsNat DEF Press
    <2>3. memory' \in [Engines -> [Signals -> SignalStatus \cup {"none"}]]
        <3>1. "expired" \in SignalStatus
            BY DEF SignalStatus, Decided
        <3>2. memory' = memory \/ memory' = [memory EXCEPT ![EngineOf[h]][id] = "expired"]
            BY <1>8 DEF Press
        <3> QED
            BY <2>1, <3>1, <3>2, SMTT(20)
    <2>4. /\ rows' \in [Signals -> SignalStatus \cup {"none"}]
          /\ faults' \in 0..MaxFaults
          /\ unsaved' \subseteq Signals
        BY <1>8, <2>1, WithStatusType, WriteType DEF Press, SignalStatus, Decided
    <2>5. call' \in [Handlers -> Call]
        BY <1>8, <2>1, RecordTypes DEF Press
    <2>6. NamesSignals'
        BY <1>8, <2>1 DEF Press, envVars
    <2> QED
        BY <1>8, <2>2, <2>3, <2>4, <2>5, <2>6 DEF Press, envVars
<1>9. ASSUME NEW h \in Handlers, Decide(h)
      PROVE  ShapeInv'
    <2>1. call[h].id \in Signals /\ EngineOf[h] \in Engines /\ call[h] \in Call
        BY <1>9, ApprovalAssumption DEF Decide
    <2>2. memory' \in [Engines -> [Signals -> SignalStatus \cup {"none"}]]
        BY <1>9, <2>1, RecordTypes DEF Decide
    <2>3. call' \in [Handlers -> Call]
        BY <1>9, <2>1, RecordTypes DEF Decide
    <2>4. NamesSignals'
        BY <1>9, <2>1 DEF Decide, envVars, Call
    <2> QED
        BY <1>9, <2>2, <2>3, <2>4 DEF Decide, envVars, boundVars, histVars
<1>10. ASSUME NEW h \in Handlers, SaveDecision(h)
       PROVE  ShapeInv'
    <2>1. call[h].id \in Signals /\ call[h] \in Call
        BY <1>10 DEF SaveDecision
    <2>2. /\ rows' \in [Signals -> SignalStatus \cup {"none"}]
          /\ faults' \in 0..MaxFaults
          /\ unsaved' \subseteq Signals
        BY <1>10, <2>1, RecordTypes, WithStatusType, WriteType DEF SaveDecision, AfterSave
    <2>3. call' \in [Handlers -> Call] /\ ignored' \subseteq Signals
        BY <1>10, <2>1, RecordTypes DEF SaveDecision
    <2>4. NamesSignals'
        <3>1. \A g \in Handlers :
                  call'[g].stage # "idle" => call'[g].id = call[g].id /\ call[g].stage # "idle"
            <4>1. \/ call' = [call EXCEPT ![h] = NoCall]
                  \/ call' = [call EXCEPT ![h].stage = "execute"]
                BY <1>10 DEF SaveDecision
            <4>2. call[h].stage # "idle" /\ call \in [Handlers -> Call]
                BY <1>10 DEF SaveDecision
            <4>3. CASE call' = [call EXCEPT ![h] = NoCall]
                BY <4>2, <4>3 DEF NoCall
            <4>4. CASE call' = [call EXCEPT ![h].stage = "execute"]
                <5>1. call[h] \in Call
                    BY <4>2
                <5>2. call'[h].id = call[h].id
                    BY <4>2, <4>4, <5>1 DEF Call
                <5>3. \A g \in Handlers \ {h} : call'[g] = call[g]
                    BY <4>2, <4>4
                <5> QED
                    BY <4>2, <5>2, <5>3
            <4> QED
                BY <4>1, <4>3, <4>4
        <3>2. UNCHANGED <<cycle, nextSignal>>
            BY <1>10 DEF SaveDecision, envVars
        <3> QED
            BY <3>1, <3>2
    <2> QED
        BY <1>10, <2>2, <2>3, <2>4 DEF SaveDecision, envVars
<1>11. ASSUME NEW h \in Handlers, Execute(h)
       PROVE  ShapeInv'
    <2>1. call[h].id \in Signals
        BY <1>11 DEF Execute
    <2>2. executions' \in [Signals -> Nat]
        BY <1>11, <2>1 DEF Execute
    <2>3. call' \in [Handlers -> Call] /\ NamesSignals'
        BY <1>11, RecordTypes DEF Execute, NoCall, envVars
    <2> QED
        BY <1>11, <2>2, <2>3 DEF Execute, envVars, boundVars
<1>12. ASSUME NEW e \in Engines, Build(e)
       PROVE  ShapeInv'
    <2>1. CASE \E lost \in SUBSET (PendingRows \ Restored) :
                    /\ faults + Cardinality(lost) <= MaxFaults
                    /\ faults' = faults + Cardinality(lost)
                    /\ unsaved' = unsaved \cup lost
                    /\ memory' = [memory EXCEPT ![e] = [id \in Signals |->
                                    IF id \in Restored THEN "pending" ELSE "none"]]
                    /\ rows' = [id \in Signals |->
                                  IF id \in PendingRows \ (Restored \cup lost)
                                  THEN "expired" ELSE rows[id]]
        <3>1. PICK lost \in SUBSET (PendingRows \ Restored) :
                    /\ faults + Cardinality(lost) <= MaxFaults
                    /\ faults' = faults + Cardinality(lost)
                    /\ unsaved' = unsaved \cup lost
                    /\ memory' = [memory EXCEPT ![e] = [id \in Signals |->
                                    IF id \in Restored THEN "pending" ELSE "none"]]
                    /\ rows' = [id \in Signals |->
                                  IF id \in PendingRows \ (Restored \cup lost)
                                  THEN "expired" ELSE rows[id]]
            BY <2>1
        <3>2. IsFiniteSet(lost) /\ lost \subseteq Signals
            <4>1. IsFiniteSet(Signals) /\ lost \subseteq Signals
                BY BoundsNat, FS_Interval DEF Signals, PendingRows
            <4> QED
                BY <4>1, FS_Subset
        <3>3. faults' \in 0..MaxFaults
            BY <3>1, <3>2, FS_CardinalityType, BoundsNat
        <3>4. memory' \in [Engines -> [Signals -> SignalStatus \cup {"none"}]]
            BY <3>1 DEF SignalStatus
        <3>5. rows' \in [Signals -> SignalStatus \cup {"none"}]
            BY <3>1 DEF SignalStatus, Decided
        <3> QED
            BY <1>12, <3>1, <3>2, <3>3, <3>4, <3>5 DEF Build, envVars
    <2>2. CASE /\ faults < MaxFaults
               /\ faults' = faults + 1
               /\ unsaved' = unsaved \cup PendingRows
               /\ UNCHANGED <<memory, rows>>
        BY <1>12, <2>2, BoundsNat DEF Build, PendingRows, envVars
    <2> QED
        BY <1>12, <2>1, <2>2 DEF Build
<1>13. ASSUME NEW e \in Engines, Stop(e)
       PROVE  ShapeInv'
    <2>1. call' \in [Handlers -> Call] /\ cycle' \in [Engines -> Cycle]
        BY <1>13, RecordTypes DEF Stop
    <2>2. NamesSignals'
        BY <1>13 DEF Stop, NoCall, NoCycle, envVars
    <2> QED
        BY <1>13, <2>1, <2>2, BoundsNat DEF Stop, envVars, histVars
<1>14. ASSUME NEW id \in Signals, TimePasses(id)
       PROVE  ShapeInv'
    BY <1>14 DEF TimePasses, Ages, boundVars, histVars
<1>15. ASSUME UNCHANGED vars
       PROVE  ShapeInv'
    BY <1>15 DEF vars, envVars, boundVars, histVars
<1> QED
    BY <1>1, <1>2, <1>3, <1>4, <1>5, <1>6, <1>7, <1>8, <1>9, <1>10, <1>11, <1>12, <1>13,
        <1>14, <1>15 DEF Next, CycleStep, HandlerStep

\* Every variable keeps its type: calls, cycles, copies and rows are the records
\* the code builds, for any number of engines, threads and signals
\* (TradingEngine, Database).
THEOREM TypeInvariant == Spec => []TypeOK
<1>1. ShapeInv /\ [Next]_vars => ShapeInv'
    BY ShapeStep
<1>2. ShapeInv => TypeOK
    BY DEF ShapeInv
<1> QED
    BY <1>1, <1>2, ShapeInit, PTL DEF Spec

---------------------------------------------------------------------------
(* Who knows a signal *)

InCycle(e, id) == cycle[e].stage \in {"sent", "queued"} /\ cycle[e].id = id
InCall(h, id) == call[h].stage # "idle" /\ call[h].id = id

\* Only an engine that is built has a queue and answers presses.
UpInv ==
    /\ \A h \in Handlers : call[h].stage # "idle" => EngineOf[h] \in up
    /\ \A e \in Engines : cycle[e].stage # "idle" => e \in up
    /\ \A e \in Engines \ up, id \in Signals : memory[e][id] = "none"

\* A signal that was not announced is nowhere.
UnannouncedInv ==
    \A id \in Signals :
        id >= nextSignal =>
            /\ rows[id] = "none"
            /\ \A e \in Engines : memory[e][id] = "none"

\* A signal under way in a cycle has no row, and no other engine has heard of it.
FreshInv ==
    \A e \in Engines, id \in Signals :
        InCycle(e, id) =>
            /\ rows[id] = "none"
            /\ \A d \in Engines \ {e} : memory[d][id] = "none" /\ ~InCycle(d, id)
            /\ \A h \in Handlers : EngineOf[h] # e => ~InCall(h, id)
            /\ cycle[e].stage = "sent" =>
                   memory[e][id] = "none" /\ \A h \in Handlers : ~InCall(h, id)

\* A decided signal is not pending in the copy of the engine that decided it.
DecidedInv ==
    \A h \in Handlers :
        call[h].stage \in {"decided", "execute"} => memory[EngineOf[h]][call[h].id] # "pending"

QueueInv == ShapeInv /\ UpInv /\ UnannouncedInv /\ FreshInv /\ DecidedInv

\* Steps that make nothing known: no row, copy, call or cycle takes up a signal.
LEMMA NothingNew ==
    ASSUME QueueInv, ShapeInv',
           up' = up, nextSignal' = nextSignal,
           \A id \in Signals : rows[id] = "none" => rows'[id] = "none",
           \A e \in Engines, id \in Signals :
               /\ memory[e][id] = "none" => memory'[e][id] = "none"
               /\ memory'[e][id] = "pending" => memory[e][id] = "pending",
           \A e \in Engines :
               \/ cycle'[e] = cycle[e]
               \/ cycle'[e].stage \notin {"sent", "queued"} /\ e \in up,
           \A h \in Handlers :
               \/ call'[h] = call[h]
               \/ call'[h].stage = "idle"
               \/ /\ call[h].stage = "decided" /\ call'[h].stage = "execute"
                  /\ call'[h].id = call[h].id
    PROVE  QueueInv'
<1>1. UpInv'
    BY DEF QueueInv, UpInv
<1>2. UnannouncedInv'
    BY DEF QueueInv, UnannouncedInv
<1>3. FreshInv'
    <2>1. \A e \in Engines, id \in Signals :
              InCycle(e, id)' => InCycle(e, id) /\ cycle'[e].stage = cycle[e].stage
        BY DEF InCycle
    <2>2. \A h \in Handlers, id \in Signals : InCall(h, id)' => InCall(h, id)
        BY DEF InCall
    <2> QED
        BY <2>1, <2>2 DEF QueueInv, FreshInv
<1>4. DecidedInv'
    <2>1. \A h \in Handlers :
              call'[h].stage \in {"decided", "execute"} =>
                  /\ call[h].stage \in {"decided", "execute"}
                  /\ call'[h].id = call[h].id
                  /\ call[h].id \in Signals
                  /\ EngineOf[h] \in Engines
        BY ApprovalAssumption DEF QueueInv, ShapeInv, NamesSignals
    <2> QED
        BY <2>1 DEF QueueInv, DecidedInv
<1> QED
    BY <1>1, <1>2, <1>3, <1>4 DEF QueueInv

\* A row written in vain, or with another status, does not come into being.
LEMMA WriteKeepsNone ==
    ASSUME TypeOK, NEW id \in Signals, NEW status \in SignalStatus,
           Write(id, WithStatus(id, status))
    PROVE  \A i \in Signals : rows[i] = "none" => rows'[i] = "none"
BY DEF TypeOK, Write, WithStatus

\* Nobody knows a signal before it is announced; what a cycle has announced and
\* not yet saved is known to its engine alone.
LEMMA QueueInit == Init => QueueInv
BY ShapeInit DEF Init, QueueInv, UpInv, UnannouncedInv, FreshInv, DecidedInv, InCycle,
    NoCycle, NoCall, ShapeInv

\* Every step keeps it.
LEMMA QueueStep ==
    ASSUME QueueInv, [Next]_vars
    PROVE  QueueInv'
<1> ShapeInv /\ ShapeInv' /\ TypeOK /\ NamesSignals
    BY ShapeStep DEF QueueInv, ShapeInv
<1>a. /\ memory \in [Engines -> [Signals -> SignalStatus \cup {"none"}]]
      /\ call \in [Handlers -> Call]
      /\ nextSignal \in 1..(MaxSignals + 1)
    BY DEF TypeOK
<1> USE DEF envVars, boundVars, histVars
<1>1. ASSUME NEW e \in Engines, BeginCycle(e)
      PROVE  QueueInv'
    <2>1. e \in up /\ cycle'[e].stage = "expire" /\ \A d \in Engines \ {e} : cycle'[d] = cycle[d]
        BY <1>1 DEF BeginCycle, TypeOK, Cycle
    <2> QED
        BY <1>1, <2>1, NothingNew DEF BeginCycle
<1>2. ASSUME NEW e \in Engines, NEW id \in Signals, Expire(e, id)
      PROVE  QueueInv'
    <2>1. \A i \in Signals : rows[i] = "none" => rows'[i] = "none"
        BY <1>2, WriteKeepsNone DEF Expire, SignalStatus, Decided
    <2>2. \A d \in Engines, i \in Signals :
              memory'[d][i] = memory[d][i] \/ (memory[d][i] = "pending" /\ memory'[d][i] = "expired")
        <3>1. memory' = [memory EXCEPT ![e][id] = "expired"] /\ memory[e][id] = "pending"
            BY <1>2 DEF Expire, Overdue
        <3>2. \A d \in Engines, i \in Signals :
                  memory'[d][i] = IF d = e /\ i = id THEN "expired" ELSE memory[d][i]
            BY <3>1, <1>a
        <3> QED
            BY <3>1, <3>2
    <2>3. UNCHANGED <<up, nextSignal, cycle, call>>
        BY <1>2 DEF Expire
    <2>4. \A d \in Engines, i \in Signals :
              /\ memory[d][i] = "none" => memory'[d][i] = "none"
              /\ memory'[d][i] = "pending" => memory[d][i] = "pending"
        BY <2>2
    <2> HIDE DEF envVars, boundVars, histVars
    <2> QED
        BY <2>1, <2>3, <2>4, NothingNew
<1>3. ASSUME NEW e \in Engines, CleanUp(e)
      PROVE  QueueInv'
    <2>1. \A i \in Signals : rows[i] = "none" => rows'[i] = "none"
        BY <1>3 DEF CleanUp, Decided
    <2>2. e \in up /\ cycle'[e].stage = "scan" /\ \A d \in Engines \ {e} : cycle'[d] = cycle[d]
        BY <1>3 DEF CleanUp, TypeOK, Cycle, QueueInv, UpInv
    <2> QED
        BY <1>3, <2>1, <2>2, NothingNew DEF CleanUp
<1>7. ASSUME NEW e \in Engines, EndCycle(e)
      PROVE  QueueInv'
    <2>1. e \in up /\ cycle'[e].stage = "idle" /\ \A d \in Engines \ {e} : cycle'[d] = cycle[d]
        BY <1>7 DEF EndCycle, TypeOK, Cycle, QueueInv, UpInv, NoCycle
    <2> QED
        BY <1>7, <2>1, NothingNew DEF EndCycle
<1>10. ASSUME NEW h \in Handlers, SaveDecision(h)
       PROVE  QueueInv'
    <2>1. call[h].id \in Signals /\ call[h] \in Call
        BY <1>10 DEF SaveDecision, NamesSignals, TypeOK
    <2>2. \A i \in Signals : rows[i] = "none" => rows'[i] = "none"
        BY <1>10, <2>1, WriteKeepsNone, RecordTypes DEF SaveDecision, AfterSave
    <2>3. \/ call' = [call EXCEPT ![h] = NoCall]
          \/ call' = [call EXCEPT ![h].stage = "execute"]
        BY <1>10 DEF SaveDecision
    <2>4. \A g \in Handlers \ {h} : call'[g] = call[g]
        BY <2>3 DEF TypeOK
    <2>5. call'[h].stage = "idle" \/ (call'[h].stage = "execute" /\ call'[h].id = call[h].id)
        <3>1. CASE call' = [call EXCEPT ![h] = NoCall]
            BY <3>1, <1>a DEF NoCall
        <3>2. CASE call' = [call EXCEPT ![h].stage = "execute"]
            BY <3>2, <2>1, <1>a DEF Call
        <3> QED
            BY <2>3, <3>1, <3>2
    <2>6. /\ UNCHANGED <<up, memory, cycle, nextSignal>>
          /\ call[h].stage = "decided"
        BY <1>10 DEF SaveDecision
    <2>7. \A g \in Handlers :
              \/ call'[g] = call[g]
              \/ call'[g].stage = "idle"
              \/ /\ call[g].stage = "decided" /\ call'[g].stage = "execute"
                 /\ call'[g].id = call[g].id
        BY <2>4, <2>5, <2>6
    <2> QED
        BY <2>2, <2>6, <2>7, NothingNew
<1>11. ASSUME NEW h \in Handlers, Execute(h)
       PROVE  QueueInv'
    <2>1. \A g \in Handlers : call'[g] = call[g] \/ call'[g].stage = "idle"
        BY <1>11 DEF Execute, TypeOK, NoCall
    <2> QED
        BY <1>11, <2>1, NothingNew DEF Execute
<1>14. ASSUME NEW id \in Signals, TimePasses(id)
       PROVE  QueueInv'
    BY <1>14, NothingNew DEF TimePasses
<1>15. ASSUME UNCHANGED vars
       PROVE  QueueInv'
    BY <1>15, NothingNew DEF vars
<1>4. ASSUME NEW e \in Engines, Announce(e)
      PROVE  QueueInv'
    <2> DEFINE new == nextSignal
    <2>1. /\ UNCHANGED <<up, memory, rows, call>>
          /\ new \in Signals /\ nextSignal' = new + 1
          /\ cycle'[e] = [stage |-> "sent", id |-> new]
          /\ \A d \in Engines \ {e} : cycle'[d] = cycle[d]
          /\ cycle[e].stage = "scan"
        BY <1>4, BoundsNat DEF Announce, TypeOK, Signals
    <2>2. \A i \in Signals : i >= nextSignal' => i >= new
        BY <2>1 DEF Signals
    <2>3. \A d \in Engines : ~InCycle(d, new)
        BY DEF InCycle, NamesSignals, TypeOK
    <2>4. \A h \in Handlers : ~InCall(h, new)
        BY DEF InCall, NamesSignals, TypeOK
    <2>5. rows[new] = "none" /\ \A d \in Engines : memory[d][new] = "none"
        BY <2>1 DEF QueueInv, UnannouncedInv, TypeOK
    <2>6. \A d \in Engines, i \in Signals :
              InCycle(d, i)' <=> (d # e /\ InCycle(d, i)) \/ (d = e /\ i = new)
        BY <2>1 DEF InCycle
    <2>7. \A h \in Handlers, i \in Signals : InCall(h, i)' <=> InCall(h, i)
        BY <2>1 DEF InCall
    <2>8. UpInv'
        BY <2>1 DEF QueueInv, UpInv
    <2>9. UnannouncedInv'
        BY <2>1, <2>2 DEF QueueInv, UnannouncedInv
    <2>10. FreshInv'
        <3> SUFFICES ASSUME NEW d \in Engines, NEW i \in Signals, InCycle(d, i)'
                     PROVE  /\ rows[i] = "none"
                            /\ \A f \in Engines \ {d} : memory[f][i] = "none" /\ ~InCycle(f, i)'
                            /\ \A h \in Handlers : EngineOf[h] # d => ~InCall(h, i)
                            /\ cycle'[d].stage = "sent" =>
                                   memory[d][i] = "none" /\ \A h \in Handlers : ~InCall(h, i)
            BY <2>1, <2>7 DEF FreshInv
        <3>1. CASE d = e /\ i = new
            BY <3>1, <2>3, <2>4, <2>5, <2>6
        <3>2. CASE d # e /\ InCycle(d, i)
            <4>1. i # new /\ cycle'[d] = cycle[d]
                BY <3>2, <2>1, <2>3
            <4> QED
                BY <3>2, <4>1, <2>6 DEF QueueInv, FreshInv
        <3> QED
            BY <3>1, <3>2, <2>6
    <2>11. DecidedInv'
        BY <2>1 DEF QueueInv, DecidedInv
    <2> QED
        BY <2>8, <2>9, <2>10, <2>11 DEF QueueInv
<1>5. ASSUME NEW e \in Engines, Queue(e)
      PROVE  QueueInv'
    <2> DEFINE id == cycle[e].id
    <2>1. /\ UNCHANGED <<up, rows, call, nextSignal>>
          /\ id \in Signals /\ id < nextSignal /\ cycle[e].stage = "sent" /\ e \in up
          /\ cycle'[e].stage = "queued" /\ cycle'[e].id = id
          /\ \A d \in Engines \ {e} : cycle'[d] = cycle[d]
        BY <1>5 DEF Queue, TypeOK, Cycle, NamesSignals, QueueInv, UpInv
    <2>2. \A d \in Engines, i \in Signals :
              memory'[d][i] = IF d = e /\ i = id THEN "pending" ELSE memory[d][i]
        BY <1>5, <2>1 DEF Queue, TypeOK
    <2>3. \A d \in Engines, i \in Signals : InCycle(d, i)' <=> InCycle(d, i)
        BY <2>1 DEF InCycle
    <2>4. \A h \in Handlers, i \in Signals : InCall(h, i)' <=> InCall(h, i)
        BY <2>1 DEF InCall
    <2>5. InCycle(e, id) /\ \A h \in Handlers : ~InCall(h, id)
        BY <2>1 DEF InCycle, QueueInv, FreshInv
    <2>6. UpInv'
        BY <2>1, <2>2 DEF QueueInv, UpInv
    <2>7. UnannouncedInv'
        BY <2>1, <2>2 DEF QueueInv, UnannouncedInv, TypeOK, Signals
    <2>8. FreshInv'
        <3> SUFFICES ASSUME NEW d \in Engines, NEW i \in Signals, InCycle(d, i)
                     PROVE  /\ rows[i] = "none"
                            /\ \A f \in Engines \ {d} : memory'[f][i] = "none" /\ ~InCycle(f, i)
                            /\ \A h \in Handlers : EngineOf[h] # d => ~InCall(h, i)
                            /\ cycle'[d].stage = "sent" =>
                                   memory'[d][i] = "none" /\ \A h \in Handlers : ~InCall(h, i)
            BY <2>1, <2>3, <2>4 DEF FreshInv
        <3>1. CASE d = e
            BY <3>1, <2>1, <2>2 DEF QueueInv, FreshInv
        <3>2. CASE d # e
            <4>1. i # id
                BY <3>2, <2>5 DEF QueueInv, FreshInv
            <4> QED
                BY <3>2, <4>1, <2>1, <2>2 DEF QueueInv, FreshInv
        <3> QED
            BY <3>1, <3>2
    <2>9. DecidedInv'
        <3>1. \A h \in Handlers :
                  call[h].stage \in {"decided", "execute"} =>
                      /\ call[h].id \in Signals /\ call[h].id # id
                      /\ EngineOf[h] \in Engines
            BY <2>5, ApprovalAssumption DEF InCall, NamesSignals
        <3> QED
            BY <3>1, <2>1, <2>2 DEF QueueInv, DecidedInv
    <2> QED
        BY <2>6, <2>7, <2>8, <2>9 DEF QueueInv
<1>6. ASSUME NEW e \in Engines, SaveSignal(e)
      PROVE  QueueInv'
    <2> DEFINE id == cycle[e].id
    <2>1. /\ UNCHANGED <<up, memory, call, nextSignal>>
          /\ id \in Signals /\ id < nextSignal /\ cycle[e].stage = "queued" /\ e \in up
          /\ cycle'[e].stage = "scan"
          /\ \A d \in Engines \ {e} : cycle'[d] = cycle[d]
        BY <1>6 DEF SaveSignal, TypeOK, Cycle, NamesSignals, QueueInv, UpInv
    <2>2. \A i \in Signals : i # id => rows'[i] = rows[i]
        <3>1. Write(id, [rows EXCEPT ![id] = memory[e][id]])
            BY <1>6 DEF SaveSignal
        <3> QED
            BY <3>1 DEF Write, TypeOK
    <2>3. \A d \in Engines, i \in Signals : InCycle(d, i)' <=> d # e /\ InCycle(d, i)
        BY <2>1 DEF InCycle
    <2>4. \A h \in Handlers, i \in Signals : InCall(h, i)' <=> InCall(h, i)
        BY <2>1 DEF InCall
    <2>5. \A d \in Engines \ {e} : ~InCycle(d, id)
        BY <2>1 DEF InCycle, QueueInv, FreshInv
    <2>6. UpInv'
        BY <2>1 DEF QueueInv, UpInv
    <2>7. UnannouncedInv'
        BY <2>1, <2>2 DEF QueueInv, UnannouncedInv, TypeOK, Signals
    <2>8. FreshInv'
        BY <2>1, <2>2, <2>3, <2>4, <2>5 DEF QueueInv, FreshInv
    <2>9. DecidedInv'
        BY <2>1 DEF QueueInv, DecidedInv
    <2> QED
        BY <2>6, <2>7, <2>8, <2>9 DEF QueueInv
<1>8. ASSUME NEW h \in Handlers, NEW id \in Announced, NEW a \in Actions, Press(h, id, a)
      PROVE  QueueInv'
    <2> DEFINE e == EngineOf[h]
    <2>1. id \in Signals /\ id < nextSignal /\ e \in Engines /\ e \in up
        BY <1>8, <1>a, BoundsNat, ApprovalAssumption DEF Press, Announced, Signals
    <2>2. UNCHANGED <<up, cycle, nextSignal>> /\ call[h].stage = "idle"
        BY <1>8 DEF Press
    <2>3. CASE UNCHANGED <<memory, rows, call>>
        BY <2>2, <2>3, NothingNew
    <2>4. CASE /\ memory[e][id] = "pending"
               /\ memory' = [memory EXCEPT ![e][id] = "expired"]
               /\ Write(id, WithStatus(id, "expired"))
               /\ UNCHANGED call
        <3>1. \A i \in Signals : rows[i] = "none" => rows'[i] = "none"
            BY <2>1, <2>4, WriteKeepsNone DEF SignalStatus, Decided
        <3>2. \A d \in Engines, i \in Signals :
                  memory'[d][i] = memory[d][i]
                      \/ (memory[d][i] = "pending" /\ memory'[d][i] = "expired")
            <4>1. \A d \in Engines, i \in Signals :
                      memory'[d][i] = IF d = e /\ i = id THEN "expired" ELSE memory[d][i]
                BY <2>1, <2>4, <1>a
            <4> QED
                BY <2>4, <4>1
        <3>3. \A d \in Engines, i \in Signals :
                  /\ memory[d][i] = "none" => memory'[d][i] = "none"
                  /\ memory'[d][i] = "pending" => memory[d][i] = "pending"
            BY <3>2
        <3> QED
            BY <2>2, <2>4, <3>1, <3>3, NothingNew
    <2>5. CASE /\ memory[e][id] = "pending"
               /\ call' = [call EXCEPT ![h] = [stage |-> "checked", id |-> id, action |-> a]]
               /\ UNCHANGED <<memory, rows>>
        <3>1. \A g \in Handlers, i \in Signals :
                  InCall(g, i)' <=> InCall(g, i) \/ (g = h /\ i = id)
            BY <2>2, <2>5 DEF InCall, TypeOK
        <3>2. \A d \in Engines, i \in Signals : InCycle(d, i)' <=> InCycle(d, i)
            BY <2>2 DEF InCycle
        <3>3. UpInv'
            BY <2>1, <2>2, <2>5 DEF QueueInv, UpInv, TypeOK
        <3>4. UnannouncedInv'
            BY <2>2, <2>5 DEF QueueInv, UnannouncedInv
        <3>5. \A d \in Engines : InCycle(d, id) => d = e /\ cycle[d].stage # "sent"
            BY <2>1, <2>5 DEF QueueInv, FreshInv
        <3>6. FreshInv'
            BY <2>2, <2>5, <3>1, <3>2, <3>5 DEF QueueInv, FreshInv
        <3>7. DecidedInv'
            BY <2>2, <2>5 DEF QueueInv, DecidedInv, TypeOK
        <3> QED
            BY <3>3, <3>4, <3>6, <3>7 DEF QueueInv
    <2> QED
        BY <1>8, <2>3, <2>4, <2>5 DEF Press
<1>9. ASSUME NEW h \in Handlers, Decide(h)
      PROVE  QueueInv'
    <2> DEFINE e == EngineOf[h]
               id == call[h].id
    <2>1. /\ id \in Signals /\ id < nextSignal /\ e \in Engines /\ e \in up
          /\ call[h] \in Call /\ call[h].stage = "checked"
        BY <1>9, ApprovalAssumption DEF Decide, NamesSignals, TypeOK, QueueInv, UpInv
    <2>2. UNCHANGED <<up, rows, cycle, nextSignal>>
        BY <1>9 DEF Decide
    <2>3. \A d \in Engines, i \in Signals :
              memory'[d][i] = IF d = e /\ i = id THEN Outcome(call[h].action) ELSE memory[d][i]
        BY <1>9, <2>1 DEF Decide, TypeOK
    <2>4. Outcome(call[h].action) # "pending"
        BY DEF Outcome
    <2>5. /\ call'[h].stage = "decided" /\ call'[h].id = id
          /\ \A g \in Handlers \ {h} : call'[g] = call[g]
        BY <1>9, <2>1 DEF Decide, TypeOK, Call
    <2>6. \A g \in Handlers, i \in Signals : InCall(g, i)' <=> InCall(g, i)
        BY <2>1, <2>5 DEF InCall
    <2>7. \A d \in Engines, i \in Signals : InCycle(d, i)' <=> InCycle(d, i)
        BY <2>2 DEF InCycle
    <2>8. InCall(h, id)
        BY <2>1 DEF InCall
    <2>9. UpInv'
        BY <2>1, <2>2, <2>3, <2>5 DEF QueueInv, UpInv
    <2>10. UnannouncedInv'
        BY <2>1, <2>2, <2>3 DEF QueueInv, UnannouncedInv, TypeOK, Signals
    <2>11. \A d \in Engines : InCycle(d, id) => d = e /\ cycle[d].stage # "sent"
        BY <2>1, <2>8 DEF QueueInv, FreshInv
    <2>12. FreshInv'
        BY <2>1, <2>2, <2>3, <2>6, <2>7, <2>11 DEF QueueInv, FreshInv
    <2>13. DecidedInv'
        <3>1. \A g \in Handlers :
                  g # h /\ call[g].stage \in {"decided", "execute"} =>
                      /\ call[g].id \in Signals
                      /\ EngineOf[g] \in Engines
            BY ApprovalAssumption DEF NamesSignals
        <3> QED
            BY <2>1, <2>3, <2>4, <2>5, <3>1 DEF QueueInv, DecidedInv
    <2> QED
        BY <2>9, <2>10, <2>12, <2>13 DEF QueueInv
<1>12. ASSUME NEW e \in Engines, Build(e)
       PROVE  QueueInv'
    <2>1. UNCHANGED <<cycle, call, nextSignal>> /\ e \notin up /\ up' = up \cup {e}
        BY <1>12 DEF Build
    <2>2. \A i \in Signals : rows[i] = "none" => rows'[i] = "none"
        BY <1>12 DEF Build, PendingRows
    <2>3. \A d \in Engines, i \in Signals :
              \/ memory'[d][i] = memory[d][i]
              \/ d = e /\ (memory'[d][i] = "none" \/ rows[i] = "pending")
        BY <1>12 DEF Build, Restored, PendingRows, TypeOK
    <2>4. \A d \in Engines, i \in Signals :
              memory[d][i] = "none" /\ rows[i] = "none" => memory'[d][i] = "none"
        BY <2>3
    <2>5. /\ \A d \in Engines, i \in Signals : InCycle(d, i)' <=> InCycle(d, i)
          /\ \A h \in Handlers, i \in Signals : InCall(h, i)' <=> InCall(h, i)
        BY <2>1 DEF InCycle, InCall
    <2>6. UpInv'
        BY <2>1, <2>3 DEF QueueInv, UpInv
    <2>7. UnannouncedInv'
        BY <2>1, <2>2, <2>4 DEF QueueInv, UnannouncedInv
    <2>8. FreshInv'
        BY <2>1, <2>2, <2>4, <2>5 DEF QueueInv, FreshInv
    <2>9. DecidedInv'
        <3>1. \A h \in Handlers :
                  call[h].stage # "idle" =>
                      call[h].id \in Signals /\ EngineOf[h] \in Engines /\ EngineOf[h] # e
            BY <2>1, ApprovalAssumption DEF NamesSignals, QueueInv, UpInv
        <3> QED
            BY <2>1, <2>3, <3>1 DEF QueueInv, DecidedInv
    <2> QED
        BY <2>6, <2>7, <2>8, <2>9 DEF QueueInv
<1>13. ASSUME NEW e \in Engines, Stop(e)
       PROVE  QueueInv'
    <2>1. UNCHANGED <<rows, nextSignal>> /\ up' = up \ {e}
        BY <1>13 DEF Stop
    <2>2. \A d \in Engines, i \in Signals :
              memory'[d][i] = IF d = e THEN "none" ELSE memory[d][i]
        BY <1>13 DEF Stop, TypeOK
    <2>3. \A d \in Engines : IF d = e THEN cycle'[d].stage = "idle" ELSE cycle'[d] = cycle[d]
        BY <1>13 DEF Stop, TypeOK, NoCycle
    <2>4. \A h \in Handlers :
              IF EngineOf[h] = e THEN call'[h].stage = "idle" ELSE call'[h] = call[h]
        BY <1>13 DEF Stop, NoCall
    <2>5. /\ \A d \in Engines, i \in Signals : InCycle(d, i)' <=> InCycle(d, i) /\ d # e
          /\ \A h \in Handlers, i \in Signals : InCall(h, i)' <=> InCall(h, i) /\ EngineOf[h] # e
        BY <2>3, <2>4 DEF InCycle, InCall
    <2>6. UpInv'
        BY <2>1, <2>2, <2>3, <2>4 DEF QueueInv, UpInv
    <2>7. UnannouncedInv'
        BY <2>1, <2>2 DEF QueueInv, UnannouncedInv
    <2>8. FreshInv'
        BY <2>1, <2>2, <2>3, <2>5 DEF QueueInv, FreshInv
    <2>9. DecidedInv'
        <3>1. \A h \in Handlers :
                  call[h].stage # "idle" => call[h].id \in Signals /\ EngineOf[h] \in Engines
            BY ApprovalAssumption DEF NamesSignals
        <3> QED
            BY <2>2, <2>4, <3>1 DEF QueueInv, DecidedInv
    <2> QED
        BY <2>6, <2>7, <2>8, <2>9 DEF QueueInv
<1> QED
    BY <1>1, <1>2, <1>3, <1>4, <1>5, <1>6, <1>7, <1>8, <1>9, <1>10, <1>11, <1>12, <1>13,
        <1>14, <1>15 DEF Next, CycleStep, HandlerStep

---------------------------------------------------------------------------
(* One order for each signal *)

Untouched(id) == executions[id] = 0 /\ id \notin ignored

\* Executed, rejected, or about to be executed.
Done(h, id) == ~Untouched(id) \/ (call[h].stage = "execute" /\ call[h].id = id)

\* Announced and not yet in the queue of the engine that answers presses.
UnderWay(h, e, id) == InCycle(e, id) /\ (e # EngineOf[h] \/ cycle[e].stage = "sent")

OnceInv(h) ==
    /\ \A id \in Signals \ unsaved :
           Done(h, id) => memory[EngineOf[h]][id] # "pending" /\ rows[id] # "pending"
    /\ \A id \in Signals \ unsaved : InCall(h, id) => Untouched(id)
    /\ \A e \in Engines, id \in Signals : UnderWay(h, e, id) => Untouched(id)
    /\ \A id \in Signals : id >= nextSignal => Untouched(id)
    /\ \A id \in Signals \ unsaved : executions[id] <= 1

\* Nothing is executed or rejected in the initial state.
LEMMA OnceInit ==
    ASSUME NEW h \in Handlers, Init
    PROVE  OnceInv(h)
BY DEF Init, OnceInv, Done, Untouched, InCall, InCycle, UnderWay, NoCall, NoCycle

\* Steps that neither execute, nor reject, nor check a press: what is done does not
\* become pending again.
LEMMA NothingDone ==
    ASSUME NEW h \in Handlers, QueueInv, QueueInv', OnceInv(h),
           UNCHANGED <<executions, ignored>>,
           unsaved \subseteq unsaved', nextSignal' >= nextSignal,
           \/ call'[h] = call[h]
           \/ call'[h].stage = "idle"
           \/ /\ call[h].stage = "checked" /\ call'[h].stage = "decided"
              /\ call'[h].id = call[h].id,
           \A e \in Engines, id \in Signals : UnderWay(h, e, id)' => Untouched(id),
           \A id \in Signals \ unsaved' :
               Done(h, id) /\ memory[EngineOf[h]][id] # "pending" /\ rows[id] # "pending" =>
                   memory'[EngineOf[h]][id] # "pending" /\ rows'[id] # "pending"
    PROVE  OnceInv(h)'
<1>1. \A id \in Signals : Untouched(id)' <=> Untouched(id)
    BY DEF Untouched
<1>2. \A id \in Signals : Done(h, id)' => Done(h, id)
    BY <1>1 DEF Done
<1>3. \A id \in Signals : InCall(h, id)' => InCall(h, id)
    BY DEF InCall
<1>4. nextSignal \in Int /\ nextSignal' \in Int
    BY BoundsNat DEF QueueInv, ShapeInv, TypeOK
<1>5. \A id \in Signals \ unsaved' :
          Done(h, id)' => memory'[EngineOf[h]][id] # "pending" /\ rows'[id] # "pending"
    BY <1>2 DEF OnceInv
<1>6. \A id \in Signals \ unsaved' : InCall(h, id)' => Untouched(id)'
    BY <1>1, <1>3 DEF OnceInv
<1>7. \A id \in Signals : id >= nextSignal' => Untouched(id)'
    BY <1>1, <1>4, BoundsNat DEF OnceInv, Signals
<1>8. \A id \in Signals \ unsaved' : executions'[id] <= 1
    BY DEF OnceInv
<1>9. \A e \in Engines, id \in Signals : UnderWay(h, e, id)' => Untouched(id)'
    BY <1>1
<1> QED
    BY <1>5, <1>6, <1>7, <1>8, <1>9 DEF OnceInv

\* Every step keeps it, when one thread handles the presses.
LEMMA OnceStep ==
    ASSUME NEW h, Handlers = {h}, QueueInv, QueueInv', OnceInv(h), [Next]_vars
    PROVE  OnceInv(h)'
<1> DEFINE o == EngineOf[h]
<1>a. /\ h \in Handlers /\ o \in Engines
      /\ memory \in [Engines -> [Signals -> SignalStatus \cup {"none"}]]
      /\ call \in [Handlers -> Call]
      /\ rows \in [Signals -> SignalStatus \cup {"none"}]
      /\ executions \in [Signals -> Nat]
      /\ cycle \in [Engines -> Cycle]
      /\ nextSignal \in 1..(MaxSignals + 1)
    BY ApprovalAssumption DEF QueueInv, ShapeInv, TypeOK
<1> USE DEF envVars, boundVars, histVars
<1>1. ASSUME NEW e \in Engines, BeginCycle(e)
      PROVE  OnceInv(h)'
    <2>1. \A d \in Engines, id \in Signals : UnderWay(h, d, id)' => UnderWay(h, d, id)
        BY <1>1, <1>a DEF BeginCycle, UnderWay, InCycle, Cycle
    <2>2. \A d \in Engines, id \in Signals : UnderWay(h, d, id)' => Untouched(id)
        BY <2>1 DEF OnceInv
    <2>3. UNCHANGED <<memory, rows, call, executions, ignored, unsaved, nextSignal>>
        BY <1>1 DEF BeginCycle
    <2> QED
        BY <1>a, <2>2, <2>3, NothingDone
<1>2. ASSUME NEW e \in Engines, NEW i \in Signals, Expire(e, i)
      PROVE  OnceInv(h)'
    <2>1. UNCHANGED <<cycle, call, nextSignal, executions, ignored>> /\ unsaved \subseteq unsaved'
        BY <1>2 DEF Expire, Write
    <2>2. \A d \in Engines, id \in Signals : UnderWay(h, d, id)' => Untouched(id)
        BY <2>1 DEF OnceInv, UnderWay, InCycle
    <2>3. \A id \in Signals : memory[o][id] # "pending" => memory'[o][id] # "pending"
        BY <1>2, <1>a DEF Expire
    <2>4. \A id \in Signals : rows[id] # "pending" => rows'[id] # "pending"
        BY <1>2, <1>a DEF Expire, Write, WithStatus
    <2> QED
        BY <1>a, <2>1, <2>2, <2>3, <2>4, NothingDone
<1>3. ASSUME NEW e \in Engines, CleanUp(e)
      PROVE  OnceInv(h)'
    <2>1. UNCHANGED <<memory, call, nextSignal, executions, ignored, unsaved>>
        BY <1>3 DEF CleanUp
    <2>2. \A d \in Engines, id \in Signals : UnderWay(h, d, id)' => UnderWay(h, d, id)
        BY <1>3, <1>a DEF CleanUp, UnderWay, InCycle, Cycle
    <2>3. \A d \in Engines, id \in Signals : UnderWay(h, d, id)' => Untouched(id)
        BY <2>2 DEF OnceInv
    <2>4. \A id \in Signals : rows[id] # "pending" => rows'[id] # "pending"
        BY <1>3, <1>a DEF CleanUp
    <2> QED
        BY <1>a, <2>1, <2>3, <2>4, NothingDone
<1>4. ASSUME NEW e \in Engines, Announce(e)
      PROVE  OnceInv(h)'
    <2>1. /\ UNCHANGED <<memory, rows, call, executions, ignored, unsaved>>
          /\ nextSignal' = nextSignal + 1 /\ nextSignal \in Signals
          /\ cycle' = [cycle EXCEPT ![e] = [stage |-> "sent", id |-> nextSignal]]
        BY <1>4, <1>a, BoundsNat DEF Announce, Signals
    <2>2. \A d \in Engines, id \in Signals :
              UnderWay(h, d, id)' => UnderWay(h, d, id) \/ id = nextSignal
        BY <2>1, <1>a DEF UnderWay, InCycle
    <2>3. Untouched(nextSignal)
        BY <2>1, <1>a DEF OnceInv
    <2>4. \A d \in Engines, id \in Signals : UnderWay(h, d, id)' => Untouched(id)
        BY <2>2, <2>3 DEF OnceInv
    <2>5. nextSignal' >= nextSignal
        BY <2>1, <1>a
    <2> QED
        BY <1>a, <2>1, <2>4, <2>5, NothingDone
<1>5. ASSUME NEW e \in Engines, Queue(e)
      PROVE  OnceInv(h)'
    <2> DEFINE id == cycle[e].id
    <2>1. /\ UNCHANGED <<rows, call, nextSignal, executions, ignored, unsaved>>
          /\ cycle[e].stage = "sent"
          /\ cycle' = [cycle EXCEPT ![e].stage = "queued"]
          /\ memory' = [memory EXCEPT ![e][id] = "pending"]
        BY <1>5 DEF Queue
    <2>2. id \in Signals /\ InCycle(e, id)
        BY <2>1 DEF InCycle, QueueInv, ShapeInv, NamesSignals
    <2>3. \A d \in Engines, i \in Signals : UnderWay(h, d, i)' => UnderWay(h, d, i)
        BY <2>1, <1>a DEF UnderWay, InCycle, Cycle
    <2>4. \A d \in Engines, i \in Signals : UnderWay(h, d, i)' => Untouched(i)
        BY <2>3 DEF OnceInv
    <2>5. ~Done(h, id)
        BY <2>1, <2>2, <1>a DEF Done, OnceInv, UnderWay, QueueInv, FreshInv, InCall
    <2>6. \A i \in Signals : memory[o][i] # "pending" /\ i # id => memory'[o][i] # "pending"
        BY <2>1, <2>2, <1>a
    <2> QED
        BY <1>a, <2>1, <2>4, <2>5, <2>6, NothingDone
<1>6. ASSUME NEW e \in Engines, SaveSignal(e)
      PROVE  OnceInv(h)'
    <2> DEFINE id == cycle[e].id
    <2>1. /\ UNCHANGED <<memory, call, nextSignal, executions, ignored>>
          /\ unsaved \subseteq unsaved'
          /\ cycle[e].stage = "queued"
          /\ cycle' = [cycle EXCEPT ![e] = [stage |-> "scan", id |-> 0]]
          /\ rows' = rows \/ rows' = [rows EXCEPT ![id] = memory[e][id]]
        BY <1>6 DEF SaveSignal, Write
    <2>2. id \in Signals /\ InCycle(e, id)
        BY <2>1 DEF InCycle, QueueInv, ShapeInv, NamesSignals
    <2>3. \A d \in Engines, i \in Signals : UnderWay(h, d, i)' => UnderWay(h, d, i)
        BY <2>1, <1>a DEF UnderWay, InCycle
    <2>4. \A d \in Engines, i \in Signals : UnderWay(h, d, i)' => Untouched(i)
        BY <2>3 DEF OnceInv
    <2>5. e # o => ~Done(h, id)
        BY <2>1, <2>2, <1>a DEF Done, OnceInv, UnderWay, QueueInv, FreshInv, InCall
    <2>6. \A i \in Signals : i # id => rows'[i] = rows[i]
        BY <2>1, <1>a
    <2>7. rows'[id] = rows[id] \/ rows'[id] = memory[e][id]
        BY <2>1, <2>2, <1>a
    <2>8. \A i \in Signals :
              Done(h, i) /\ memory[o][i] # "pending" /\ rows[i] # "pending" =>
                  rows'[i] # "pending"
        BY <2>5, <2>6, <2>7
    <2> QED
        BY <1>a, <2>1, <2>4, <2>8, NothingDone
<1>7. ASSUME NEW e \in Engines, EndCycle(e)
      PROVE  OnceInv(h)'
    <2>1. \A d \in Engines, id \in Signals : UnderWay(h, d, id)' => UnderWay(h, d, id)
        BY <1>7, <1>a DEF EndCycle, UnderWay, InCycle, NoCycle
    <2>2. \A d \in Engines, id \in Signals : UnderWay(h, d, id)' => Untouched(id)
        BY <2>1 DEF OnceInv
    <2>3. UNCHANGED <<memory, rows, call, executions, ignored, unsaved, nextSignal>>
        BY <1>7 DEF EndCycle
    <2> QED
        BY <1>a, <2>2, <2>3, NothingDone
<1>8. ASSUME NEW i \in Announced, NEW a \in Actions, Press(h, i, a)
      PROVE  OnceInv(h)'
    <2>1. /\ UNCHANGED <<cycle, nextSignal, executions, ignored>>
          /\ call[h].stage = "idle"
          /\ unsaved \subseteq unsaved'
        BY <1>8 DEF Press, Write
    <2>2. \A d \in Engines, id \in Signals : UnderWay(h, d, id)' => Untouched(id)
        BY <2>1 DEF OnceInv, UnderWay, InCycle
    <2>3. i \in Signals
        BY <1>a, BoundsNat DEF Announced, Signals
    <2>4. CASE UNCHANGED <<memory, rows, call>>
        BY <1>a, <2>1, <2>2, <2>4, NothingDone
    <2>5. CASE /\ memory' = [memory EXCEPT ![o][i] = "expired"]
               /\ Write(i, WithStatus(i, "expired"))
               /\ UNCHANGED call
        <3>1. \A id \in Signals : memory[o][id] # "pending" => memory'[o][id] # "pending"
            BY <2>5, <1>a
        <3>2. \A id \in Signals : rows[id] # "pending" => rows'[id] # "pending"
            BY <2>5, <1>a DEF Write, WithStatus
        <3> QED
            BY <1>a, <2>1, <2>2, <2>5, <3>1, <3>2, NothingDone
    <2>6. CASE /\ memory[o][i] = "pending"
               /\ call' = [call EXCEPT ![h] = [stage |-> "checked", id |-> i, action |-> a]]
               /\ UNCHANGED <<memory, rows, unsaved>>
        <3>1. call'[h].stage = "checked" /\ call'[h].id = i
            BY <2>6, <1>a
        <3>2. i \notin unsaved => Untouched(i)
            BY <2>3, <2>6 DEF OnceInv, Done
        <3>3. /\ \A id \in Signals : Untouched(id)' <=> Untouched(id)
              /\ \A id \in Signals : Done(h, id)' => Done(h, id)
              /\ \A id \in Signals : InCall(h, id)' => id = i
            BY <2>1, <3>1 DEF Untouched, Done, InCall
        <3> QED
            BY <2>1, <2>2, <2>6, <3>2, <3>3 DEF OnceInv
    <2> QED
        BY <1>8, <2>4, <2>5, <2>6 DEF Press
<1>9. ASSUME Decide(h)
      PROVE  OnceInv(h)'
    <2>1. /\ UNCHANGED <<rows, cycle, nextSignal, executions, ignored, unsaved>>
          /\ call[h].stage = "checked"
          /\ memory' = [memory EXCEPT ![o][call[h].id] = Outcome(call[h].action)]
        BY <1>9 DEF Decide
    <2>2. \A d \in Engines, id \in Signals : UnderWay(h, d, id)' => Untouched(id)
        BY <2>1 DEF OnceInv, UnderWay, InCycle
    <2>3. call'[h].stage = "decided" /\ call'[h].id = call[h].id
        BY <1>9, <1>a DEF Decide, Call
    <2>4. Outcome(call[h].action) # "pending"
        BY DEF Outcome
    <2>5. \A id \in Signals : memory[o][id] # "pending" => memory'[o][id] # "pending"
        BY <2>1, <2>4, <1>a
    <2> QED
        BY <1>a, <2>1, <2>2, <2>3, <2>5, NothingDone
<1>10. ASSUME SaveDecision(h)
       PROVE  OnceInv(h)'
    <2> DEFINE i == call[h].id
    <2>1. /\ UNCHANGED <<memory, cycle, nextSignal, executions>>
          /\ call[h].stage = "decided"
          /\ Write(i, AfterSave(h))
          /\ unsaved \subseteq unsaved'
          /\ ignored' = ignored \/ (ignored' = ignored \cup {i} /\ call'[h] = NoCall)
        BY <1>10, <1>a DEF SaveDecision, Write
    <2>2. i \in Signals /\ memory[o][i] # "pending"
        BY <2>1, <1>a DEF QueueInv, ShapeInv, NamesSignals, DecidedInv
    <2>3. Outcome(call[h].action) # "pending"
        BY DEF Outcome
    <2>4. \A id \in Signals \ unsaved' : rows[id] # "pending" \/ id = i => rows'[id] # "pending"
        BY <2>1, <2>2, <2>3, <1>a DEF Write, AfterSave, WithStatus
    <2>5. call'[h].stage = "idle" \/ (call'[h].stage = "execute" /\ call'[h].id = i)
        BY <1>10, <1>a DEF SaveDecision, NoCall, Call
    <2>6. \A id \in Signals : Done(h, id)' => Done(h, id) \/ id = i
        BY <2>1, <2>5 DEF Done, Untouched
    <2>7. \A id \in Signals : Untouched(id) /\ id # i => Untouched(id)'
        BY <2>1 DEF Untouched
    <2>8. \A d \in Engines : ~UnderWay(h, d, i)
        BY <2>1, <2>2, <1>a DEF UnderWay, InCall, QueueInv, FreshInv
    <2>9. i < nextSignal
        BY <2>1, <1>a DEF QueueInv, ShapeInv, NamesSignals
    <2>10. \A id \in Signals \ unsaved' :
               Done(h, id)' => memory'[o][id] # "pending" /\ rows'[id] # "pending"
        BY <2>1, <2>2, <2>4, <2>6 DEF OnceInv
    <2>11. \A id \in Signals \ unsaved' : InCall(h, id)' => Untouched(id)'
        BY <2>1, <2>5 DEF OnceInv, InCall, Untouched, NoCall
    <2>12. \A d \in Engines, id \in Signals : UnderWay(h, d, id)' => Untouched(id)'
        BY <2>1, <2>7, <2>8 DEF OnceInv, UnderWay, InCycle
    <2>13. \A id \in Signals : id >= nextSignal' => Untouched(id)'
        BY <2>1, <2>7, <2>9, <1>a, BoundsNat DEF OnceInv, Signals
    <2>14. \A id \in Signals \ unsaved' : executions'[id] <= 1
        BY <2>1 DEF OnceInv
    <2> QED
        BY <2>10, <2>11, <2>12, <2>13, <2>14 DEF OnceInv
<1>11. ASSUME Execute(h)
       PROVE  OnceInv(h)'
    <2> DEFINE i == call[h].id
    <2>1. /\ UNCHANGED <<memory, rows, cycle, nextSignal, ignored, unsaved>>
          /\ call[h].stage = "execute"
          /\ executions' = [executions EXCEPT ![i] = @ + 1] \/ executions' = executions
          /\ call'[h].stage = "idle"
        BY <1>11, <1>a DEF Execute, NoCall
    <2>2. i \in Signals /\ i < nextSignal /\ Done(h, i) /\ InCall(h, i)
        BY <2>1, <1>a DEF QueueInv, ShapeInv, NamesSignals, Done, InCall
    <2>3. \A id \in Signals : id # i => executions'[id] = executions[id]
        BY <2>1, <1>a
    <2>4. executions'[i] = executions[i] \/ executions'[i] = executions[i] + 1
        BY <2>1, <2>2, <1>a
    <2>5. \A id \in Signals : Done(h, id)' => Done(h, id)
        BY <2>1, <2>2, <2>3 DEF Done, Untouched
    <2>6. \A id \in Signals : Untouched(id) /\ id # i => Untouched(id)'
        BY <2>1, <2>3 DEF Untouched
    <2>7. \A d \in Engines : ~UnderWay(h, d, i)
        BY <2>2, <1>a DEF UnderWay, QueueInv, FreshInv
    <2>8. i \notin unsaved => executions[i] = 0
        BY <2>2 DEF OnceInv, Untouched
    <2>9. \A id \in Signals \ unsaved' :
              Done(h, id)' => memory'[o][id] # "pending" /\ rows'[id] # "pending"
        BY <2>1, <2>5 DEF OnceInv
    <2>10. \A id \in Signals : ~InCall(h, id)'
        BY <2>1 DEF InCall
    <2>11. \A d \in Engines, id \in Signals : UnderWay(h, d, id)' => Untouched(id)'
        BY <2>1, <2>6, <2>7 DEF OnceInv, UnderWay, InCycle
    <2>12. \A id \in Signals : id >= nextSignal' => Untouched(id)'
        BY <2>1, <2>2, <2>6, <1>a, BoundsNat DEF OnceInv, Signals
    <2>13. \A id \in Signals \ unsaved' : executions'[id] <= 1
        BY <2>1, <2>3, <2>4, <2>8 DEF OnceInv
    <2> QED
        BY <2>9, <2>10, <2>11, <2>12, <2>13 DEF OnceInv
<1>12. ASSUME NEW e \in Engines, Build(e)
       PROVE  OnceInv(h)'
    <2>1. UNCHANGED <<cycle, call, nextSignal, executions, ignored>> /\ unsaved \subseteq unsaved'
        BY <1>12 DEF Build
    <2>2. \A d \in Engines, id \in Signals : UnderWay(h, d, id)' => Untouched(id)
        BY <2>1 DEF OnceInv, UnderWay, InCycle
    <2>3. \A id \in Signals :
              memory[o][id] # "pending" /\ rows[id] # "pending" => memory'[o][id] # "pending"
        BY <1>12, <1>a DEF Build, Restored, PendingRows
    <2>4. \A id \in Signals : rows[id] # "pending" => rows'[id] # "pending"
        BY <1>12 DEF Build
    <2> QED
        BY <1>a, <2>1, <2>2, <2>3, <2>4, NothingDone
<1>13. ASSUME NEW e \in Engines, Stop(e)
       PROVE  OnceInv(h)'
    <2>1. UNCHANGED <<rows, nextSignal, executions, ignored, unsaved>>
        BY <1>13 DEF Stop
    <2>2. \A d \in Engines, id \in Signals : UnderWay(h, d, id)' => UnderWay(h, d, id)
        BY <1>13, <1>a DEF Stop, UnderWay, InCycle, NoCycle
    <2>3. \A d \in Engines, id \in Signals : UnderWay(h, d, id)' => Untouched(id)
        BY <2>2 DEF OnceInv
    <2>4. \A id \in Signals : memory[o][id] # "pending" => memory'[o][id] # "pending"
        BY <1>13, <1>a DEF Stop
    <2>5. call'[h] = call[h] \/ call'[h].stage = "idle"
        BY <1>13, <1>a DEF Stop, NoCall
    <2> QED
        BY <1>a, <2>1, <2>3, <2>4, <2>5, NothingDone
<1>14. ASSUME NEW i \in Signals, TimePasses(i)
       PROVE  OnceInv(h)'
    <2>1. UNCHANGED <<memory, rows, cycle, call, nextSignal, executions, ignored, unsaved>>
        BY <1>14 DEF TimePasses
    <2>2. \A d \in Engines, id \in Signals : UnderWay(h, d, id)' => Untouched(id)
        BY <2>1 DEF OnceInv, UnderWay, InCycle
    <2> QED
        BY <1>a, <2>1, <2>2, NothingDone
<1>15. ASSUME UNCHANGED vars
       PROVE  OnceInv(h)'
    <2>1. UNCHANGED <<memory, rows, cycle, call, nextSignal, executions, ignored, unsaved>>
        BY <1>15 DEF vars
    <2>2. \A d \in Engines, id \in Signals : UnderWay(h, d, id)' => Untouched(id)
        BY <2>1 DEF OnceInv, UnderWay, InCycle
    <2> QED
        BY <1>a, <2>1, <2>2, NothingDone
<1> QED
    BY <1>1, <1>2, <1>3, <1>4, <1>5, <1>6, <1>7, <1>8, <1>9, <1>10, <1>11, <1>12, <1>13,
        <1>14, <1>15 DEF Next, CycleStep, HandlerStep

\* One signal, one order: with one thread that handles presses, and any number of
\* engines, presses, crashes and restarts, no signal whose rows were read and
\* written is executed twice (handle_signal_action, _load_pending_signals).
THEOREM AtMostOnce ==
    ASSUME NEW h, Handlers = {h}
    PROVE  Spec => []ExecutedOnce
<1>1. Init => QueueInv /\ OnceInv(h)
    BY QueueInit, OnceInit
<1>2. QueueInv /\ OnceInv(h) /\ [Next]_vars => (QueueInv /\ OnceInv(h))'
    BY QueueStep, OnceStep
<1>3. OnceInv(h) => ExecutedOnce
    BY DEF OnceInv, ExecutedOnce
<1> QED
    BY <1>1, <1>2, <1>3, PTL DEF Spec

\* A rejection is final: no step of one thread of presses sends an order for a
\* signal whose rejection was recorded.
THEOREM RejectionIsFinal ==
    ASSUME NEW h, Handlers = {h}
    PROVE  Spec => IgnoredIsFinal
<1>1. Init => QueueInv /\ OnceInv(h)
    BY QueueInit, OnceInit
<1>2. QueueInv /\ OnceInv(h) /\ [Next]_vars => (QueueInv /\ OnceInv(h))'
    BY QueueStep, OnceStep
<1>3. ASSUME QueueInv, OnceInv(h), [Next]_vars,
             NEW id \in ignored \ unsaved
      PROVE  executions'[id] = executions[id]
    <2> USE DEF envVars, boundVars, histVars
    <2>1. id \in Signals /\ executions \in [Signals -> Nat]
        BY <1>3 DEF QueueInv, ShapeInv, TypeOK
    <2>2. CASE Execute(h)
        <3>1. call[h].id # id
            BY <1>3, <2>1, <2>2 DEF OnceInv, InCall, Untouched, Execute
        <3> QED
            BY <2>1, <2>2, <3>1 DEF Execute
    <2>3. CASE UNCHANGED executions
        BY <2>3
    <2>4. \/ \E g \in Handlers : Execute(g)
          \/ UNCHANGED executions
        <3>1. ASSUME NEW e \in Engines, CycleStep(e) \/ Build(e) \/ Stop(e)
              PROVE  UNCHANGED executions
            BY <3>1 DEF CycleStep, BeginCycle, Expire, CleanUp, Announce, Queue, SaveSignal,
                EndCycle, Build, Stop
        <3>2. ASSUME NEW g \in Handlers, NEW i \in Announced, NEW a \in Actions, Press(g, i, a)
              PROVE  UNCHANGED executions
            BY <3>2 DEF Press
        <3>3. ASSUME NEW g \in Handlers, Decide(g) \/ SaveDecision(g)
              PROVE  UNCHANGED executions
            BY <3>3 DEF Decide, SaveDecision
        <3>4. ASSUME NEW i \in Signals, TimePasses(i)
              PROVE  UNCHANGED executions
            BY <3>4 DEF TimePasses
        <3> QED
            BY <1>3, <3>1, <3>2, <3>3, <3>4 DEF Next, HandlerStep, vars
    <2> QED
        BY <2>2, <2>3, <2>4
<1>4. QueueInv /\ OnceInv(h) /\ [Next]_vars =>
          [\A id \in ignored \ unsaved : executions'[id] = executions[id]]_vars
    BY <1>3
<1> QED
    BY <1>1, <1>2, <1>4, PTL DEF Spec, IgnoredIsFinal

---------------------------------------------------------------------------
(* The queue and its rows *)

\* Queue and rows agree initially, there being no engine.
LEMMA MatchInit == Init => QueueMatchesRows
BY DEF Init, QueueMatchesRows

\* Where queue and row of a signal are both left alone, nothing is lost.
LEMMA MatchStep ==
    ASSUME NEW o, Engines = {o}, QueueInv, QueueInv', QueueMatchesRows, [Next]_vars
    PROVE  QueueMatchesRows'
<1> DEFINE Excused(id) ==
               \/ cycle[o].stage = "queued" /\ cycle[o].id = id
               \/ \E h \in Handlers : call[h].stage = "decided" /\ call[h].id = id
           Agree(id) == (memory[o][id] = "pending") <=> (rows[id] = "pending")
<1>a. /\ o \in Engines /\ \A h \in Handlers : EngineOf[h] = o
      /\ memory \in [Engines -> [Signals -> SignalStatus \cup {"none"}]]
      /\ call \in [Handlers -> Call]
      /\ rows \in [Signals -> SignalStatus \cup {"none"}]
      /\ cycle \in [Engines -> Cycle]
      /\ up \subseteq Engines /\ up' \subseteq Engines
    BY ApprovalAssumption DEF QueueInv, ShapeInv, TypeOK
<1> SUFFICES ASSUME o \in up', NEW id \in Signals \ unsaved'
             PROVE  Agree(id)' \/ Excused(id)'
    BY <1>a DEF QueueMatchesRows
<1>b. o \in up /\ id \notin unsaved => Agree(id) \/ Excused(id)
    BY <1>a DEF QueueMatchesRows
<1> USE DEF envVars, boundVars, histVars
<1>1. ASSUME NEW e \in Engines, BeginCycle(e) \/ EndCycle(e)
      PROVE  Agree(id)' \/ Excused(id)'
    <2>1. /\ UNCHANGED <<up, memory, rows, call, unsaved>>
          /\ cycle[o].stage # "queued"
          /\ e = o
        BY <1>1, <1>a DEF BeginCycle, EndCycle
    <2> QED
        BY <2>1, <1>b
<1>2. ASSUME NEW e \in Engines, NEW i \in Signals, Expire(e, i)
      PROVE  Agree(id)' \/ Excused(id)'
    <2>1. /\ UNCHANGED <<up, cycle, call>> /\ unsaved \subseteq unsaved' /\ e = o
          /\ memory' = [memory EXCEPT ![o][i] = "expired"]
          /\ Write(i, WithStatus(i, "expired"))
        BY <1>2, <1>a DEF Expire, Write
    <2>2. CASE id = i
        <3>1. memory'[o][id] # "pending" /\ rows'[id] # "pending"
            BY <2>1, <2>2, <1>a DEF Write, WithStatus
        <3> QED
            BY <3>1
    <2>3. CASE id # i
        <3>1. memory'[o][id] = memory[o][id] /\ rows'[id] = rows[id]
            BY <2>1, <2>3, <1>a DEF Write, WithStatus
        <3> QED
            BY <3>1, <2>1, <1>b
    <2> QED
        BY <2>2, <2>3
<1>3. ASSUME NEW e \in Engines, CleanUp(e)
      PROVE  Agree(id)' \/ Excused(id)'
    <2>1. /\ UNCHANGED <<up, memory, call, unsaved>>
          /\ cycle[o].stage # "queued"
          /\ e = o
        BY <1>3, <1>a DEF CleanUp
    <2>2. (rows'[id] = "pending") = (rows[id] = "pending")
        BY <1>3, <1>a DEF CleanUp, Decided
    <2> QED
        BY <2>1, <2>2, <1>b
<1>4. ASSUME NEW e \in Engines, Announce(e)
      PROVE  Agree(id)' \/ Excused(id)'
    <2>1. /\ UNCHANGED <<up, memory, rows, call, unsaved>>
          /\ cycle[o].stage # "queued"
          /\ e = o
        BY <1>4, <1>a DEF Announce
    <2> QED
        BY <2>1, <1>b
<1>5. ASSUME NEW e \in Engines, Queue(e)
      PROVE  Agree(id)' \/ Excused(id)'
    <2>1. /\ UNCHANGED <<up, rows, call, unsaved>> /\ e = o
          /\ memory' = [memory EXCEPT ![o][cycle[o].id] = "pending"]
          /\ cycle[o].stage = "sent"
          /\ cycle'[o].stage = "queued" /\ cycle'[o].id = cycle[o].id
        BY <1>5, <1>a DEF Queue, Cycle
    <2>2. id # cycle[o].id => memory'[o][id] = memory[o][id]
        BY <2>1, <1>a
    <2> QED
        BY <2>1, <2>2, <1>b
<1>6. ASSUME NEW e \in Engines, SaveSignal(e)
      PROVE  Agree(id)' \/ Excused(id)'
    <2>1. /\ UNCHANGED <<up, memory, call>> /\ unsaved \subseteq unsaved' /\ e = o
          /\ Write(cycle[o].id, [rows EXCEPT ![cycle[o].id] = memory[o][cycle[o].id]])
        BY <1>6, <1>a DEF SaveSignal, Write
    <2>2. CASE id = cycle[o].id
        BY <2>1, <2>2, <1>a DEF Write
    <2>3. CASE id # cycle[o].id
        <3>1. rows'[id] = rows[id]
            BY <2>1, <2>3, <1>a DEF Write
        <3> QED
            BY <2>1, <2>3, <3>1, <1>b
    <2> QED
        BY <2>2, <2>3
<1>8. ASSUME NEW h \in Handlers, NEW i \in Announced, NEW a \in Actions, Press(h, i, a)
      PROVE  Agree(id)' \/ Excused(id)'
    <2>1. UNCHANGED <<up, cycle>> /\ call[h].stage = "idle" /\ unsaved \subseteq unsaved'
        BY <1>8 DEF Press, Write
    <2>2. \A g \in Handlers : call[g].stage = "decided" => call'[g] = call[g]
        BY <1>8, <2>1, <1>a DEF Press
    <2>3. CASE UNCHANGED <<memory, rows>>
        BY <2>1, <2>2, <2>3, <1>b
    <2>4. CASE /\ memory' = [memory EXCEPT ![o][i] = "expired"]
               /\ Write(i, WithStatus(i, "expired"))
        <3>1. i \in Signals
            BY <1>8, BoundsNat DEF Announced, Signals, QueueInv, ShapeInv, TypeOK
        <3>2. CASE id = i
            <4>1. memory'[o][id] # "pending" /\ rows'[id] # "pending"
                BY <2>4, <3>2, <1>a DEF Write, WithStatus
            <4> QED
                BY <4>1
        <3>3. CASE id # i
            <4>1. memory'[o][id] = memory[o][id] /\ rows'[id] = rows[id]
                BY <2>4, <3>3, <1>a DEF Write, WithStatus
            <4> QED
                BY <4>1, <2>1, <2>2, <1>b
        <3> QED
            BY <3>2, <3>3
    <2> QED
        BY <1>8, <2>3, <2>4, <1>a DEF Press
<1>9. ASSUME NEW h \in Handlers, Decide(h)
      PROVE  Agree(id)' \/ Excused(id)'
    <2>1. /\ UNCHANGED <<up, cycle, rows, unsaved>>
          /\ call[h].stage = "checked"
          /\ call'[h].stage = "decided" /\ call'[h].id = call[h].id
          /\ \A g \in Handlers \ {h} : call'[g] = call[g]
        BY <1>9, <1>a DEF Decide, Call
    <2>2. id # call[h].id => memory'[o][id] = memory[o][id]
        BY <1>9, <1>a DEF Decide
    <2> QED
        BY <2>1, <2>2, <1>b
<1>10. ASSUME NEW h \in Handlers, SaveDecision(h)
       PROVE  Agree(id)' \/ Excused(id)'
    <2>1. /\ UNCHANGED <<up, memory, cycle>> /\ unsaved \subseteq unsaved'
          /\ call[h].stage = "decided"
          /\ Write(call[h].id, AfterSave(h))
        BY <1>10 DEF SaveDecision, Write
    <2>2. \A g \in Handlers \ {h} : call'[g] = call[g]
        BY <1>10, <1>a DEF SaveDecision
    <2>3. CASE id = call[h].id
        <3>1. memory'[o][id] # "pending"
            BY <2>1, <2>3, <1>a DEF QueueInv, DecidedInv
        <3>2. Outcome(call[h].action) # "pending"
            BY DEF Outcome
        <3>3. rows'[id] # "pending"
            BY <2>1, <2>3, <3>2, <1>a DEF Write, AfterSave, WithStatus
        <3> QED
            BY <3>1, <3>3
    <2>4. CASE id # call[h].id
        <3>1. rows'[id] = rows[id]
            BY <2>1, <2>4, <1>a DEF Write, AfterSave, WithStatus
        <3> QED
            BY <2>1, <2>2, <2>4, <3>1, <1>b
    <2> QED
        BY <2>3, <2>4
<1>11. ASSUME NEW h \in Handlers, Execute(h)
       PROVE  Agree(id)' \/ Excused(id)'
    <2>1. /\ UNCHANGED <<up, memory, rows, cycle, unsaved>>
          /\ call[h].stage = "execute"
          /\ \A g \in Handlers \ {h} : call'[g] = call[g]
        BY <1>11, <1>a DEF Execute
    <2> QED
        BY <2>1, <1>b
<1>12. ASSUME NEW e \in Engines, Build(e)
       PROVE  Agree(id)' \/ Excused(id)'
    <2>1. e = o /\ o \notin up
        BY <1>12, <1>a DEF Build
    <2>2. memory[o][id] = "none"
        BY <2>1 DEF QueueInv, UpInv
    <2>3. (memory'[o][id] = "pending") = (rows'[id] = "pending")
        BY <1>12, <2>1, <2>2, <1>a DEF Build, Restored, PendingRows
    <2> QED
        BY <2>3
<1>13. ASSUME NEW e \in Engines, Stop(e)
       PROVE  FALSE
    BY <1>13, <1>a DEF Stop
<1>14. ASSUME NEW i \in Signals, TimePasses(i)
       PROVE  Agree(id)' \/ Excused(id)'
    BY <1>14, <1>b DEF TimePasses
<1>15. ASSUME UNCHANGED vars
       PROVE  Agree(id)' \/ Excused(id)'
    BY <1>15, <1>b DEF vars
<1> QED
    BY <1>1, <1>2, <1>3, <1>4, <1>5, <1>6, <1>8, <1>9, <1>10, <1>11, <1>12, <1>13,
        <1>14, <1>15 DEF Next, CycleStep, HandlerStep

\* Between a row that says pending and the engine's queue there is always a step
\* under way: with one engine and any number of threads that handle presses, an
\* undecided signal survives every restart and a decided one does not come back
\* (_queue_signal_for_approval, _load_pending_signals).
THEOREM QueueAgrees ==
    ASSUME NEW o, Engines = {o}
    PROVE  Spec => []QueueMatchesRows
<1>1. Init => QueueInv /\ QueueMatchesRows
    BY QueueInit, MatchInit
<1>2. QueueInv /\ QueueMatchesRows /\ [Next]_vars => (QueueInv /\ QueueMatchesRows)'
    BY QueueStep, MatchStep
<1> QED
    BY <1>1, <1>2, PTL DEF Spec

=============================================================================
