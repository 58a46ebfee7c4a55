--------------------------- MODULE AutoSellProofs ---------------------------
(***************************************************************************)
(* Proofs about AutoSell, for any symbols, signals, prices, failures and   *)
(* crashes.  Types hold in every process.  The rest holds in a process that *)
(* keeps its triggers in memory (ReloadsTriggers = FALSE) and in which     *)
(* neither strategies nor overlapping approvals interfere.                 *)
(*                                                                         *)
(* The invariant is one of each symbol.  A live order is one that can still *)
(* fire and that nothing has cut loose; LiveInv says who answers for it: the *)
(* position in the book, the trigger at work and the active row.  BuyInv is *)
(* about what an approval has in hand, WatchInv about a trigger and its row, *)
(* GuardInv about a position.  AskedInv is about the orders a cycle has    *)
(* asked for, StrayInv about the orders that are cut loose, StopInv about  *)
(* the stops on the exchange.                                              *)
(***************************************************************************)
EXTENDS AutoSellProps, FiniteSetTheorems, TLAPS

---------------------------------------------------------------------------
(* Types, in any process *)

\* The constants the types depend on.
LEMMA ConstantTypes ==
    /\ MaxFailures \in Nat /\ MaxEntries \in Nat /\ MaxGtts \in Nat /\ MaxCrashes \in Nat
    /\ Prices \subseteq Nat /\ TrailingPct \in 0..99
    /\ Signals \subseteq [dir: {Buy, Sell}, entry: Nat, stop: Nat, target: Nat]
    /\ "none" \notin Symbols
BY AutoSellAssumption

\* The fields of a signal.
LEMMA SignalTypes ==
    \A sig \in Signals \cup {NoSignal} :
        sig.dir \in {Buy, Sell} /\ sig.entry \in Nat /\ sig.stop \in Nat /\ sig.target \in Nat
BY ConstantTypes DEF NoSignal

\* The symbol in the monitor's hand, and the position it is selling.
HandInv ==
    /\ mon.sym = "none" <=> mon.pc \notin {"sell", "sold", "cancel", "modified"}
    /\ mon.pc \in {"sell", "sold"} => position[mon.sym] # 0

ShapeInv == TypeOK /\ HandInv

\* The fields of a trigger can be set one by one.
LEMMA TriggerTypes ==
    /\ NoTrigger \in Trigger
    /\ \A t \in Trigger :
           /\ \A b \in BOOLEAN : [t EXCEPT !.active = b] \in Trigger
           /\ \A n \in Nat : /\ [t EXCEPT !.best = n] \in Trigger
                             /\ [t EXCEPT !.gstop = n] \in Trigger
           /\ \A x \in GttStatus : [t EXCEPT !.gst = x] \in Trigger
           /\ \A g \in GttIds \cup {0} : [t EXCEPT !.gid = g] \in Trigger
BY DEF NoTrigger, Trigger, GttStatus, GttGone

\* The same for the monitor's state.
LEMMA MonitorTypes ==
    /\ Resting \in Monitor
    /\ \A m \in Monitor :
           /\ \A x \in MonitorStages : [m EXCEPT !.pc = x] \in Monitor
           /\ \A S \in SUBSET Symbols : /\ [m EXCEPT !.todo = S] \in Monitor
                                        /\ [m EXCEPT !.exits = S] \in Monitor
                                        /\ [m EXCEPT !.quoted = S] \in Monitor
           /\ \A s \in Symbols \cup {"none"} : [m EXCEPT !.sym = s] \in Monitor
BY DEF Resting, Monitor, MonitorStages

\* For the approval,
LEMMA ApprovalTypes ==
    /\ NoApproval \in Approval
    /\ \A a \in Approval :
           /\ a.tries + 1 \in Nat
           /\ \A n \in Nat : [a EXCEPT !.tries = n] \in Approval
           /\ [a EXCEPT !.stage = "install"] \in Approval
           /\ \A g \in GttIds : [a EXCEPT !.gid = g] \in Approval
BY DEF NoApproval, Approval

\* and for an order on the exchange.
LEMMA GttTypes ==
    /\ NoGtt \in Gtt
    /\ \A o \in Gtt :
           /\ \A x \in GttGone \cup {"active", "triggered", "deleted"} :
                  [o EXCEPT !.st = x] \in Gtt
           /\ \A n \in Nat : [o EXCEPT !.stop = n] \in Gtt
BY DEF NoGtt, Gtt, GttGone

\* A trailing stop is a price.
LEMMA TrailingStopType ==
    ASSUME NEW t \in Trigger
    PROVE  TrailingStop(t) \in Nat
<1>1. t.best \in Nat /\ t.sig.dir \in {1, -1}
    BY ConstantTypes DEF Trigger, NoSignal, Buy, Sell
<1>2. 100 - t.sig.dir * TrailingPct \in Nat
    <2>1. CASE t.sig.dir = 1
        BY <2>1, ConstantTypes
    <2>2. CASE t.sig.dir = -1
        BY <2>2, ConstantTypes
    <2> QED
        BY <1>1, <2>1, <2>2
<1>3. \A a, b \in Nat : (a * b) \div 100 \in Nat
    <2> TAKE a, b \in Nat
    <2>1. a * b \in Nat
        OBVIOUS
    <2>2. \A c \in Nat : c \div 100 \in Nat
        OBVIOUS
    <2> QED
        BY <2>1, <2>2
<1> QED
    BY <1>1, <1>2, <1>3 DEF TrailingStop

\* The history of polled orders names orders.
LEMMA TrackType ==
    ASSUME TypeOK, Track
    PROVE  unpolled' \subseteq GttIds
<1>1. /\ mon.todo \subseteq Symbols /\ approval.gid \in GttIds \cup {0}
      /\ \A s \in Symbols : triggers[s].gid \in GttIds \cup {0}
    BY DEF TypeOK, Monitor, Trigger, Approval
<1> QED
    BY <1>1 DEF TypeOK, Track

\* The variables start with their types.
LEMMA ShapeInit == Init => ShapeInv
<1> SUFFICES ASSUME Init PROVE ShapeInv
    OBVIOUS
<1>1. /\ triggers \in [Symbols -> Trigger]
      /\ dbTriggers \in [Symbols -> Trigger]
      /\ gtts \in [GttIds -> Gtt]
      /\ mon \in Monitor
    BY TriggerTypes, MonitorTypes, GttTypes DEF Init
<1>2. approval \in Approval
    BY DEF Init, NoApproval, Approval
<1>3. /\ nextEntry \in 1..(MaxEntries + 1)
      /\ nextGtt \in 1..(MaxGtts + 1)
      /\ crashes \in 0..MaxCrashes
      /\ failures \in 0..MaxFailures
    BY ConstantTypes DEF Init
<1>4. HandInv
    BY DEF Init, HandInv, Resting
<1> QED
    BY <1>1, <1>2, <1>3, <1>4 DEF Init, ShapeInv, TypeOK, Buy, Sell

\* Something going wrong is counted within its bound.
LEMMA FailsType ==
    ASSUME TypeOK, (\E kind \in FailureKinds : Fails(kind)) \/ NoFailure
    PROVE  failures' \in 0..MaxFailures
BY ConstantTypes DEF TypeOK, Fails, NoFailure

\* A new GTT is an order of the exchange.
LEMMA NewGttType ==
    ASSUME TypeOK, NEW s \in Symbols \cup {"none"}, NEW e \in Entries \cup {0},
           NEW sig \in Signals \cup {NoSignal}, NewGtt(s, e, sig)
    PROVE  /\ nextGtt \in GttIds
           /\ gtts' \in [GttIds -> Gtt]
           /\ nextGtt' \in 1..(MaxGtts + 1)
<1>1. nextGtt \in GttIds /\ nextGtt' \in 1..(MaxGtts + 1)
    BY ConstantTypes DEF TypeOK, NewGtt, GttIds
<1>2. [st |-> "active", sym |-> s, entry |-> e, dir |-> sig.dir,
       stop |-> sig.stop, target |-> sig.target] \in Gtt
    BY SignalTypes DEF Gtt
<1> QED
    BY <1>1, <1>2 DEF TypeOK, NewGtt

\* A deactivated trigger is a trigger; its order is cancelled or cut loose.
LEMMA DeactivateType ==
    ASSUME TypeOK, NEW s \in Symbols, Deactivate(s)
    PROVE  /\ triggers' \in [Symbols -> Trigger]
           /\ dbTriggers' \in [Symbols -> Trigger]
           /\ gtts' \in [GttIds -> Gtt]
           /\ stray' \subseteq GttIds
           /\ failures' \in 0..MaxFailures
<1> DEFINE t == triggers[s]
           cancels == t.gid # 0 /\ t.gst = "active"
<1>1. t \in Trigger /\ dbTriggers[s] \in Trigger /\ t.best \in Nat
    BY DEF TypeOK, Trigger
<1>2. triggers' \in [Symbols -> Trigger]
    <2>1. [[t EXCEPT !.active = FALSE] EXCEPT !.gst = "cancelled"] \in Trigger
        BY <1>1, TriggerTypes DEF GttStatus
    <2>2. [t EXCEPT !.active = FALSE] \in Trigger
        BY <1>1, TriggerTypes
    <2>3. [[t EXCEPT !.active = FALSE] EXCEPT !.gst = t.gst] \in Trigger
        BY <1>1, <2>2, TriggerTypes DEF Trigger
    <2> QED
        BY <2>1, <2>3 DEF TypeOK, Deactivate
<1>3. dbTriggers' \in [Symbols -> Trigger]
    <2>1. [[dbTriggers[s] EXCEPT !.active = FALSE] EXCEPT !.best = t.best] \in Trigger
        BY <1>1, TriggerTypes
    <2> QED
        BY <2>1 DEF TypeOK, Deactivate
<1>4. failures' \in 0..MaxFailures
    BY FailsType DEF Deactivate, DeleteGtt, Fails, NoFailure
<1>5. CASE cancels
    <2>1. t.gid \in GttIds /\ gtts[t.gid] \in Gtt
        BY <1>1, <1>5 DEF TypeOK, Trigger
    <2>2. [gtts[t.gid] EXCEPT !.st = "cancelled"] \in Gtt
        BY <2>1, GttTypes DEF GttGone
    <2>3. DeleteGtt(t.gid)
        BY <1>5 DEF Deactivate
    <2> QED
        BY <1>2, <1>3, <1>4, <2>1, <2>2, <2>3 DEF DeleteGtt, TypeOK
<1>6. CASE ~cancels
    BY <1>2, <1>3, <1>4, <1>6 DEF Deactivate, TypeOK
<1> QED
    BY <1>5, <1>6

\* An approval keeps the types.
LEMMA ShapeApproval ==
    ASSUME ShapeInv, Track,
           (\E s \in Symbols, sig \in Signals : Approve(s, sig)) \/ ApprovalStep
    PROVE  ShapeInv'
<1>0. TypeOK /\ HandInv /\ unpolled' \subseteq GttIds
    BY TrackType DEF ShapeInv
<1>1. ASSUME NEW s \in Symbols, NEW sig \in Signals, Approve(s, sig)
      PROVE  ShapeInv'
    <2>1. nextEntry \in Entries /\ nextEntry' \in 1..(MaxEntries + 1) /\ sig.dir \in {Buy, Sell}
        <3>1. nextEntry <= MaxEntries /\ nextEntry' = nextEntry + 1
            BY <1>1 DEF Approve
        <3> QED
            BY <1>0, <3>1, ConstantTypes, SignalTypes DEF TypeOK, Entries
    <2>2. approval' \in Approval
        BY <1>1, <2>1 DEF Approve, Approval, NoApproval
    <2>3. held' \in [Symbols -> Int]
        <3>1. \A x \in Int : x + sig.dir \in Int
            BY <2>1 DEF Buy, Sell
        <3> QED
            BY <1>0, <1>1, <3>1 DEF Approve, TypeOK
    <2>4. HandInv'
        BY <1>0, <1>1, <2>1, ConstantTypes DEF Approve, HandInv, TypeOK, Monitor, Entries
    <2>5. /\ position' \in [Symbols -> Entries \cup {0}]
          /\ side' \in [Entries -> {Buy, Sell}]
          /\ dbPosition' \in [Symbols -> Entries \cup {0}]
          /\ openTrades' \subseteq Entries
        BY <1>0, <1>1, <2>1 DEF Approve, TypeOK
    <2> QED
        BY <1>0, <1>1, <2>1, <2>2, <2>3, <2>4, <2>5
        DEF Approve, ShapeInv, TypeOK, worldVars, histVars
<1>2. ASSUME PlaceGtt
      PROVE  ShapeInv'
    <2> DEFINE a == approval
    <2>1. /\ a \in Approval
          /\ [a EXCEPT !.stage = "install"] \in Approval
          /\ [a EXCEPT !.tries = a.tries + 1] \in Approval
          /\ \A g \in GttIds : [a EXCEPT !.stage = "install", !.gid = g] \in Approval
        BY <1>0, ApprovalTypes DEF TypeOK
    <2>6. Retry \in Approval
        BY <2>1 DEF Retry
    <2>2. failures' \in 0..MaxFailures
        <3>1. CASE NoFailure
            BY <1>0, <3>1, FailsType
        <3>2. CASE Fails("placeFailed") \/ Fails("placeLost")
            BY <1>0, <3>2, ConstantTypes DEF Fails, TypeOK
        <3>3. NoFailure \/ Fails("placeFailed") \/ Fails("placeLost")
            BY <1>2, Zenon DEF PlaceGtt
        <3> QED
            BY <3>1, <3>2, <3>3
    <2>3. HandInv'
        BY <1>0, <1>2 DEF PlaceGtt, HandInv
    <2>4. ASSUME NewGtt(a.sym, a.entry, a.sig)
          PROVE  nextGtt \in GttIds /\ gtts' \in [GttIds -> Gtt] /\ nextGtt' \in 1..(MaxGtts + 1)
        BY <1>0, <2>1, <2>4, NewGttType DEF Approval
    <2>5. /\ approval' \in Approval
          /\ gtts' \in [GttIds -> Gtt]
          /\ nextGtt' \in 1..(MaxGtts + 1)
          /\ stray' \subseteq GttIds
        BY <1>0, <1>2, <2>1, <2>4, <2>6 DEF PlaceGtt, TypeOK
    <2> QED
        BY <1>0, <1>2, <2>2, <2>3, <2>5
        DEF PlaceGtt, ShapeInv, TypeOK, dbVars, worldVars, entryVars
<1>3. ASSUME InstallTrigger
      PROVE  ShapeInv'
    <2>1. NewTrigger(approval) \in Trigger
        BY <1>0, ConstantTypes
        DEF TypeOK, Approval, NewTrigger, TriggerOf, Trigger, GttStatus, NoSignal
    <2>2. /\ triggers' \in [Symbols -> Trigger]
          /\ dbTriggers' \in [Symbols -> Trigger]
          /\ approval' \in Approval
        BY <1>0, <1>3, <2>1 DEF InstallTrigger, TypeOK, NoApproval, Approval
    <2>3. HandInv'
        BY <1>0, <1>3 DEF InstallTrigger, HandInv
    <2> QED
        BY <1>0, <1>3, <2>2, <2>3
        DEF InstallTrigger, ShapeInv, TypeOK, exchangeVars, worldVars, entryVars, histVars
<1> QED
    BY <1>1, <1>2, <1>3 DEF ApprovalStep

\* The cycle up to the exits keeps the types.
LEMMA ShapeCycle ==
    ASSUME ShapeInv, Track,
           Tick \/ (\E s \in Symbols : PollGtt(s)) \/ CheckAll \/ BeginTrailing \/ EndCycle
             \/ EndReconcile \/ EndReplace
    PROVE  ShapeInv'
<1>0. TypeOK /\ HandInv /\ unpolled' \subseteq GttIds
    BY TrackType DEF ShapeInv
<1>1. CASE Tick
    <2>1. triggers' \in [Symbols -> Trigger]
        BY <1>0, <1>1, TriggerTypes DEF Tick, TypeOK, Loaded
    <2>2. mon' \in Monitor /\ HandInv'
        <3>1. \A S \in SUBSET Symbols : [mon EXCEPT !.pc = "poll", !.todo = S] \in Monitor
            BY <1>0 DEF TypeOK, Monitor, MonitorStages
        <3> QED
            BY <1>0, <1>1, <3>1 DEF Tick, TypeOK, Monitor, HandInv, ActiveTriggers
    <2> QED
        BY <1>0, <1>1, <2>1, <2>2
        DEF Tick, ShapeInv, TypeOK, dbVars, exchangeVars, worldVars, entryVars, histVars
<1>2. ASSUME NEW s \in Symbols, PollGtt(s)
      PROVE  ShapeInv'
    <2> DEFINE t == triggers[s]
    <2>1. failures' \in 0..MaxFailures
        <3>1. CASE NoFailure
            BY <1>0, <3>1, FailsType
        <3>2. CASE Fails("statusError")
            BY <1>0, <3>2, ConstantTypes DEF Fails, TypeOK
        <3>3. NoFailure \/ Fails("statusError")
            BY <1>2, Zenon DEF PollGtt
        <3> QED
            BY <3>1, <3>2, <3>3
    <2>2. /\ t \in Trigger /\ t.best \in Nat
          /\ [[t EXCEPT !.active = FALSE] EXCEPT !.gst = "triggered"] \in Trigger
          /\ \A x \in GttGone : [t EXCEPT !.gst = x] \in Trigger
          /\ [[dbTriggers[s] EXCEPT !.active = FALSE] EXCEPT !.best = t.best] \in Trigger
        <3>1. t \in Trigger /\ dbTriggers[s] \in Trigger /\ t.best \in Nat
            BY <1>0 DEF TypeOK, Trigger
        <3>2. \A x \in GttGone \cup {"triggered"} : x \in GttStatus
            BY DEF GttStatus, GttGone
        <3>3. [t EXCEPT !.active = FALSE] \in Trigger
            BY <3>1, TriggerTypes
        <3>4. [[t EXCEPT !.active = FALSE] EXCEPT !.gst = "triggered"] \in Trigger
            BY <3>2, <3>3, TriggerTypes
        <3>5. [dbTriggers[s] EXCEPT !.active = FALSE] \in Trigger
            BY <3>1, TriggerTypes
        <3>6. [[dbTriggers[s] EXCEPT !.active = FALSE] EXCEPT !.best = t.best] \in Trigger
            BY <3>1, <3>5, TriggerTypes
        <3>7. \A x \in GttGone : [t EXCEPT !.gst = x] \in Trigger
            BY <3>1, <3>2, TriggerTypes
        <3> QED
            BY <3>1, <3>4, <3>6, <3>7
    <2>3. /\ mon' \in Monitor
          /\ mon'.sym = "none"
          /\ mon'.pc \notin {"sell", "sold", "cancel", "modified"}
        <3>1. [mon EXCEPT !.todo = @ \ {s}] \in Monitor
            BY <1>0 DEF TypeOK, Monitor
        <3>2. mon' = [mon EXCEPT !.todo = @ \ {s}] \/ mon' = Resting
            BY <1>2, Zenon DEF PollGtt, GttExit
        <3>3. mon \in Monitor /\ mon.pc = "poll" /\ mon.sym = "none"
            BY <1>0, <1>2 DEF TypeOK, PollGtt, HandInv
        <3>4. CASE mon' = Resting
            BY <3>4, MonitorTypes DEF Resting
        <3>5. CASE mon' = [mon EXCEPT !.todo = @ \ {s}]
            BY <3>1, <3>3, <3>5 DEF Monitor
        <3> QED
            BY <3>2, <3>4, <3>5
    <2>4. /\ triggers' \in [Symbols -> Trigger]
          /\ dbTriggers' \in [Symbols -> Trigger]
          /\ position' \in [Symbols -> Entries \cup {0}]
          /\ dbPosition' \in [Symbols -> Entries \cup {0}]
        <3>1. \/ triggers' = triggers
              \/ triggers' = [triggers EXCEPT ![s] =
                                 [[t EXCEPT !.active = FALSE] EXCEPT !.gst = "triggered"]]
              \/ \E x \in GttGone : triggers' = [triggers EXCEPT ![s] = [t EXCEPT !.gst = x]]
            BY <1>2 DEF PollGtt, GttExit
        <3>2. \/ dbTriggers' = dbTriggers
              \/ dbTriggers' = [dbTriggers EXCEPT ![s] =
                     [[dbTriggers[s] EXCEPT !.active = FALSE] EXCEPT !.best = t.best]]
            BY <1>2, Zenon DEF PollGtt, GttExit
        <3>3. /\ position' = position \/ position' = [position EXCEPT ![s] = 0]
              /\ dbPosition' = dbPosition \/ dbPosition' = [dbPosition EXCEPT ![s] = 0]
            BY <1>2, Zenon DEF PollGtt, GttExit
        <3>4. triggers' \in [Symbols -> Trigger]
            BY <1>0, <2>2, <3>1 DEF TypeOK
        <3>5. dbTriggers' \in [Symbols -> Trigger]
            BY <1>0, <2>2, <3>2 DEF TypeOK
        <3> QED
            BY <1>0, <3>3, <3>4, <3>5 DEF TypeOK
    <2>5. HandInv'
        BY <2>3 DEF HandInv
    <2> QED
        BY <1>0, <1>2, <2>1, <2>3, <2>4, <2>5
        DEF PollGtt, ShapeInv, TypeOK, exchangeVars, worldVars, entryVars, histVars
<1>3. CASE CheckAll
    <2> DEFINE active == ActiveTriggers(triggers)
               seen(q) == [s \in Symbols |-> IF s \in q THEN WithPrice(triggers[s], price[s])
                                                        ELSE triggers[s]]
               due(q) == {s \in q : Due(seen(q)[s], price[s])}
               after(q) == [s \in Symbols |->
                              [seen(q)[s] EXCEPT !.active = @ /\ s \notin due(q)]]
    <2>1. PICK q \in SUBSET (active \cap Priced) :
              /\ IF q = active \cap Priced THEN NoFailure ELSE Fails("quoteFailed")
              /\ IF q = {} THEN mon' = Resting /\ UNCHANGED <<triggers, dbTriggers>>
                 ELSE /\ triggers' = after(q)
                      /\ dbTriggers' = Persisted(active, after(q))
                      /\ mon' = [mon EXCEPT !.pc = "exit", !.exits = due(q), !.quoted = q]
        BY <1>3 DEF CheckAll
    <2>2. failures' \in 0..MaxFailures
        <3>1. CASE NoFailure
            BY <1>0, <3>1, FailsType
        <3>2. CASE Fails("quoteFailed")
            BY <1>0, <3>2, ConstantTypes DEF Fails, TypeOK
        <3> QED
            BY <2>1, <3>1, <3>2
    <2>3. seen(q) \in [Symbols -> Trigger]
        <3>1. ASSUME NEW s \in Symbols
              PROVE  WithPrice(triggers[s], price[s]) \in Trigger
            <4>1. triggers[s] \in Trigger /\ triggers[s].best \in Nat /\ price[s] \in Nat
                BY <1>0, ConstantTypes DEF TypeOK, Trigger
            <4> QED
                BY <4>1, TriggerTypes DEF WithPrice, BestOf
        <3> QED
            BY <1>0, <3>1 DEF TypeOK
    <2>4. after(q) \in [Symbols -> Trigger]
        <3>1. ASSUME NEW s \in Symbols
              PROVE  [seen(q)[s] EXCEPT !.active = @ /\ s \notin due(q)] \in Trigger
            <4>1. seen(q)[s] \in Trigger /\ seen(q)[s].active \in BOOLEAN
                BY <2>3 DEF Trigger
            <4> HIDE DEF seen, due
            <4> QED
                BY <4>1, TriggerTypes
        <3> QED
            BY <3>1
    <2>5. Persisted(active, after(q)) \in [Symbols -> Trigger]
        <3> HIDE DEF after, active
        <3>1. ASSUME NEW s \in Symbols
              PROVE  [[dbTriggers[s] EXCEPT !.best = after(q)[s].best]
                        EXCEPT !.active = after(q)[s].active] \in Trigger
            <4>1. after(q)[s].best \in Nat /\ after(q)[s].active \in BOOLEAN
                BY <2>4 DEF Trigger
            <4> QED
                BY <1>0, <4>1, TriggerTypes DEF TypeOK
        <3> QED
            BY <1>0, <3>1 DEF TypeOK, Persisted
    <2>6. /\ mon' \in Monitor
          /\ mon'.sym = "none"
          /\ mon'.pc \notin {"sell", "sold", "cancel", "modified"}
        <3>1. due(q) \subseteq Symbols /\ q \subseteq Symbols
            BY DEF ActiveTriggers
        <3> HIDE DEF due
        <3>2. mon \in Monitor /\ mon.sym = "none"
            BY <1>0, <1>3 DEF TypeOK, CheckAll, HandInv
        <3>3. [mon EXCEPT !.pc = "exit", !.exits = due(q), !.quoted = q] \in Monitor
            BY <3>1, <3>2 DEF Monitor, MonitorStages
        <3>4. CASE mon' = Resting
            BY <3>4, MonitorTypes DEF Resting
        <3>5. CASE mon' = [mon EXCEPT !.pc = "exit", !.exits = due(q), !.quoted = q]
            BY <3>2, <3>3, <3>5 DEF Monitor
        <3> QED
            BY <2>1, <3>4, <3>5
    <2>7. HandInv'
        BY <2>6 DEF HandInv
    <2>8. triggers' \in [Symbols -> Trigger] /\ dbTriggers' \in [Symbols -> Trigger]
        <3> HIDE DEF after, active
        <3> QED
            BY <1>0, <2>1, <2>4, <2>5 DEF TypeOK
    <2> QED
        BY <1>0, <1>3, <2>2, <2>6, <2>7, <2>8
        DEF CheckAll, ShapeInv, TypeOK, exchangeVars, worldVars, entryVars, histVars
<1>4. CASE BeginTrailing \/ EndCycle \/ EndReconcile \/ EndReplace
    <2>1. mon' \in Monitor /\ HandInv'
        <3>1. /\ [mon EXCEPT !.pc = "trail", !.todo = ActiveTriggers(triggers) \cap mon.quoted]
                     \in Monitor
              /\ \A S \in SUBSET Symbols : [mon EXCEPT !.pc = "replace", !.todo = S] \in Monitor
            BY <1>0 DEF TypeOK, Monitor, MonitorStages, ActiveTriggers
        <3>2. mon \in Monitor /\ mon.sym = "none"
            BY <1>0, <1>4
            DEF TypeOK, BeginTrailing, EndCycle, EndReconcile, EndReplace, HandInv
        <3>3. CASE mon' = Resting
            BY <3>3, MonitorTypes DEF Resting, HandInv
        <3>4. CASE BeginTrailing
            BY <3>1, <3>2, <3>4 DEF Monitor, BeginTrailing, HandInv
        <3>5. CASE EndReconcile
            <4> DEFINE S == {s \in ActiveTriggers(triggers) : triggers[s].gid = 0}
            <4>1. S \in SUBSET Symbols /\ mon' = [mon EXCEPT !.pc = "replace", !.todo = S]
                BY <3>5 DEF EndReconcile, ActiveTriggers
            <4> HIDE DEF S
            <4> QED
                BY <3>1, <3>2, <4>1 DEF Monitor, HandInv
        <3> QED
            BY <1>4, <3>3, <3>4, <3>5 DEF EndCycle, EndReplace
    <2> QED
        BY <1>0, <1>4, <2>1
        DEF BeginTrailing, EndCycle, EndReconcile, EndReplace, ShapeInv, TypeOK, dbVars,
            exchangeVars, worldVars, entryVars, histVars
<1> QED
    BY <1>1, <1>2, <1>3, <1>4

\* The exits and the trailing update keep the types.
LEMMA ShapeExit ==
    ASSUME ShapeInv, Track,
           (\E s \in Symbols : BeginExit(s) \/ TrailStop(s))
             \/ SellFilled \/ SellRefused \/ BookSale \/ CancelGtt \/ SaveStop
    PROVE  ShapeInv'
<1>0. TypeOK /\ HandInv /\ mon \in Monitor /\ unpolled' \subseteq GttIds
    BY TrackType DEF ShapeInv, TypeOK
<1>1. ASSUME NEW s \in Symbols, BeginExit(s)
      PROVE  ShapeInv'
    <2>1. mon' \in Monitor /\ HandInv'
        <3>1. /\ [mon EXCEPT !.exits = @ \ {s}] \in Monitor
              /\ [mon EXCEPT !.pc = "sell", !.sym = s, !.exits = @ \ {s}] \in Monitor
            BY <1>0 DEF Monitor, MonitorStages
        <3>2. /\ mon.pc = "exit" /\ mon.sym = "none" /\ position' = position /\ s # "none"
            BY <1>0, <1>1, ConstantTypes DEF BeginExit, HandInv
        <3>3. CASE mon' = [mon EXCEPT !.exits = @ \ {s}]
            BY <1>0, <3>1, <3>2, <3>3 DEF Monitor, HandInv
        <3>4. CASE /\ position[s] # 0
                   /\ mon' = [mon EXCEPT !.pc = "sell", !.sym = s, !.exits = @ \ {s}]
            BY <1>0, <3>1, <3>2, <3>4 DEF Monitor, HandInv
        <3> QED
            BY <1>1, <3>3, <3>4 DEF BeginExit
    <2>2. /\ triggers' \in [Symbols -> Trigger]
          /\ dbTriggers' \in [Symbols -> Trigger]
          /\ gtts' \in [GttIds -> Gtt]
          /\ stray' \subseteq GttIds
          /\ failures' \in 0..MaxFailures
        <3>1. CASE Deactivate(s)
            BY <1>0, <3>1, DeactivateType
        <3>2. CASE NoFailure /\ UNCHANGED <<triggers, dbTriggers, gtts, stray>>
            BY <1>0, <3>2 DEF TypeOK, NoFailure
        <3> QED
            BY <1>1, <3>1, <3>2 DEF BeginExit
    <2> QED
        BY <1>0, <1>1, <2>1, <2>2 DEF BeginExit, ShapeInv, TypeOK, worldVars, entryVars
<1>2. ASSUME NEW s \in Symbols, TrailStop(s)
      PROVE  ShapeInv'
    <2> DEFINE t == triggers[s]
    <2>1. t \in Trigger
        BY <1>0 DEF TypeOK
    <2>2. mon' \in Monitor /\ HandInv'
        <3>1. /\ [mon EXCEPT !.todo = @ \ {s}] \in Monitor
              /\ [[mon EXCEPT !.todo = @ \ {s}] EXCEPT !.pc = "modified", !.sym = s] \in Monitor
            BY <1>0 DEF Monitor, MonitorStages
        <3>2. mon.pc = "trail" /\ mon.sym = "none" /\ s # "none"
            BY <1>0, <1>2, ConstantTypes DEF TrailStop, HandInv
        <3>3. CASE mon' = [mon EXCEPT !.todo = @ \ {s}]
            BY <1>0, <3>1, <3>2, <3>3 DEF Monitor, HandInv
        <3>4. CASE mon' = [[mon EXCEPT !.todo = @ \ {s}] EXCEPT !.pc = "modified", !.sym = s]
            BY <1>0, <3>1, <3>2, <3>4 DEF Monitor, HandInv
        <3> QED
            BY <1>2, <3>3, <3>4 DEF TrailStop
    <2>3. gtts' \in [GttIds -> Gtt]
        <3>1. CASE UNCHANGED gtts
            BY <1>0, <3>1 DEF TypeOK
        <3>2. CASE t.gid # 0 /\ gtts' = [gtts EXCEPT ![t.gid].stop = TrailingStop(t)]
            <4>1. t.gid \in GttIds /\ gtts[t.gid] \in Gtt
                BY <1>0, <2>1, <3>2 DEF TypeOK, Trigger
            <4>2. [gtts[t.gid] EXCEPT !.stop = TrailingStop(t)] \in Gtt
                BY <2>1, <4>1, GttTypes, TrailingStopType
            <4> QED
                BY <1>0, <3>2, <4>2 DEF TypeOK
        <3> QED
            BY <1>2, <3>1, <3>2 DEF TrailStop
    <2>4. failures' \in 0..MaxFailures
        BY <1>0, <1>2, FailsType DEF TrailStop
    <2> QED
        BY <1>0, <1>2, <2>2, <2>3, <2>4
        DEF TrailStop, ShapeInv, TypeOK, dbVars, worldVars, entryVars, histVars
<1>3. CASE SellFilled
    <2>1. mon.pc = "sell" /\ mon.sym \in Symbols /\ position[mon.sym] \in Entries
        BY <1>0, <1>3 DEF SellFilled, HandInv, TypeOK, Monitor
    <2>2. mon' \in Monitor /\ HandInv'
        BY <1>0, <1>3, <2>1 DEF SellFilled, HandInv, Monitor, MonitorStages
    <2>3. held' \in [Symbols -> Int]
        <3>1. \A x \in Int : x - side[position[mon.sym]] \in Int
            BY <1>0, <2>1 DEF TypeOK, Buy, Sell
        <3> QED
            BY <1>0, <1>3, <2>1, <3>1 DEF SellFilled, TypeOK
    <2> QED
        BY <1>0, <1>3, <2>2, <2>3
        DEF SellFilled, ShapeInv, TypeOK, dbVars, worldVars, entryVars, histVars
<1>4. CASE SellRefused
    <2>1. mon.pc = "sell" /\ mon.sym \in Symbols /\ position[mon.sym] \in Entries
        BY <1>0, <1>4 DEF SellRefused, HandInv, TypeOK, Monitor
    <2>2. mon' \in Monitor /\ HandInv'
        BY <1>0, <1>4, <2>1 DEF SellRefused, HandInv, Monitor, MonitorStages
    <2>3. failures' \in 0..MaxFailures
        BY <1>0, <1>4, ConstantTypes DEF SellRefused, Fails, TypeOK
    <2> QED
        BY <1>0, <1>4, <2>1, <2>2, <2>3
        DEF SellRefused, ShapeInv, TypeOK, dbVars, exchangeVars, worldVars, entryVars
<1>5. CASE BookSale
    <2>1. mon.pc = "sold"
        BY <1>5 DEF BookSale
    <2>2. mon' \in Monitor /\ HandInv'
        BY <1>0, <1>5, <2>1 DEF BookSale, HandInv, Monitor, MonitorStages
    <2>3. /\ position' \in [Symbols -> Entries \cup {0}]
          /\ dbPosition' \in [Symbols -> Entries \cup {0}]
          /\ openTrades' \subseteq Entries
        BY <1>0, <1>5 DEF BookSale, TypeOK
    <2> QED
        BY <1>0, <1>5, <2>2, <2>3
        DEF BookSale, ShapeInv, TypeOK, exchangeVars, worldVars, entryVars, histVars
<1>6. CASE CancelGtt
    <2>1. mon.pc = "cancel" /\ mon.sym \in Symbols
        BY <1>0, <1>6 DEF CancelGtt, HandInv, Monitor
    <2>2. mon' \in Monitor /\ HandInv'
        BY <1>0, <1>6, <2>1 DEF CancelGtt, HandInv, Monitor, MonitorStages
    <2>3. Deactivate(mon.sym)
        BY <1>6 DEF CancelGtt
    <2> QED
        BY <1>0, <1>6, <2>1, <2>2, <2>3, DeactivateType
        DEF CancelGtt, ShapeInv, TypeOK, worldVars, entryVars
<1>7. CASE SaveStop
    <2> DEFINE t == [triggers[mon.sym] EXCEPT !.gstop = TrailingStop(triggers[mon.sym])]
    <2>1. mon.pc = "modified" /\ mon.sym \in Symbols
        BY <1>0, <1>7 DEF SaveStop, HandInv, Monitor
    <2>2. mon' \in Monitor /\ HandInv'
        BY <1>0, <1>7, <2>1 DEF SaveStop, HandInv, Monitor, MonitorStages
    <2>3. t \in Trigger
        <3>1. triggers[mon.sym] \in Trigger
            BY <1>0, <2>1 DEF TypeOK
        <3> QED
            BY <3>1, TrailingStopType, TriggerTypes
    <2>4. triggers' \in [Symbols -> Trigger] /\ dbTriggers' \in [Symbols -> Trigger]
        <3>1. triggers' = [triggers EXCEPT ![mon.sym] = t]
              /\ dbTriggers' = [dbTriggers EXCEPT ![mon.sym] = t]
            BY <1>7 DEF SaveStop
        <3> HIDE DEF t
        <3> QED
            BY <1>0, <2>3, <3>1 DEF TypeOK
    <2> QED
        BY <1>0, <1>7, <2>2, <2>4
        DEF SaveStop, ShapeInv, TypeOK, exchangeVars, worldVars, entryVars, histVars
<1> QED
    BY <1>1, <1>2, <1>3, <1>4, <1>5, <1>6, <1>7

\* Reconciliation, replacements, crashes and starts keep the types.
LEMMA ShapeRestart ==
    ASSUME ShapeInv, Track,
           (\E s \in Symbols : Reconcile(s) \/ Replace(s)) \/ KeepReplacement \/ Crash \/ Start
    PROVE  ShapeInv'
<1>0. TypeOK /\ HandInv /\ mon \in Monitor /\ unpolled' \subseteq GttIds
    BY TrackType DEF ShapeInv, TypeOK
<1>1. ASSUME NEW s \in Symbols, Reconcile(s)
      PROVE  ShapeInv'
    <2> DEFINE t == triggers[s]
               answer == GttAnswer(t.gid)
    <2>1. t \in Trigger /\ t.gid \in GttIds \cup {0}
        BY <1>0 DEF TypeOK, Trigger
    <2>2. mon' \in Monitor /\ HandInv'
        BY <1>0, <1>1 DEF Reconcile, HandInv, Monitor
    <2>3. triggers' \in [Symbols -> Trigger]
        <3>1. CASE triggers' = [triggers EXCEPT ![s].gst = answer] /\ answer \in Standing
            <4>1. [t EXCEPT !.gst = answer] \in Trigger
                BY <2>1, <3>1, TriggerTypes DEF Standing, GttStatus
            <4> QED
                BY <1>0, <3>1, <4>1 DEF TypeOK
        <3>2. ASSUME NEW x \in GttStatus, triggers' = [triggers EXCEPT ![s].gid = 0, ![s].gst = x]
              PROVE  triggers' \in [Symbols -> Trigger]
            <4>1. [[t EXCEPT !.gid = 0] EXCEPT !.gst = x] \in Trigger
                BY <2>1, TriggerTypes
            <4> QED
                BY <1>0, <3>2, <4>1 DEF TypeOK
        <3>3. (IF answer \in GttGone THEN answer ELSE "expired") \in GttStatus
            BY DEF GttStatus, GttGone
        <3>4. "expired" \in GttStatus
            BY DEF GttStatus, GttGone
        <3> QED
            BY <1>0, <1>1, <3>1, <3>2, <3>3, <3>4 DEF Reconcile, TypeOK
    <2>4. failures' \in 0..MaxFailures
        BY <1>0, <1>1, ConstantTypes DEF Reconcile, TypeOK, Fails, NoFailure
    <2>5. stray' \subseteq GttIds
        BY <1>0, <1>1, <2>1 DEF Reconcile, TypeOK
    <2> QED
        BY <1>0, <1>1, <2>2, <2>3, <2>4, <2>5
        DEF Reconcile, ShapeInv, TypeOK, dbVars, exchangeVars, worldVars, entryVars
<1>2. ASSUME NEW s \in Symbols, Replace(s)
      PROVE  ShapeInv'
    <2>1. mon' \in Monitor /\ HandInv'
        BY <1>0, <1>2 DEF Replace, HandInv, Monitor
    <2>2. approval' \in Approval
        <3>1. position[s] \in Entries \cup {0} /\ triggers[s].sig \in Signals \cup {NoSignal}
            BY <1>0 DEF TypeOK, Trigger
        <3>2. [NoApproval EXCEPT !.stage = "place", !.sym = s, !.entry = position[s],
                                 !.sig = triggers[s].sig] \in Approval
            BY <3>1 DEF NoApproval, Approval
        <3> QED
            BY <1>0, <1>2, <3>2 DEF Replace, TypeOK
    <2>3. failures' \in 0..MaxFailures
        <3>1. NoFailure \/ Fails("quoteFailed")
            BY <1>2 DEF Replace
        <3> QED
            BY <1>0, <3>1, ConstantTypes DEF TypeOK, Fails, NoFailure
    <2> QED
        BY <1>0, <1>2, <2>1, <2>2, <2>3
        DEF Replace, ShapeInv, TypeOK, dbVars, exchangeVars, worldVars, entryVars, histVars
<1>3. CASE Crash
    <2>1. triggers' \in [Symbols -> Trigger] /\ mon' \in Monitor /\ approval' \in Approval
        BY <1>3, TriggerTypes, MonitorTypes, ApprovalTypes DEF Crash
    <2>2. HandInv'
        BY <1>3 DEF Crash, HandInv, Resting
    <2>3. crashes' \in 0..MaxCrashes
        BY <1>0, <1>3, ConstantTypes DEF Crash, TypeOK
    <2>4. abandoned' \subseteq Entries
        <3>1. approval.entry \in Entries \cup {0}
            BY <1>0 DEF TypeOK, Approval
        <3> QED
            BY <1>0, <1>3, <3>1 DEF Crash, TypeOK, Monitor, Busy
    <2>5. stray' \subseteq GttIds
        <3>1. /\ approval.gid \in GttIds \cup {0}
              /\ \A s \in Symbols : triggers[s].gid \in GttIds \cup {0}
            BY <1>0 DEF TypeOK, Approval, Trigger
        <3> QED
            BY <1>0, <1>3, <3>1 DEF Crash, TypeOK, Busy
    <2> QED
        BY <1>0, <1>3, <2>1, <2>2, <2>3, <2>4, <2>5
        DEF Crash, ShapeInv, TypeOK, dbVars, exchangeVars, worldVars, entryVars
<1>4. CASE Start
    <2>1. triggers' \in [Symbols -> Trigger]
        BY <1>0, <1>4, TriggerTypes DEF Start, TypeOK, Loaded
    <2>2. mon' \in Monitor /\ HandInv'
        <3>1. ActiveTriggers(Loaded) \in SUBSET Symbols
            BY DEF ActiveTriggers
        <3>2. mon' = [Resting EXCEPT !.pc = "reconcile", !.todo = ActiveTriggers(Loaded)]
            BY <1>4 DEF Start
        <3> QED
            BY <3>1, <3>2 DEF Resting, Monitor, MonitorStages, HandInv
    <2> QED
        BY <1>0, <1>4, <2>1, <2>2
        DEF Start, ShapeInv, TypeOK, dbVars, exchangeVars, worldVars, entryVars, histVars
<1>5. CASE KeepReplacement
    <2> DEFINE s == approval.sym
               p == [triggers[s] EXCEPT !.gid = approval.gid, !.gst = "active",
                                        !.gstop = triggers[s].sig.stop]
    <2>1. triggers' \in [Symbols -> Trigger] /\ dbTriggers' \in [Symbols -> Trigger]
        <3>1. CASE UNCHANGED <<triggers, dbTriggers>>
            BY <1>0, <3>1 DEF TypeOK
        <3>2. CASE triggers' = [triggers EXCEPT ![s] = p] /\ dbTriggers' = [dbTriggers EXCEPT ![s] = p]
            <4>1. CASE s \notin Symbols
                BY <1>0, <3>2, <4>1 DEF TypeOK
            <4>2. CASE s \in Symbols
                <5>1. /\ triggers[s] \in Trigger /\ approval.gid \in GttIds \cup {0}
                      /\ triggers[s].sig \in Signals \cup {NoSignal}
                    BY <1>0, <4>2 DEF TypeOK, Trigger, Approval
                <5>2. triggers[s].sig.stop \in Nat
                    BY <5>1, SignalTypes
                <5>3. p \in Trigger
                    BY <5>1, <5>2 DEF Trigger, GttStatus
                <5> HIDE DEF p, s
                <5> QED
                    BY <1>0, <3>2, <4>2, <5>3 DEF TypeOK
            <4> QED
                BY <4>1, <4>2
        <3> QED
            BY <1>5, <3>1, <3>2 DEF KeepReplacement
    <2>2. approval' \in Approval /\ HandInv'
        BY <1>0, <1>5, ApprovalTypes DEF KeepReplacement, HandInv
    <2> QED
        BY <1>0, <1>5, <2>1, <2>2
        DEF KeepReplacement, ShapeInv, TypeOK, exchangeVars, worldVars, entryVars, histVars
<1> QED
    BY <1>1, <1>2, <1>3, <1>4, <1>5

\* Strategies, the market and the exchange keep the types.
LEMMA ShapeWorld ==
    ASSUME ShapeInv, Track, (\E s \in Symbols : StrategyExit(s)) \/ WorldStep
    PROVE  ShapeInv'
<1>0. TypeOK /\ HandInv /\ mon \in Monitor /\ unpolled' \subseteq GttIds
    BY TrackType DEF ShapeInv, TypeOK
<1>1. ASSUME NEW s \in Symbols, StrategyExit(s)
      PROVE  ShapeInv'
    <2>1. HandInv'
        BY <1>0, <1>1 DEF StrategyExit, HandInv
    <2>2. /\ position' \in [Symbols -> Entries \cup {0}]
          /\ dbPosition' \in [Symbols -> Entries \cup {0}]
          /\ openTrades' \subseteq Entries
        BY <1>0, <1>1 DEF StrategyExit, TypeOK
    <2>3. held' \in [Symbols -> Int]
        <3>1. position[s] \in Entries
            BY <1>0, <1>1 DEF StrategyExit, TypeOK
        <3>2. \A x \in Int : x - side[position[s]] \in Int
            BY <1>0, <3>1 DEF TypeOK, Buy, Sell
        <3> QED
            BY <1>0, <1>1, <3>2 DEF StrategyExit, TypeOK
    <2> QED
        BY <1>0, <1>1, <2>1, <2>2, <2>3
        DEF StrategyExit, ShapeInv, TypeOK, worldVars, entryVars, histVars
<1>2. ASSUME NEW s \in Symbols, NEW p \in Prices, MarketMoves(s, p)
      PROVE  ShapeInv'
    BY <1>0, <1>2
    DEF MarketMoves, ShapeInv, TypeOK, HandInv, memVars, dbVars, exchangeVars, entryVars, histVars
<1>3. ASSUME NEW e \in Entries, HoldTimeElapses(e)
      PROVE  ShapeInv'
    BY <1>0, <1>3
    DEF HoldTimeElapses, ShapeInv, TypeOK, HandInv, memVars, dbVars, exchangeVars, entryVars,
        histVars
<1>4. ASSUME NEW g \in GttIds, GttFires(g)
      PROVE  ShapeInv'
    <2>1. [gtts[g] EXCEPT !.st = "triggered"] \in Gtt /\ gtts[g].dir \in {Buy, Sell}
        BY <1>0, GttTypes DEF TypeOK, Gtt
    <2>2. gtts' \in [GttIds -> Gtt]
        BY <1>0, <1>4, <2>1 DEF GttFires, TypeOK
    <2>3. held' \in [Symbols -> Int]
        <3>1. \A x \in Int : x - gtts[g].dir \in Int
            BY <2>1 DEF Buy, Sell
        <3> QED
            BY <1>0, <1>4, <3>1 DEF GttFires, TypeOK
    <2> QED
        BY <1>0, <1>4, <2>2, <2>3
        DEF GttFires, ShapeInv, TypeOK, HandInv, memVars, dbVars, worldVars, entryVars, histVars
<1>5. ASSUME NEW g \in GttIds, NEW st \in GttGone \cup {"deleted"}, GttLost(g, st)
      PROVE  ShapeInv'
    <2>1. [gtts[g] EXCEPT !.st = st] \in Gtt
        BY <1>0, GttTypes DEF TypeOK
    <2>2. gtts' \in [GttIds -> Gtt]
        BY <1>0, <1>5, <2>1 DEF GttLost, TypeOK
    <2>3. failures' \in 0..MaxFailures
        BY <1>0, <1>5, ConstantTypes DEF GttLost, Fails, TypeOK
    <2> QED
        BY <1>0, <1>5, <2>2, <2>3
        DEF GttLost, ShapeInv, TypeOK, HandInv, memVars, dbVars, worldVars, entryVars, histVars
<1> QED
    BY <1>1, <1>2, <1>3, <1>4, <1>5 DEF WorldStep

\* Every step keeps the types.
LEMMA ShapeStep == ShapeInv /\ [Next]_vars => ShapeInv'
<1> SUFFICES ASSUME ShapeInv, [Next]_vars PROVE ShapeInv'
    OBVIOUS
<1>1. CASE UNCHANGED vars
    BY <1>1 DEF vars, memVars, dbVars, exchangeVars, worldVars, entryVars, histVars, ShapeInv,
                TypeOK, HandInv
<1>2. CASE Next
    <2>1. Track
        BY <1>2 DEF Next
    <2>2. CASE (\E s \in Symbols, sig \in Signals : Approve(s, sig)) \/ ApprovalStep
        BY <2>1, <2>2, ShapeApproval
    <2>3. CASE Tick \/ (\E s \in Symbols : PollGtt(s)) \/ CheckAll \/ BeginTrailing \/ EndCycle
                 \/ EndReconcile \/ EndReplace
        BY <2>1, <2>3, ShapeCycle
    <2>4. CASE (\E s \in Symbols : BeginExit(s) \/ TrailStop(s))
                 \/ SellFilled \/ SellRefused \/ BookSale \/ CancelGtt \/ SaveStop
        BY <2>1, <2>4, ShapeExit
    <2>5. CASE (\E s \in Symbols : Reconcile(s) \/ Replace(s)) \/ KeepReplacement
                 \/ Crash \/ Start
        BY <2>1, <2>5, ShapeRestart
    <2>6. CASE (\E s \in Symbols : StrategyExit(s)) \/ WorldStep
        BY <2>1, <2>6, ShapeWorld
    <2> QED
        BY <1>2, <2>2, <2>3, <2>4, <2>5, <2>6 DEF Next, MonitorStep
<1> QED
    BY <1>1, <1>2

LEMMA Shape == Spec => []ShapeInv
BY ShapeInit, ShapeStep, PTL DEF Spec

\* Every variable keeps its type, in the worker and in the scheduler: no exit or
\* refusal is booked for a symbol without a position, and every trigger and row
\* names an order of the exchange.
THEOREM TypeInvariant == Spec => []TypeOK
<1>1. ShapeInv => TypeOK
    BY DEF ShapeInv
<1> QED
    BY Shape, <1>1, PTL

---------------------------------------------------------------------------
(* Orders and positions, where nothing interferes *)

\* The scheduler, without strategies' exits and without an approval that overlaps
\* the exit of its symbol.
Undisturbed == ~ReloadsTriggers /\ ~StrategyExits /\ ~Overlaps

\* The orders of a symbol that can still fire and that nothing has cut loose.
Live(s) == {g \in GttIds \ stray : gtts[g].st = "active" /\ gtts[g].sym = s}

\* The monitor has begun the exit of the symbol.
Exiting(s) == s \in mon.exits \cup Busy({"sell", "sold", "cancel"})

\* The start has still to ask for the symbol's order.
Unreconciled(s) == mon.pc = "reconcile" /\ s \in mon.todo

\* The start has found the symbol's trigger without an order, and has still to turn to it.
Unreplaced(s) == mon.pc = "replace" /\ s \in mon.todo

\* What a process that is down, the start and a resting approval leave.
ProcessInv ==
    /\ mon.pc \in {"idle", "reconcile", "replace", "poll", "trail", "modified"} => mon.exits = {}
    /\ mon.pc = "reconcile" => approval = NoApproval
    /\ approval.stage = "idle" => approval = NoApproval
    /\ approval.stage # "idle" => approval.sym \in Symbols
    /\ approval.stage = "place" => approval.gid = 0
    /\ IF up THEN position = dbPosition
       ELSE /\ mon = Resting
            /\ approval = NoApproval
            /\ position = [s \in Symbols |-> 0]
            /\ triggers = [s \in Symbols |-> NoTrigger]

ExchangeInv ==
    \A g \in GttIds :
        /\ g >= nextGtt => gtts[g] = NoGtt /\ g \notin stray
        /\ gtts[g].st = "active" => gtts[g].sym \in Symbols

\* An order known to a trigger, a row or an approval is one of the symbol's.
IdInv(s) ==
    /\ triggers[s].gid # 0 => triggers[s].gid < nextGtt /\ gtts[triggers[s].gid].sym = s
    /\ dbTriggers[s].gid # 0 => dbTriggers[s].gid < nextGtt /\ gtts[dbTriggers[s].gid].sym = s
    /\ approval.sym = s /\ approval.gid # 0 =>
           approval.gid < nextGtt /\ gtts[approval.gid].sym = s

\* Between the purchase and the trigger, the symbol is the approval's alone; a start
\* places again for a trigger that has no order.
BuyInv(s) ==
    approval.sym = s =>
        /\ approval.entry # 0
        /\ position[s] = approval.entry
        /\ IF mon.pc = "replace" THEN triggers[s].active /\ triggers[s].gid = 0 ELSE ~AtWork(s)
        /\ \A g \in Live(s) : g = approval.gid
        /\ approval.gid # 0 => gtts[approval.gid].entry = approval.entry

\* A live order is the only one of its symbol and belongs to the position in the
\* book; the trigger at work and the active row name it, once they have taken it over.
LiveInv(s) ==
    \A g \in Live(s) :
        /\ \A h \in Live(s) : g = h
        /\ gtts[g].entry # 0
        /\ Book[s] = gtts[g].entry \/ s \in Busy({"cancel"})
        /\ AtWork(s) /\ approval.sym # s =>
               triggers[s].gid = g /\ triggers[s].gst = "active"
        /\ dbTriggers[s].active /\ approval.sym # s =>
               dbTriggers[s].gid = g /\ dbTriggers[s].gst = "active"

\* An active trigger has an active row, until the exit begins, and the row names its
\* order; what an active row or a watching trigger names belongs to the position in
\* the book.
WatchInv(s) ==
    LET t == triggers[s]
        r == dbTriggers[s]
    IN  /\ t.active => r.active /\ r.entry = t.entry
        /\ t.active /\ t.gid # 0 => r.gid = t.gid
        /\ Exiting(s) => ~t.active /\ ~r.active
        /\ Unreconciled(s) => t.active
        /\ Unreplaced(s) => t.active /\ t.gid = 0 /\ approval.sym # s
        /\ r.active /\ r.gid # 0 /\ gtts[r.gid].st = "active" =>
               gtts[r.gid].entry = dbPosition[s] /\ dbPosition[s] # 0
        /\ (/\ t.active /\ t.gid # 0 /\ t.gst = "active" /\ ~Unreconciled(s)
            /\ gtts[t.gid].st \in {"active", "triggered"}) => gtts[t.gid].entry = position[s]

\* A position is guarded, is being bought or sold, or was abandoned.
GuardInv(s) ==
    Book[s] # 0 /\ Book[s] \notin abandoned =>
        \/ Guards[s].active /\ Guards[s].entry = Book[s]
        \/ approval.sym = s /\ mon.pc # "replace"
        \/ s \in mon.exits
        \/ s \in Busy({"sell", "sold"})

\* The order of a trigger or a row that is no longer taken for active has not been
\* executed, unless the trigger knows.
Known(t) ==
    t.gid # 0 /\ t.gst \notin {"active", "triggered"} =>
        gtts[t.gid].st \notin {"active", "triggered"}

\* The running cycle has asked for the symbol's order, or come too early to ask.
Asked(s) ==
    \/ mon.pc = "poll" /\ triggers[s].active /\ s \notin mon.todo
    \/ s \in mon.exits
    \/ s \in Busy({"sell"})

\* What the cycle does not know of the orders it has asked for happened since.
AskedInv(s) ==
    LET t == triggers[s]
        r == dbTriggers[s]
    IN  /\ t.active => Known(t)
        /\ r.active => Known(r)
        /\ Asked(s) /\ t.gid # 0 /\ t.gst # "triggered" /\ gtts[t.gid].st = "triggered" =>
               t.gid \in unpolled

SymbolInv(s) == IdInv(s) /\ BuyInv(s) /\ LiveInv(s) /\ WatchInv(s) /\ GuardInv(s)

GttInv ==
    /\ ShapeInv
    /\ ProcessInv
    /\ ExchangeInv
    /\ \A s \in Symbols : SymbolInv(s)

---------------------------------------------------------------------------
(* What a step leaves alone *)

\* The monitor takes nothing of the symbol in hand, and lets nothing go.
SameHand(s) ==
    /\ s \in mon'.exits <=> s \in mon.exits
    /\ s \in Busy({"sell", "sold"})' <=> s \in Busy({"sell", "sold"})
    /\ s \in Busy({"cancel"})' <=> s \in Busy({"cancel"})
    /\ s = mon'.sym => AtWork(s)
    /\ Unreconciled(s)' <=> Unreconciled(s)
    /\ Unreplaced(s)' =>
           Unreplaced(s) \/ (triggers[s].active /\ triggers[s].gid = 0 /\ approval.sym # s)
    /\ approval.sym = s => (mon'.pc = "replace" <=> mon.pc = "replace")

\* Nothing is placed for the symbol or cut loose; an order may come to its end.
SameOrders(s) ==
    \A g \in GttIds :
        gtts[g].sym = s \/ gtts'[g].sym = s =>
            /\ gtts[g].sym = s /\ gtts'[g].sym = s
            /\ gtts'[g].entry = gtts[g].entry
            /\ gtts'[g].st # gtts[g].st => gtts[g].st = "active" /\ gtts'[g].st # "active"
            /\ g \in stray' <=> g \in stray

\* The books of the symbol.
SameBooks(s) ==
    /\ position'[s] = position[s] /\ dbPosition'[s] = dbPosition[s]
    /\ triggers'[s] = triggers[s] /\ dbTriggers'[s] = dbTriggers[s]
    /\ approval' = approval \/ (approval.sym # s /\ approval'.sym # s)

\* The orders that triggers, rows and approvals name.
LEMMA IdTypes ==
    ASSUME TypeOK
    PROVE  /\ approval.gid \in GttIds \cup {0}
           /\ nextGtt \in Nat
           /\ \A s \in Symbols : /\ triggers[s].gid \in GttIds \cup {0}
                                 /\ dbTriggers[s].gid \in GttIds \cup {0}
BY DEF TypeOK, Trigger, Approval

LEMMA UntouchedSymbol ==
    ASSUME TypeOK, TypeOK', NEW s \in Symbols, SymbolInv(s),
           up' = up, nextGtt' >= nextGtt, abandoned \subseteq abandoned',
           SameHand(s), SameOrders(s), SameBooks(s)
    PROVE  SymbolInv(s)'
<1>0. /\ IdInv(s) /\ BuyInv(s) /\ LiveInv(s) /\ WatchInv(s) /\ GuardInv(s)
      /\ approval.gid \in GttIds \cup {0}
      /\ nextGtt \in Nat /\ nextGtt' \in Nat /\ GttIds \subseteq Nat
      /\ triggers[s].gid \in GttIds \cup {0} /\ dbTriggers[s].gid \in GttIds \cup {0}
    <2>1. nextGtt \in Nat /\ nextGtt' \in Nat
        BY DEF TypeOK
    <2>2. GttIds \subseteq Nat
        BY DEF GttIds
    <2> QED
        BY <2>1, <2>2, IdTypes DEF SymbolInv
<1>1. \A g \in Live(s)' : g \in Live(s) /\ gtts'[g].entry = gtts[g].entry
    BY DEF Live, SameOrders
<1>2. /\ AtWork(s)' => AtWork(s)
      /\ Exiting(s)' => Exiting(s)
    BY DEF AtWork, Exiting, SameHand, SameBooks, Busy
<1>3. Book'[s] = Book[s] /\ Guards'[s] = Guards[s]
    BY DEF Book, Guards, Loaded, SameBooks
<1>9. \A g \in GttIds :
          gtts[g].sym = s =>
              /\ gtts'[g].sym = s
              /\ gtts'[g].entry = gtts[g].entry
              /\ gtts'[g].st = "active" => gtts[g].st = "active"
              /\ gtts'[g].st \in {"active", "triggered"} => gtts[g].st \in {"active", "triggered"}
              /\ g \in stray' <=> g \in stray
    BY DEF SameOrders
<1>4. IdInv(s)'
    <2>1. \A n \in Nat : n < nextGtt => n < nextGtt'
        BY <1>0
    <2> QED
        BY <1>0, <1>9, <2>1 DEF IdInv, SameBooks
<1>5. BuyInv(s)'
    BY <1>0, <1>1, <1>2 DEF BuyInv, IdInv, SameBooks, SameHand, SameOrders
<1>6. LiveInv(s)'
    BY <1>0, <1>1, <1>2, <1>3 DEF LiveInv, SameBooks, SameHand
<1>7. WatchInv(s)'
    <2>1. /\ triggers[s].gid # 0 => gtts[triggers[s].gid].sym = s
          /\ dbTriggers[s].gid # 0 => gtts[dbTriggers[s].gid].sym = s
        BY <1>0 DEF IdInv
    <2>2. /\ position'[s] = position[s]
          /\ triggers'[s] = triggers[s] /\ dbTriggers'[s] = dbTriggers[s]
          /\ Unreconciled(s)' <=> Unreconciled(s)
        BY DEF SameBooks, SameHand
    <2> DEFINE t == triggers[s]
               r == dbTriggers[s]
    <2>3. t.gid # 0 =>
              /\ gtts'[t.gid].entry = gtts[t.gid].entry
              /\ gtts'[t.gid].st = "active" => gtts[t.gid].st = "active"
              /\ gtts'[t.gid].st \in {"active", "triggered"} =>
                     gtts[t.gid].st \in {"active", "triggered"}
              /\ t.gid \in stray' <=> t.gid \in stray
        BY <1>0, <1>9, <2>1
    <2>4. r.gid # 0 => /\ gtts'[r.gid].entry = gtts[r.gid].entry
                       /\ gtts'[r.gid].st = "active" => gtts[r.gid].st = "active"
        BY <1>0, <1>9, <2>1
    <2>5. /\ t.active => r.active /\ r.entry = t.entry
          /\ t.active /\ t.gid # 0 => r.gid = t.gid
          /\ Exiting(s)' => ~t.active /\ ~r.active
          /\ Unreconciled(s)' => t.active
          /\ Unreplaced(s)' => t.active /\ t.gid = 0 /\ approval'.sym # s
        BY <1>0, <1>2, <2>2 DEF WatchInv, SameHand, SameBooks
    <2>6. r.active /\ r.gid # 0 /\ gtts'[r.gid].st = "active" =>
              gtts'[r.gid].entry = dbPosition'[s] /\ dbPosition'[s] # 0
        BY <1>0, <2>2, <2>4 DEF WatchInv, SameBooks
    <2>7. /\ t.active /\ t.gid # 0 /\ t.gst = "active" /\ ~Unreconciled(s)'
          /\ gtts'[t.gid].st \in {"active", "triggered"}
          => gtts'[t.gid].entry = position[s]
        BY <1>0, <2>2, <2>3 DEF WatchInv
    <2> QED
        BY <2>2, <2>5, <2>6, <2>7 DEF WatchInv
<1>8. GuardInv(s)'
    BY <1>0, <1>3 DEF GuardInv, SameBooks, SameHand
<1> QED
    BY <1>4, <1>5, <1>6, <1>7, <1>8 DEF SymbolInv

\* A monitor at work, and an approval under way, belong to a process.
LEMMA AtWorkMeansUp ==
    ASSUME ProcessInv
    PROVE  mon.pc # "idle" \/ approval.stage # "idle" => up
BY DEF ProcessInv, Resting, NoApproval

\* A step that leaves every symbol's books alone.
LEMMA QuietStep ==
    ASSUME GttInv, ShapeInv', ProcessInv', ExchangeInv',
           up' = up, abandoned \subseteq abandoned',
           UNCHANGED <<position, triggers, approval, dbPosition, dbTriggers, nextGtt>>,
           \A s \in Symbols : SameHand(s) /\ SameOrders(s)
    PROVE  GttInv'
<1>1. TypeOK /\ TypeOK' /\ nextGtt' >= nextGtt
    BY IdTypes DEF GttInv, ShapeInv
<1>2. ASSUME NEW s \in Symbols
      PROVE  SymbolInv(s)'
    <2>1. SymbolInv(s) /\ SameBooks(s)
        BY DEF GttInv, SameBooks
    <2> QED
        BY <1>1, <2>1, UntouchedSymbol
<1> QED
    BY <1>2 DEF GttInv

\* The market moves, an order is executed or lost.
LEMMA GttWorld ==
    ASSUME GttInv, ShapeInv', WorldStep
    PROVE  GttInv'
<1>0. ProcessInv /\ ExchangeInv /\ TypeOK
    BY DEF GttInv, ShapeInv
<1>1. UNCHANGED <<up, memVars, dbVars, nextGtt, histVars>>
    BY DEF WorldStep, MarketMoves, HoldTimeElapses, GttFires, GttLost, exchangeVars
<1>2. \A g \in GttIds :
          /\ gtts'[g].sym = gtts[g].sym
          /\ gtts'[g].entry = gtts[g].entry
          /\ gtts'[g] # gtts[g] => gtts[g].st = "active" /\ gtts'[g].st # "active"
    <2>1. gtts \in [GttIds -> Gtt]
        BY <1>0 DEF TypeOK
    <2>2. \/ UNCHANGED gtts
          \/ \E g \in GttIds, st \in GttGone \cup {"deleted", "triggered"} :
                 gtts[g].st = "active" /\ gtts' = [gtts EXCEPT ![g].st = st]
        BY DEF WorldStep, MarketMoves, HoldTimeElapses, GttFires, GttLost, exchangeVars
    <2> QED
        BY <2>1, <2>2 DEF Gtt, GttGone
<1>3. \A s \in Symbols : SameHand(s) /\ SameOrders(s)
    BY <1>1, <1>2
    DEF memVars, histVars, SameHand, SameOrders, Busy, Unreconciled, Unreplaced, AtWork
<1>4. ProcessInv'
    BY <1>0, <1>1 DEF ProcessInv, memVars, dbVars
<1>5. ExchangeInv'
    BY <1>0, <1>1, <1>2 DEF ExchangeInv, histVars, NoGtt
<1> QED
    BY <1>1, <1>3, <1>4, <1>5, QuietStep DEF memVars, dbVars, histVars

\* The cycle looks around, sends an exit order, moves a stop.
LEMMA GttQuietMonitor ==
    ASSUME Undisturbed, GttInv, ShapeInv',
           Tick \/ BeginTrailing \/ EndCycle \/ EndReconcile \/ EndReplace \/ SellFilled
             \/ (\E s \in Symbols : TrailStop(s))
    PROVE  GttInv'
<1>0. /\ ~ReloadsTriggers /\ "none" \notin Symbols
      /\ ProcessInv /\ ExchangeInv /\ HandInv /\ TypeOK /\ mon \in Monitor
    BY ConstantTypes DEF Undisturbed, GttInv, ShapeInv, TypeOK
<1>1. up
    BY <1>0, AtWorkMeansUp
    DEF Tick, BeginTrailing, EndCycle, EndReconcile, EndReplace, SellFilled, TrailStop
<1>2. UNCHANGED <<up, position, triggers, approval, dbVars, nextGtt, histVars>>
    BY <1>0
    DEF Tick, BeginTrailing, EndCycle, EndReconcile, EndReplace, SellFilled, TrailStop, exchangeVars
<1>3. \A g \in GttIds : /\ gtts'[g].sym = gtts[g].sym
                        /\ gtts'[g].entry = gtts[g].entry
                        /\ gtts'[g].st = gtts[g].st
                        /\ gtts[g].st # "active" => gtts'[g] = gtts[g]
    <2>1. CASE UNCHANGED gtts
        BY <2>1
    <2>2. ASSUME NEW s \in Symbols, gtts[triggers[s].gid].st = "active",
                 gtts' = [gtts EXCEPT ![triggers[s].gid].stop = TrailingStop(triggers[s])],
                 NEW g \in GttIds
          PROVE  /\ gtts'[g].sym = gtts[g].sym
                 /\ gtts'[g].entry = gtts[g].entry
                 /\ gtts'[g].st = gtts[g].st
                 /\ gtts[g].st # "active" => gtts'[g] = gtts[g]
        <3>1. gtts[g] \in Gtt /\ gtts \in [GttIds -> Gtt]
            BY <1>0 DEF TypeOK
        <3>2. CASE g = triggers[s].gid
            <4>1. gtts'[g] = [gtts[g] EXCEPT !.stop = TrailingStop(triggers[s])]
                BY <2>2, <3>1, <3>2
            <4> QED
                BY <2>2, <3>1, <3>2, <4>1 DEF Gtt
        <3>3. CASE g # triggers[s].gid
            BY <2>2, <3>1, <3>3
        <3> QED
            BY <3>2, <3>3
    <2>3. \/ UNCHANGED gtts
          \/ \E s \in Symbols :
                 /\ gtts[triggers[s].gid].st = "active"
                 /\ gtts' = [gtts EXCEPT ![triggers[s].gid].stop = TrailingStop(triggers[s])]
        BY DEF Tick, BeginTrailing, EndCycle, EndReconcile, EndReplace, SellFilled, TrailStop,
            exchangeVars
    <2> QED
        BY <2>1, <2>2, <2>3
<1>4. \A s \in Symbols : SameOrders(s)
    BY <1>2, <1>3 DEF SameOrders, histVars
<1>5. ExchangeInv'
    BY <1>0, <1>2, <1>3 DEF ExchangeInv, histVars, NoGtt
<1>6. /\ mon' \in Monitor /\ HandInv'
    BY DEF ShapeInv, TypeOK
<1>7. /\ mon'.exits = mon.exits
      /\ mon'.pc \in {"sell", "sold"} <=> mon.pc \in {"sell", "sold"}
      /\ mon'.pc \in {"sell", "sold"} => mon'.sym = mon.sym
      /\ mon.pc # "cancel" /\ mon'.pc # "cancel"
      /\ mon'.pc \in {"idle", "reconcile", "replace", "poll", "trail", "modified"}
            => mon.exits = {}
      /\ mon'.pc # "reconcile"
      /\ mon.pc = "reconcile" => mon.todo = {}
      /\ mon.pc = "replace" => approval = NoApproval
      /\ mon'.pc = "replace" =>
             /\ approval = NoApproval
             /\ \A s \in mon'.todo : triggers[s].active /\ triggers[s].gid = 0
      /\ \A s \in Symbols : s = mon'.sym => AtWork(s)
    <2>1. CASE Tick
        BY <1>0, <2>1 DEF Tick, Monitor, HandInv, ProcessInv
    <2>2. CASE BeginTrailing
        BY <1>0, <2>2 DEF BeginTrailing, Monitor, HandInv
    <2>3. CASE EndCycle \/ EndReplace
        <3>1. /\ mon' = Resting /\ mon.pc \in {"trail", "replace"}
              /\ mon.pc = "replace" => approval.stage = "idle"
            BY <2>3 DEF EndCycle, EndReplace
        <3> QED
            BY <1>0, <3>1 DEF Resting, ProcessInv
    <2>6. CASE EndReconcile
        <3> DEFINE S == {s \in ActiveTriggers(triggers) : triggers[s].gid = 0}
        <3>1. /\ mon' = [mon EXCEPT !.pc = "replace", !.todo = S]
              /\ mon.pc = "reconcile" /\ mon.todo = {}
              /\ \A s \in S : triggers[s].active /\ triggers[s].gid = 0
            BY <2>6 DEF EndReconcile, ActiveTriggers
        <3> HIDE DEF S
        <3>2. mon'.pc = "replace" /\ mon'.todo = S /\ mon'.exits = mon.exits /\ mon'.sym = mon.sym
            BY <1>0, <3>1 DEF Monitor
        <3> QED
            BY <1>0, <3>1, <3>2 DEF ProcessInv, HandInv
    <2>4. CASE SellFilled
        BY <1>0, <2>4 DEF SellFilled, Monitor, AtWork
    <2>5. ASSUME NEW s \in Symbols, TrailStop(s)
          PROVE  /\ mon.pc = "trail" /\ mon'.exits = mon.exits /\ mon'.pc \in {"trail", "modified"}
                 /\ \A x \in Symbols : x = mon'.sym => AtWork(x)
        <3>1. /\ mon.pc = "trail"
              /\ mon' = [mon EXCEPT !.todo = @ \ {s}]
                   \/ /\ mon' = [[mon EXCEPT !.todo = @ \ {s}] EXCEPT !.pc = "modified",
                                                                      !.sym = s]
                      /\ triggers[s].active
            BY <2>5 DEF TrailStop
        <3> QED
            BY <1>0, <3>1 DEF Monitor, HandInv, AtWork
    <2> QED
        BY <1>0, <2>1, <2>2, <2>3, <2>4, <2>5, <2>6 DEF ProcessInv
<1>8. \A s \in Symbols : SameHand(s)
    BY <1>0, <1>7 DEF SameHand, Busy, Unreconciled, Unreplaced, NoApproval
<1>9. ProcessInv'
    BY <1>0, <1>1, <1>2, <1>7 DEF ProcessInv, dbVars
<1> QED
    BY <1>2, <1>4, <1>5, <1>8, <1>9, QuietStep DEF dbVars, histVars

\* A step that is about one symbol.
LEMMA OneSymbol ==
    ASSUME GttInv, ShapeInv', ProcessInv', ExchangeInv',
           up' = up, nextGtt' >= nextGtt, abandoned \subseteq abandoned',
           NEW s \in Symbols, SymbolInv(s)',
           \A x \in Symbols \ {s} : SameHand(x) /\ SameOrders(x) /\ SameBooks(x)
    PROVE  GttInv'
<1>1. TypeOK /\ TypeOK'
    BY DEF GttInv, ShapeInv
<1>2. ASSUME NEW x \in Symbols, x # s
      PROVE  SymbolInv(x)'
    <2>1. SymbolInv(x) /\ SameHand(x) /\ SameOrders(x) /\ SameBooks(x)
        BY <1>2 DEF GttInv
    <2> QED
        BY <1>1, <2>1, UntouchedSymbol
<1> QED
    BY <1>2 DEF GttInv

\* A symbol that is bought has no live order: its last one went with its position.
LEMMA GttApprove ==
    ASSUME Undisturbed, GttInv, ShapeInv',
           NEW s \in Symbols, NEW sig \in Signals, Approve(s, sig)
    PROVE  GttInv'
<1>0. /\ TypeOK /\ ProcessInv /\ ExchangeInv /\ SymbolInv(s) /\ HandInv
      /\ "none" \notin Symbols /\ nextEntry \in Nat /\ nextEntry # 0 /\ nextGtt \in Nat
    BY ConstantTypes, IdTypes DEF GttInv, ShapeInv, TypeOK
<1>1. /\ up /\ mon.pc # "reconcile" /\ mon.pc # "replace" /\ position[s] = 0 /\ ~AtWork(s)
      /\ approval = NoApproval
      /\ position' = [position EXCEPT ![s] = nextEntry]
      /\ dbPosition' = [dbPosition EXCEPT ![s] = nextEntry]
      /\ approval' = [NoApproval EXCEPT !.stage = "place", !.sym = s,
                                        !.entry = nextEntry, !.sig = sig]
      /\ UNCHANGED <<up, triggers, mon, dbTriggers, gtts, nextGtt, histVars>>
    BY <1>0 DEF Approve, Undisturbed, ProcessInv
<1>2. /\ approval.sym = "none" /\ approval.gid = 0 /\ approval.stage = "idle"
      /\ approval'.stage = "place" /\ approval'.sym = s /\ approval'.entry = nextEntry
      /\ approval'.gid = 0
    BY <1>1 DEF NoApproval
<1>3. position'[s] = nextEntry
    BY <1>0, <1>1 DEF TypeOK
<1>4. Live(s) = {} /\ Live(s)' = Live(s)
    <2>1. Book = position /\ s \notin Busy({"cancel"})
        BY <1>1 DEF Book, Busy, AtWork
    <2>2. Live(s) = {}
        BY <1>0, <1>1, <2>1 DEF SymbolInv, LiveInv
    <2> QED
        BY <1>1, <2>2 DEF Live, histVars
<1>5. SymbolInv(s)'
    <2>1. /\ IdInv(s) /\ WatchInv(s) /\ ~triggers[s].active
          /\ s \notin mon.exits /\ s # mon.sym
        BY <1>0, <1>1 DEF SymbolInv, AtWork
    <2>2. IdInv(s)'
        BY <1>1, <1>2, <2>1 DEF IdInv
    <2>3. BuyInv(s)'
        BY <1>0, <1>1, <1>2, <1>3, <1>4, <2>1 DEF BuyInv, AtWork
    <2>4. LiveInv(s)'
        BY <1>4 DEF LiveInv
    <2>5. WatchInv(s)'
        <3>1. dbPosition[s] = 0
            BY <1>0, <1>1 DEF ProcessInv
        <3> QED
            BY <1>1, <2>1, <3>1 DEF WatchInv, Exiting, Busy, Unreconciled, Unreplaced
    <2>6. GuardInv(s)'
        BY <1>1, <1>2 DEF GuardInv
    <2> QED
        BY <2>2, <2>3, <2>4, <2>5, <2>6 DEF SymbolInv
<1>6. ASSUME NEW x \in Symbols \ {s}
      PROVE  SameHand(x) /\ SameOrders(x) /\ SameBooks(x)
    <2>1. SameHand(x)
        BY <1>1 DEF SameHand, Busy, AtWork, Unreconciled, Unreplaced
    <2>2. SameOrders(x)
        BY <1>1 DEF SameOrders, histVars
    <2>3. SameBooks(x)
        BY <1>0, <1>1, <1>2 DEF SameBooks, TypeOK
    <2> QED
        BY <2>1, <2>2, <2>3
<1>7. ProcessInv'
    BY <1>0, <1>1, <1>2 DEF ProcessInv, TypeOK
<1>8. ExchangeInv'
    BY <1>0, <1>1 DEF ExchangeInv, histVars
<1> QED
    BY <1>0, <1>1, <1>5, <1>6, <1>7, <1>8, OneSymbol DEF histVars

\* A new order is the next one, and of no interest to another symbol.
LEMMA NewOrder ==
    ASSUME TypeOK, ExchangeInv, NEW s \in Symbols, NEW e \in Entries \cup {0},
           NEW sig \in Signals \cup {NoSignal}, NewGtt(s, e, sig),
           \A g \in GttIds \ {nextGtt} : gtts[g].sym # s => (g \in stray' <=> g \in stray)
    PROVE  /\ nextGtt \in GttIds /\ nextGtt' = nextGtt + 1 /\ nextGtt' >= nextGtt
           /\ gtts[nextGtt] = NoGtt /\ nextGtt \notin stray
           /\ gtts'[nextGtt].st = "active"
           /\ gtts'[nextGtt].sym = s
           /\ gtts'[nextGtt].entry = e
           /\ \A g \in GttIds \ {nextGtt} : gtts'[g] = gtts[g]
           /\ \A x \in Symbols \ {s} : SameOrders(x)
           /\ ExchangeInv'
<1>1. /\ nextGtt \in GttIds /\ nextGtt \in Nat /\ nextGtt' = nextGtt + 1
      /\ "none" \notin Symbols
    BY NewGttType, IdTypes, ConstantTypes DEF NewGtt
<1>2. gtts[nextGtt] = NoGtt /\ nextGtt \notin stray
    BY <1>1 DEF ExchangeInv
<1>3. /\ gtts'[nextGtt].st = "active"
      /\ gtts'[nextGtt].sym = s
      /\ gtts'[nextGtt].entry = e
      /\ \A g \in GttIds \ {nextGtt} : gtts'[g] = gtts[g]
    BY <1>1 DEF NewGtt, TypeOK
<1>4. ASSUME NEW x \in Symbols \ {s}
      PROVE  SameOrders(x)
    <2>1. gtts[nextGtt].sym = "none"
        BY <1>2 DEF NoGtt
    <2> QED
        BY <1>1, <1>3, <2>1 DEF SameOrders
<1>5. ExchangeInv'
    <2>1. ASSUME NEW g \in GttIds, g >= nextGtt'
          PROVE  gtts'[g] = NoGtt /\ g \notin stray'
        <3>1. g \in Nat /\ g # nextGtt /\ g >= nextGtt
            BY <1>1, <2>1 DEF GttIds
        <3>2. gtts[g] = NoGtt /\ g \notin stray /\ gtts[g].sym # s
            BY <1>1, <3>1 DEF ExchangeInv, NoGtt
        <3> QED
            BY <1>3, <3>1, <3>2
    <2>2. ASSUME NEW g \in GttIds, gtts'[g].st = "active"
          PROVE  gtts'[g].sym \in Symbols
        BY <1>3, <2>2 DEF ExchangeInv
    <2> QED
        BY <2>1, <2>2 DEF ExchangeInv
<1>6. nextGtt' >= nextGtt
    BY <1>1
<1> QED
    BY <1>1, <1>2, <1>3, <1>4, <1>5, <1>6, Zenon

\* A placed order is the approval's, or cut loose.
LEMMA GttPlace ==
    ASSUME GttInv, ShapeInv', PlaceGtt, NEW s \in Symbols, approval.sym = s
    PROVE  GttInv'
<1>0. /\ TypeOK /\ ProcessInv /\ ExchangeInv /\ approval \in Approval
      /\ approval.stage = "place" /\ approval.gid = 0
      /\ SymbolInv(s) /\ nextGtt \in Nat /\ GttIds \subseteq Nat /\ 0 \notin GttIds
    BY IdTypes DEF GttInv, ShapeInv, TypeOK, PlaceGtt, ProcessInv, GttIds
<1>1. /\ up /\ mon.pc # "reconcile"
    BY <1>0, AtWorkMeansUp DEF ProcessInv, NoApproval
<1>2. UNCHANGED <<up, position, triggers, mon, dbVars, abandoned>>
    BY DEF PlaceGtt
<1>3. /\ approval'.sym = s /\ approval'.entry = approval.entry
      /\ approval'.stage \in {"place", "install"}
      /\ approval'.gid = 0 \/ approval'.gid = nextGtt
      /\ approval'.stage = "place" => approval'.gid = 0
    BY <1>0 DEF PlaceGtt, Retry, Approval
<1>4. /\ IdInv(s) /\ BuyInv(s) /\ WatchInv(s) /\ Live(s) = {}
    BY <1>0 DEF SymbolInv, BuyInv, Live
<1>5. /\ triggers[s].gid \in GttIds \cup {0} /\ dbTriggers[s].gid \in GttIds \cup {0}
    BY <1>0, IdTypes
<1>6. GuardInv(s)'
    <2>1. GuardInv(s) /\ Book' = Book /\ Guards' = Guards
        BY <1>0, <1>2 DEF SymbolInv, Book, Guards, Loaded, dbVars
    <2> QED
        BY <1>2, <1>3, <2>1 DEF GuardInv, Busy
<1>7. ProcessInv'
    BY <1>0, <1>1, <1>2, <1>3 DEF ProcessInv, dbVars
<1>8. \A x \in Symbols \ {s} : SameHand(x) /\ SameBooks(x)
    BY <1>2, <1>3 DEF SameHand, SameBooks, Busy, AtWork, Unreconciled, Unreplaced, dbVars
<1>9. CASE UNCHANGED <<gtts, nextGtt, stray>> /\ approval'.gid = 0
    <2>1. SymbolInv(s)'
        <3>1. Live(s)' = {}
            BY <1>4, <1>9 DEF Live
        <3>2. IdInv(s)'
            BY <1>2, <1>4, <1>9 DEF IdInv, dbVars
        <3>3. BuyInv(s)'
            BY <1>2, <1>3, <1>4, <1>9, <3>1 DEF BuyInv, AtWork
        <3>4. LiveInv(s)'
            BY <3>1 DEF LiveInv
        <3>5. WatchInv(s)'
            BY <1>2, <1>3, <1>4, <1>9 DEF WatchInv, Exiting, Busy, Unreconciled, Unreplaced, dbVars
        <3> QED
            BY <1>6, <3>2, <3>3, <3>4, <3>5 DEF SymbolInv
    <2>2. ExchangeInv' /\ \A x \in Symbols : SameOrders(x)
        BY <1>0, <1>9 DEF ExchangeInv, SameOrders
    <2> QED
        BY <1>0, <1>2, <1>7, <1>8, <1>9, <2>1, <2>2, OneSymbol
<1>10. CASE /\ NewGtt(s, approval.entry, approval.sig)
            /\ \/ approval'.gid = nextGtt /\ UNCHANGED stray
               \/ approval'.gid = 0 /\ stray' = stray \cup {nextGtt}
    <2>1. /\ nextGtt \in GttIds /\ nextGtt' = nextGtt + 1 /\ nextGtt' >= nextGtt
          /\ gtts[nextGtt] = NoGtt /\ nextGtt \notin stray
          /\ gtts'[nextGtt].st = "active"
          /\ gtts'[nextGtt].sym = s
          /\ gtts'[nextGtt].entry = approval.entry
          /\ \A g \in GttIds \ {nextGtt} : gtts'[g] = gtts[g]
          /\ \A x \in Symbols \ {s} : SameOrders(x)
          /\ ExchangeInv'
        <3>1. approval.entry \in Entries \cup {0} /\ approval.sig \in Signals \cup {NoSignal}
            BY <1>0 DEF Approval
        <3> QED
            BY <1>0, <1>10, <3>1, NewOrder
    <2>2. Live(s)' \subseteq {nextGtt} /\ \A g \in Live(s)' : approval'.gid = nextGtt
        BY <1>4, <1>10, <2>1 DEF Live
    <2>3. /\ triggers[s].gid # nextGtt /\ dbTriggers[s].gid # nextGtt
          /\ triggers[s].gid # 0 => gtts'[triggers[s].gid] = gtts[triggers[s].gid]
          /\ dbTriggers[s].gid # 0 => gtts'[dbTriggers[s].gid] = gtts[dbTriggers[s].gid]
        <3>1. triggers[s].gid # nextGtt /\ dbTriggers[s].gid # nextGtt
            BY <1>0, <1>4, <1>5, <2>1 DEF IdInv
        <3>2. \A g \in GttIds \ {nextGtt} : gtts'[g] = gtts[g]
            BY <2>1
        <3>4. /\ triggers[s].gid # 0 => triggers[s].gid \in GttIds \ {nextGtt}
              /\ dbTriggers[s].gid # 0 => dbTriggers[s].gid \in GttIds \ {nextGtt}
            BY <1>5, <3>1
        <3> QED
            BY <3>1, <3>2, <3>4
    <2>4. IdInv(s)'
        <3>1. \A g \in Nat : g < nextGtt => g < nextGtt'
            BY <1>0, <2>1
        <3>2. /\ triggers[s].gid # 0 => triggers[s].gid < nextGtt' /\ gtts'[triggers[s].gid].sym = s
              /\ dbTriggers[s].gid # 0 =>
                     dbTriggers[s].gid < nextGtt' /\ gtts'[dbTriggers[s].gid].sym = s
            BY <1>0, <1>4, <1>5, <2>3, <3>1 DEF IdInv
        <3>3. approval'.gid # 0 => approval'.gid < nextGtt' /\ gtts'[approval'.gid].sym = s
            BY <1>0, <1>3, <2>1
        <3> QED
            BY <1>2, <3>2, <3>3 DEF IdInv, dbVars
    <2>5. BuyInv(s)'
        BY <1>0, <1>2, <1>3, <1>4, <1>10, <2>1, <2>2, <2>3 DEF BuyInv, AtWork, dbVars
    <2>6. LiveInv(s)'
        <3>1. Book'[s] = approval.entry /\ approval.entry # 0
            BY <1>1, <1>2, <1>4 DEF BuyInv, Book
        <3> QED
            BY <1>3, <2>1, <2>2, <3>1 DEF LiveInv
    <2>7. WatchInv(s)'
        BY <1>2, <1>3, <1>4, <2>3 DEF WatchInv, Exiting, Busy, Unreconciled, Unreplaced, dbVars
    <2> QED
        BY <1>0, <1>2, <1>6, <1>7, <1>8, <2>1, <2>4, <2>5, <2>6, <2>7, OneSymbol DEF SymbolInv
<1> QED
    <2>1. \/ UNCHANGED <<gtts, nextGtt, stray>> /\ approval' = Retry
          \/ /\ NewGtt(s, approval.entry, approval.sig)
             /\ \/ approval' = [approval EXCEPT !.stage = "install", !.gid = nextGtt]
                   /\ UNCHANGED stray
                \/ approval' = Retry /\ stray' = stray \cup {nextGtt}
        BY DEF PlaceGtt
    <2>2. /\ Retry.gid = 0
          /\ [approval EXCEPT !.stage = "install", !.gid = nextGtt].gid = nextGtt
        BY <1>0 DEF Retry, Approval
    <2> QED
        BY <1>9, <1>10, <2>1, <2>2

\* The trigger takes over from the approval.
LEMMA GttInstall ==
    ASSUME GttInv, ShapeInv', InstallTrigger, NEW s \in Symbols, approval.sym = s
    PROVE  GttInv'
<1> DEFINE t == TriggerOf(approval)
<1>0. /\ TypeOK /\ ProcessInv /\ ExchangeInv /\ approval \in Approval
      /\ approval.stage = "install" /\ SymbolInv(s) /\ "none" \notin Symbols
    BY ConstantTypes DEF GttInv, ShapeInv, TypeOK, InstallTrigger
<1>1. /\ up /\ mon.pc # "reconcile" /\ mon.pc # "replace"
    BY <1>0, AtWorkMeansUp DEF ProcessInv, NoApproval, InstallTrigger
<1>2. /\ triggers' = [triggers EXCEPT ![s] = t]
      /\ dbTriggers' = [dbTriggers EXCEPT ![s] = t]
      /\ approval' = NoApproval
      /\ UNCHANGED <<up, position, mon, dbPosition, gtts, nextGtt, stray, abandoned>>
    BY <1>0 DEF InstallTrigger, NewTrigger, exchangeVars, histVars
<1>3. /\ t.entry = approval.entry /\ t.active
      /\ t.gid = approval.gid
      /\ t.gid # 0 => t.gst = "active"
    BY DEF TriggerOf
<1>4. triggers'[s] = t /\ dbTriggers'[s] = t /\ approval'.sym = "none"
    BY <1>0, <1>2 DEF TypeOK, NoApproval
<1> HIDE DEF t
<1>5. /\ IdInv(s) /\ BuyInv(s) /\ LiveInv(s) /\ ~AtWork(s)
      /\ position[s] = approval.entry /\ dbPosition = position /\ approval.entry # 0
      /\ \A g \in Live(s) : g = approval.gid /\ g \in GttIds
      /\ Live(s)' = Live(s)
      /\ approval.gid \in GttIds \cup {0} /\ 0 \notin GttIds
    BY <1>0, <1>1, <1>2, IdTypes DEF SymbolInv, BuyInv, Live, GttIds, ProcessInv
<1>6. s \notin mon.exits /\ s # mon.sym /\ Book = position /\ Book' = position
    BY <1>1, <1>2, <1>5 DEF AtWork, Book
<1>7. IdInv(s)'
    BY <1>0, <1>2, <1>3, <1>4, <1>5 DEF IdInv
<1>8. BuyInv(s)'
    BY <1>0, <1>4 DEF BuyInv
<1>9. LiveInv(s)'
    <2>1. ASSUME NEW g \in Live(s)
          PROVE  /\ \A h \in Live(s) : g = h
                 /\ gtts[g].entry # 0
                 /\ position[s] = gtts[g].entry \/ s \in Busy({"cancel"})
                 /\ t.gid = g /\ t.gst = "active"
        BY <1>3, <1>5, <1>6 DEF LiveInv
    <2> QED
        BY <1>2, <1>4, <1>5, <1>6, <2>1 DEF LiveInv, Busy
<1>10. WatchInv(s)'
    <2>1. ~Exiting(s)' /\ ~Unreconciled(s)' /\ ~Unreplaced(s)'
        BY <1>1, <1>2, <1>6 DEF Exiting, Busy, Unreconciled, Unreplaced
    <2>2. t.gid # 0 => gtts[t.gid].entry = position[s]
        BY <1>0, <1>3, <1>5 DEF BuyInv
    <2> QED
        BY <1>2, <1>3, <1>4, <1>5, <2>1, <2>2 DEF WatchInv
<1>11. GuardInv(s)'
    BY <1>1, <1>2, <1>3, <1>4, <1>5, <1>6 DEF GuardInv, Guards
<1>12. \A x \in Symbols \ {s} : SameHand(x) /\ SameOrders(x) /\ SameBooks(x)
    <2> TAKE x \in Symbols \ {s}
    <2>1. SameHand(x)
        BY <1>0, <1>2 DEF SameHand, Busy, AtWork, Unreconciled, Unreplaced
    <2>2. SameOrders(x)
        BY <1>2 DEF SameOrders
    <2>3. SameBooks(x)
        BY <1>0, <1>2, <1>4 DEF SameBooks, TypeOK
    <2> QED
        BY <2>1, <2>2, <2>3
<1>13. ProcessInv'
    BY <1>0, <1>1, <1>2 DEF ProcessInv, NoApproval
<1>14. ExchangeInv' /\ nextGtt' >= nextGtt
    BY <1>0, <1>2, IdTypes DEF ExchangeInv
<1> QED
    BY <1>2, <1>7, <1>8, <1>9, <1>10, <1>11, <1>12, <1>13, <1>14, OneSymbol DEF SymbolInv

\* The monitor reads the status of one order.
LEMMA GttPoll ==
    ASSUME GttInv, ShapeInv', NEW s \in Symbols, PollGtt(s)
    PROVE  GttInv'
<1> DEFINE t == triggers[s]
           next == [mon EXCEPT !.todo = @ \ {s}]
           watched == t.active /\ t.gid # 0 /\ t.gst = "active"
<1>0. /\ TypeOK /\ ProcessInv /\ ExchangeInv /\ HandInv /\ mon \in Monitor
      /\ SymbolInv(s) /\ "none" \notin Symbols /\ t \in Trigger
      /\ mon.pc = "poll"
    BY ConstantTypes DEF GttInv, ShapeInv, TypeOK, PollGtt
<1>1. /\ up /\ mon.exits = {} /\ mon.sym = "none"
      /\ t.gid \in GttIds \cup {0}
    BY <1>0, AtWorkMeansUp, IdTypes DEF ProcessInv, HandInv
<1>2. UNCHANGED <<up, approval, gtts, nextGtt, stray, abandoned>>
    BY DEF PollGtt, exchangeVars, histVars
<1>3. next.pc = "poll" /\ next.exits = {} /\ next.sym = "none"
    BY <1>0, <1>1 DEF Monitor
<1>4. mon' \in {next, Resting}
    BY DEF PollGtt, GttExit
<1>5. mon'.pc \in {"poll", "idle"} /\ mon'.exits = {} /\ mon'.sym = "none"
    <2>1. CASE mon' = next
        BY <1>3, <2>1
    <2>2. CASE mon' = Resting
        BY <2>2 DEF Resting
    <2> QED
        BY <1>4, <2>1, <2>2
<1>6. \A x \in Symbols : SameHand(x) /\ SameOrders(x)
    <2> TAKE x \in Symbols
    <2>1. SameHand(x)
        BY <1>0, <1>1, <1>5 DEF SameHand, Busy, Unreconciled, Unreplaced
    <2>2. SameOrders(x)
        BY <1>2 DEF SameOrders
    <2> QED
        BY <2>1, <2>2
<1>7. ExchangeInv' /\ nextGtt' >= nextGtt
    BY <1>0, <1>2, IdTypes DEF ExchangeInv
<1>8. /\ IdInv(s) /\ BuyInv(s) /\ LiveInv(s) /\ WatchInv(s) /\ GuardInv(s)
      /\ Book = position
    BY <1>0, <1>1 DEF SymbolInv, Book
<1>9. CASE UNCHANGED <<position, triggers, dbPosition, dbTriggers>>
    <2>1. ProcessInv'
        BY <1>0, <1>1, <1>2, <1>5, <1>9 DEF ProcessInv
    <2> QED
        BY <1>2, <1>6, <1>7, <1>9, <2>1, QuietStep
<1>10. ASSUME watched, gtts[t.gid].st # "active"
       PROVE  Live(s) = {} /\ Live(s)' = {}
    <2>1. AtWork(s) /\ approval.sym # s
        BY <1>0, <1>8, <1>10 DEF AtWork, BuyInv
    <2>2. Live(s) = {}
        BY <1>8, <1>10, <2>1 DEF LiveInv, Live
    <2> QED
        BY <1>2, <2>2 DEF Live
<1>11. ASSUME watched, NEW x \in GttGone, gtts[t.gid].st = x,
              triggers' = [triggers EXCEPT ![s].gst = x],
              UNCHANGED <<position, dbPosition, dbTriggers>>
       PROVE  GttInv'
    <2>1. /\ triggers'[s].active = t.active /\ triggers'[s].gid = t.gid
          /\ triggers'[s].entry = t.entry /\ triggers'[s].gst = x
          /\ x \notin {"active", "triggered"}
        BY <1>0, <1>11 DEF TypeOK, Trigger, GttGone
    <2>2. Live(s)' = {}
        BY <1>10, <1>11, <2>1
    <2>3. SymbolInv(s)'
        <3>1. IdInv(s)'
            BY <1>2, <1>8, <1>11, <2>1 DEF IdInv
        <3>2. BuyInv(s)'
            BY <1>2, <1>8, <1>11 DEF BuyInv, AtWork
        <3>3. LiveInv(s)'
            BY <2>2 DEF LiveInv
        <3>4. WatchInv(s)'
            <4>1. ~Exiting(s)' /\ ~Unreconciled(s)' /\ ~Unreplaced(s)'
                BY <1>0, <1>5 DEF Exiting, Busy, Unreconciled, Unreplaced
            <4>2. dbTriggers'[s] = dbTriggers[s] /\ gtts' = gtts /\ dbPosition' = dbPosition
                BY <1>2, <1>11
            <4>3. triggers'[s].gst # "active"
                BY <2>1
            <4> QED
                BY <1>8, <2>1, <4>1, <4>2, <4>3 DEF WatchInv
        <3>5. GuardInv(s)'
            <4>1. position[s] # 0 /\ position[s] \notin abandoned =>
                      t.active /\ t.entry = position[s]
                BY <1>0, <1>1, <1>8, <1>11 DEF GuardInv, Busy, Guards, BuyInv, AtWork
            <4>2. Book'[s] = position[s] /\ Guards' = triggers'
                BY <1>1, <1>2, <1>11 DEF Book, Guards
            <4> QED
                BY <1>2, <2>1, <4>1, <4>2 DEF GuardInv
        <3> QED
            BY <3>1, <3>2, <3>3, <3>4, <3>5 DEF SymbolInv
    <2>4. ASSUME NEW y \in Symbols \ {s}
          PROVE  SameBooks(y)
        BY <1>0, <1>2, <1>11 DEF SameBooks, TypeOK
    <2>5. ProcessInv'
        BY <1>0, <1>1, <1>2, <1>5, <1>11 DEF ProcessInv
    <2> QED
        BY <1>2, <1>6, <1>7, <2>3, <2>4, <2>5, OneSymbol
<1>12. ASSUME watched, gtts[t.gid].st = "triggered", GttExit(s)
       PROVE  GttInv'
    <2>1. /\ ~triggers'[s].active /\ triggers'[s].gid = t.gid
          /\ dbTriggers'[s].gid = dbTriggers[s].gid
          /\ dbTriggers'[s].active => dbTriggers'[s] = dbTriggers[s]
          /\ position'[s] = 0
          /\ \A y \in Symbols \ {s} : /\ triggers'[y] = triggers[y]
                                      /\ dbTriggers'[y] = dbTriggers[y]
                                      /\ position'[y] = position[y]
                                      /\ dbPosition'[y] = dbPosition[y]
        BY <1>0, <1>12 DEF GttExit, TypeOK, Trigger
    <2>2. Live(s)' = {}
        BY <1>10, <1>12
    <2>3. SymbolInv(s)'
        <3>1. IdInv(s)'
            BY <1>2, <1>8, <2>1 DEF IdInv
        <3>2. BuyInv(s)'
            BY <1>2, <1>8, <1>12 DEF BuyInv, AtWork
        <3>3. LiveInv(s)'
            BY <2>2 DEF LiveInv
        <3>4. WatchInv(s)'
            BY <1>2, <1>5, <1>8, <1>12, <2>1
            DEF WatchInv, Exiting, Busy, Unreconciled, Unreplaced
        <3>5. GuardInv(s)'
            BY <1>1, <1>2, <2>1 DEF GuardInv, Book
        <3> QED
            BY <3>1, <3>2, <3>3, <3>4, <3>5 DEF SymbolInv
    <2>4. ASSUME NEW y \in Symbols \ {s}
          PROVE  SameBooks(y)
        BY <1>2, <2>1 DEF SameBooks
    <2>5. position' = dbPosition'
        BY <1>0, <1>1, <1>12 DEF GttExit, ProcessInv
    <2>6. ProcessInv'
        BY <1>0, <1>1, <1>2, <1>5, <2>5 DEF ProcessInv
    <2> QED
        BY <1>2, <1>6, <1>7, <2>3, <2>4, <2>6, OneSymbol
<1> QED
    BY <1>9, <1>11, <1>12 DEF PollGtt, GttAnswer

\* A deactivated trigger: its order is cancelled or cut loose.
LEMMA DeactivateEffect ==
    ASSUME TypeOK, ExchangeInv, NEW s \in Symbols, IdInv(s), Deactivate(s), nextGtt' = nextGtt
    PROVE  /\ ~triggers'[s].active /\ triggers'[s].gid = triggers[s].gid
           /\ ~dbTriggers'[s].active /\ dbTriggers'[s].gid = dbTriggers[s].gid
           /\ \A x \in Symbols \ {s} : /\ triggers'[x] = triggers[x]
                                       /\ dbTriggers'[x] = dbTriggers[x]
           /\ \A g \in GttIds : /\ gtts'[g].sym = gtts[g].sym
                                /\ gtts'[g].entry = gtts[g].entry
                                /\ gtts'[g].st = "active" => gtts[g].st = "active"
                                /\ g \in stray => g \in stray'
           /\ triggers[s].gid # 0 /\ triggers[s].gst = "active" =>
                  gtts'[triggers[s].gid].st # "active" \/ triggers[s].gid \in stray'
           /\ \A x \in Symbols \ {s} : SameOrders(x)
           /\ ExchangeInv'
<1> DEFINE t == triggers[s]
<1>1. /\ t \in Trigger /\ t.gid \in GttIds \cup {0} /\ dbTriggers[s] \in Trigger
      /\ GttIds \subseteq Nat /\ nextGtt \in Nat /\ "none" \notin Symbols
    BY IdTypes, ConstantTypes DEF TypeOK, GttIds
<1>2. /\ ~triggers'[s].active /\ triggers'[s].gid = triggers[s].gid
      /\ ~dbTriggers'[s].active /\ dbTriggers'[s].gid = dbTriggers[s].gid
      /\ \A x \in Symbols \ {s} : /\ triggers'[x] = triggers[x]
                                  /\ dbTriggers'[x] = dbTriggers[x]
    BY <1>1 DEF Deactivate, TypeOK, Trigger
<1>3. CASE UNCHANGED <<gtts, stray>> /\ ~(t.gid # 0 /\ t.gst = "active")
    <2>1. \A x \in Symbols : SameOrders(x)
        BY <1>3 DEF SameOrders
    <2>2. ExchangeInv'
        BY <1>3 DEF ExchangeInv
    <2> QED
        BY <1>2, <1>3, <2>1, <2>2
<1>4. CASE t.gid # 0 /\ DeleteGtt(t.gid)
    <2>1. t.gid \in GttIds /\ t.gid < nextGtt /\ gtts[t.gid].sym = s
        BY <1>1, <1>4 DEF IdInv
    <2>2. /\ \A g \in GttIds \ {t.gid} : gtts'[g] = gtts[g] /\ (g \in stray' <=> g \in stray)
          /\ gtts'[t.gid].sym = s /\ gtts'[t.gid].entry = gtts[t.gid].entry
          /\ t.gid \in stray => t.gid \in stray'
          /\ gtts'[t.gid].st = "active" => gtts[t.gid].st = "active" /\ t.gid \in stray'
        BY <1>4, <2>1 DEF DeleteGtt, TypeOK, Gtt
    <2>3. \A x \in Symbols \ {s} : SameOrders(x)
        BY <2>1, <2>2 DEF SameOrders
    <2>4. ExchangeInv'
        BY <1>1, <2>1, <2>2 DEF ExchangeInv
    <2> QED
        BY <1>2, <2>1, <2>2, <2>3, <2>4
<1> QED
    BY <1>3, <1>4 DEF Deactivate

\* With no live order left and its trigger at rest, little is owed to a symbol.
LEMMA RestingSymbol ==
    ASSUME NEW s \in Symbols, IdInv(s)', approval'.sym # s, Live(s)' = {},
           ~triggers'[s].active, ~dbTriggers'[s].active, ~Unreconciled(s)', ~Unreplaced(s)',
           GuardInv(s)'
    PROVE  SymbolInv(s)'
BY DEF SymbolInv, BuyInv, LiveInv, WatchInv

\* A due position is sent for sale; one that is gone has its trigger deactivated.
LEMMA GttBeginExit ==
    ASSUME GttInv, ShapeInv', NEW s \in Symbols, BeginExit(s)
    PROVE  GttInv'
<1>0. /\ TypeOK /\ ProcessInv /\ ExchangeInv /\ HandInv /\ mon \in Monitor
      /\ SymbolInv(s) /\ "none" \notin Symbols
      /\ mon.pc = "exit" /\ s \in mon.exits
    BY ConstantTypes DEF GttInv, ShapeInv, TypeOK, BeginExit
<1>1. /\ up /\ mon.sym = "none" /\ AtWork(s) /\ Exiting(s)
      /\ IdInv(s) /\ BuyInv(s) /\ LiveInv(s) /\ WatchInv(s)
      /\ approval.sym # s
    BY <1>0, AtWorkMeansUp DEF HandInv, AtWork, Exiting, SymbolInv, BuyInv
<1>2. UNCHANGED <<up, position, approval, dbPosition, nextGtt, abandoned>>
    BY DEF BeginExit
<1>3. nextGtt' >= nextGtt
    BY <1>0, <1>2, IdTypes
<1>4. CASE /\ position[s] = 0
           /\ Deactivate(s)
           /\ mon' = [mon EXCEPT !.exits = @ \ {s}]
    <2>1. /\ mon'.pc = "exit" /\ mon'.sym = "none" /\ mon'.exits = mon.exits \ {s}
          /\ mon'.todo = mon.todo
        BY <1>0, <1>1, <1>4 DEF Monitor
    <2>2. /\ ~triggers'[s].active /\ triggers'[s].gid = triggers[s].gid
          /\ ~dbTriggers'[s].active /\ dbTriggers'[s].gid = dbTriggers[s].gid
          /\ \A x \in Symbols \ {s} : /\ triggers'[x] = triggers[x]
                                      /\ dbTriggers'[x] = dbTriggers[x]
          /\ \A g \in GttIds : /\ gtts'[g].sym = gtts[g].sym
                               /\ gtts'[g].entry = gtts[g].entry
                               /\ gtts'[g].st = "active" => gtts[g].st = "active"
                               /\ g \in stray => g \in stray'
          /\ \A x \in Symbols \ {s} : SameOrders(x)
          /\ ExchangeInv'
        BY <1>0, <1>1, <1>2, <1>4, DeactivateEffect
    <2>3. Live(s)' = {}
        <3>1. Live(s) = {}
            <4>1. Book[s] = 0 /\ s \notin Busy({"cancel"})
                BY <1>0, <1>1, <1>4 DEF Book, Busy
            <4> QED
                BY <1>1, <4>1 DEF LiveInv
        <3> QED
            BY <2>2, <3>1 DEF Live
    <2>4. SymbolInv(s)'
        <3>1. IdInv(s)'
            BY <1>0, <1>1, <1>2, <2>2, IdTypes DEF IdInv
        <3>2. GuardInv(s)' /\ ~Unreconciled(s)' /\ ~Unreplaced(s)' /\ approval'.sym # s
            BY <1>1, <1>2, <1>4, <2>1 DEF GuardInv, Book, Unreconciled, Unreplaced
        <3> QED
            BY <2>2, <2>3, <3>1, <3>2, RestingSymbol
    <2>5. ASSUME NEW x \in Symbols \ {s}
          PROVE  SameHand(x) /\ SameBooks(x)
        BY <1>0, <1>1, <1>2, <2>1, <2>2 DEF SameHand, SameBooks, Busy, Unreconciled, Unreplaced
    <2>6. ProcessInv'
        BY <1>0, <1>1, <1>2, <2>1 DEF ProcessInv
    <2> QED
        BY <1>2, <1>3, <2>2, <2>4, <2>5, <2>6, OneSymbol
<1>5. CASE /\ position[s] # 0
           /\ mon' = [mon EXCEPT !.pc = "sell", !.sym = s, !.exits = @ \ {s}]
           /\ UNCHANGED <<triggers, dbTriggers, gtts, stray>>
    <2>1. /\ mon'.pc = "sell" /\ mon'.sym = s /\ mon'.exits = mon.exits \ {s}
        BY <1>0, <1>5 DEF Monitor
    <2>2. \A x \in Symbols : SameOrders(x) /\ SameBooks(x)
        BY <1>2, <1>5 DEF SameOrders, SameBooks
    <2>3. SymbolInv(s)'
        <3>1. Live(s)' = Live(s) /\ AtWork(s)'
            BY <1>5, <2>1 DEF Live, AtWork
        <3>2. IdInv(s)' /\ BuyInv(s)'
            BY <1>1, <1>2, <1>5 DEF IdInv, BuyInv
        <3>3. LiveInv(s)'
            <4>1. Book' = Book /\ s \notin Busy({"cancel"})
                BY <1>0, <1>2 DEF Book, Busy
            <4> QED
                BY <1>1, <1>2, <1>5, <3>1, <4>1 DEF LiveInv
        <3>4. WatchInv(s)'
            BY <1>1, <1>5, <2>1 DEF WatchInv, Exiting, Unreconciled, Unreplaced
        <3>5. GuardInv(s)'
            BY <2>1 DEF GuardInv, Busy
        <3> QED
            BY <3>2, <3>3, <3>4, <3>5 DEF SymbolInv
    <2>4. ASSUME NEW x \in Symbols \ {s}
          PROVE  SameHand(x)
        BY <1>0, <1>1, <2>1 DEF SameHand, Busy, Unreconciled, Unreplaced
    <2>5. ProcessInv' /\ ExchangeInv'
        BY <1>0, <1>1, <1>2, <1>5, <2>1 DEF ProcessInv, ExchangeInv
    <2> QED
        BY <1>2, <1>3, <2>2, <2>3, <2>4, <2>5, OneSymbol
<1> QED
    BY <1>4, <1>5 DEF BeginExit

\* The exit order is refused: the position stays, and is known to be unguarded.
LEMMA GttRefused ==
    ASSUME GttInv, ShapeInv', SellRefused, NEW s \in Symbols, mon.sym = s
    PROVE  GttInv'
<1>0. /\ TypeOK /\ ProcessInv /\ ExchangeInv /\ mon \in Monitor
      /\ SymbolInv(s) /\ "none" \notin Symbols /\ mon.pc = "sell"
    BY ConstantTypes DEF GttInv, ShapeInv, TypeOK, SellRefused
<1>1. /\ up /\ AtWork(s) /\ Exiting(s)
      /\ IdInv(s) /\ BuyInv(s) /\ LiveInv(s) /\ WatchInv(s)
      /\ approval.sym # s
    BY <1>0, AtWorkMeansUp DEF AtWork, Exiting, SymbolInv, BuyInv, Busy
<1>2. /\ UNCHANGED <<up, position, triggers, approval, dbVars, exchangeVars, stray>>
      /\ abandoned' = abandoned \cup {position[s]}
    BY DEF SellRefused
<1>3. mon'.pc = "exit" /\ mon'.sym = "none" /\ mon'.exits = mon.exits
    BY <1>0 DEF SellRefused, Monitor
<1>4. \A x \in Symbols : SameOrders(x) /\ SameBooks(x)
    BY <1>2 DEF SameOrders, SameBooks, dbVars, exchangeVars
<1>5. SymbolInv(s)'
    <2>1. Live(s)' = Live(s) /\ Book' = Book
        BY <1>2 DEF Live, Book, dbVars, exchangeVars
    <2>2. s \notin Busy({"cancel"}) /\ (AtWork(s)' => AtWork(s)) /\ (Exiting(s)' => Exiting(s))
        BY <1>0, <1>1, <1>3 DEF Busy, Exiting
    <2>3. IdInv(s)' /\ BuyInv(s)'
        BY <1>1, <1>2 DEF IdInv, BuyInv, dbVars, exchangeVars
    <2>4. LiveInv(s)'
        BY <1>1, <1>2, <2>1, <2>2 DEF LiveInv, dbVars, exchangeVars
    <2>5. WatchInv(s)'
        BY <1>0, <1>1, <1>2, <1>3, <2>2 DEF WatchInv, Unreconciled, Unreplaced, dbVars, exchangeVars
    <2>6. GuardInv(s)'
        BY <1>1, <1>2 DEF GuardInv, Book
    <2> QED
        BY <2>3, <2>4, <2>5, <2>6 DEF SymbolInv
<1>6. ASSUME NEW x \in Symbols \ {s}
      PROVE  SameHand(x)
    BY <1>0, <1>3 DEF SameHand, Busy, Unreconciled, Unreplaced
<1>7. ProcessInv' /\ ExchangeInv' /\ nextGtt' >= nextGtt
    BY <1>0, <1>1, <1>2, <1>3, IdTypes DEF ProcessInv, ExchangeInv, dbVars, exchangeVars
<1> QED
    BY <1>2, <1>4, <1>5, <1>6, <1>7, OneSymbol

\* The sale is booked; the order of the position is still to be cancelled.
LEMMA GttBookSale ==
    ASSUME GttInv, ShapeInv', BookSale, NEW s \in Symbols, mon.sym = s
    PROVE  GttInv'
<1>0. /\ TypeOK /\ ProcessInv /\ ExchangeInv /\ mon \in Monitor
      /\ SymbolInv(s) /\ "none" \notin Symbols /\ mon.pc = "sold"
    BY ConstantTypes DEF GttInv, ShapeInv, TypeOK, BookSale
<1>1. /\ up /\ AtWork(s) /\ Exiting(s)
      /\ IdInv(s) /\ BuyInv(s) /\ LiveInv(s) /\ WatchInv(s)
      /\ approval.sym # s
    BY <1>0, AtWorkMeansUp DEF AtWork, Exiting, SymbolInv, BuyInv, Busy
<1>2. /\ UNCHANGED <<up, triggers, approval, dbTriggers, exchangeVars, histVars>>
      /\ position' = [position EXCEPT ![s] = 0]
      /\ dbPosition' = [dbPosition EXCEPT ![s] = 0]
    BY DEF BookSale
<1>3. mon'.pc = "cancel" /\ mon'.sym = s /\ mon'.exits = mon.exits
    BY <1>0 DEF BookSale, Monitor
<1>4. \A x \in Symbols : SameOrders(x)
    BY <1>2 DEF SameOrders, exchangeVars, histVars
<1>5. ASSUME NEW x \in Symbols \ {s}
      PROVE  SameHand(x) /\ SameBooks(x)
    <2>1. SameHand(x)
        BY <1>0, <1>3 DEF SameHand, Busy, Unreconciled, Unreplaced
    <2>2. SameBooks(x)
        BY <1>0, <1>2 DEF SameBooks, TypeOK
    <2> QED
        BY <2>1, <2>2
<1>6. SymbolInv(s)'
    <2>1. /\ Live(s)' = Live(s) /\ Book'[s] = 0 /\ s \in Busy({"cancel"})'
          /\ AtWork(s)' /\ Exiting(s)'
        BY <1>0, <1>1, <1>2, <1>3
        DEF Live, Book, Busy, AtWork, Exiting, exchangeVars, histVars, TypeOK
    <2>2. IdInv(s)' /\ BuyInv(s)'
        BY <1>1, <1>2 DEF IdInv, BuyInv, exchangeVars
    <2>3. LiveInv(s)'
        BY <1>1, <1>2, <2>1 DEF LiveInv, exchangeVars
    <2>4. WatchInv(s)'
        BY <1>1, <1>2, <1>3 DEF WatchInv, Unreconciled, Unreplaced, exchangeVars, histVars
    <2>5. GuardInv(s)'
        BY <2>1 DEF GuardInv
    <2> QED
        BY <2>2, <2>3, <2>4, <2>5 DEF SymbolInv
<1>7. ProcessInv' /\ ExchangeInv' /\ nextGtt' >= nextGtt
    BY <1>0, <1>1, <1>2, <1>3, IdTypes DEF ProcessInv, ExchangeInv, exchangeVars, histVars
<1> QED
    BY <1>2, <1>4, <1>5, <1>6, <1>7, OneSymbol DEF histVars

\* The order of a sold position is cancelled, or cut loose.
LEMMA GttCancel ==
    ASSUME GttInv, ShapeInv', CancelGtt, NEW s \in Symbols, mon.sym = s
    PROVE  GttInv'
<1>0. /\ TypeOK /\ ProcessInv /\ ExchangeInv /\ mon \in Monitor
      /\ SymbolInv(s) /\ "none" \notin Symbols /\ mon.pc = "cancel"
    BY ConstantTypes DEF GttInv, ShapeInv, TypeOK, CancelGtt
<1>1. /\ up /\ AtWork(s) /\ Exiting(s)
      /\ IdInv(s) /\ BuyInv(s) /\ LiveInv(s) /\ WatchInv(s) /\ GuardInv(s)
      /\ approval.sym # s
    BY <1>0, AtWorkMeansUp DEF AtWork, Exiting, SymbolInv, BuyInv, Busy
<1>2. /\ UNCHANGED <<up, position, approval, dbPosition, nextGtt, abandoned>>
      /\ Deactivate(s)
      /\ nextGtt' >= nextGtt
    BY <1>0, IdTypes DEF CancelGtt
<1>3. mon'.pc = "exit" /\ mon'.sym = "none" /\ mon'.exits = mon.exits
    BY <1>0 DEF CancelGtt, Monitor
<1>4. /\ ~triggers'[s].active /\ triggers'[s].gid = triggers[s].gid
      /\ ~dbTriggers'[s].active /\ dbTriggers'[s].gid = dbTriggers[s].gid
      /\ \A x \in Symbols \ {s} : /\ triggers'[x] = triggers[x]
                                  /\ dbTriggers'[x] = dbTriggers[x]
      /\ \A g \in GttIds : /\ gtts'[g].sym = gtts[g].sym
                           /\ gtts'[g].entry = gtts[g].entry
                           /\ gtts'[g].st = "active" => gtts[g].st = "active"
                           /\ g \in stray => g \in stray'
      /\ triggers[s].gid # 0 /\ triggers[s].gst = "active" =>
             gtts'[triggers[s].gid].st # "active" \/ triggers[s].gid \in stray'
      /\ \A x \in Symbols \ {s} : SameOrders(x)
      /\ ExchangeInv'
    BY <1>0, <1>1, <1>2, DeactivateEffect
<1>5. Live(s)' = {}
    <2>1. ASSUME NEW g \in Live(s)'
          PROVE  FALSE
        <3>1. g \in Live(s) /\ g \in GttIds /\ g # 0
            BY <1>4 DEF Live, GttIds
        <3>2. triggers[s].gid = g /\ triggers[s].gst = "active"
            BY <1>1, <3>1 DEF LiveInv
        <3> QED
            BY <1>4, <2>1, <3>1, <3>2 DEF Live
    <2> QED
        BY <2>1
<1>6. SymbolInv(s)'
    <2>1. IdInv(s)'
        BY <1>0, <1>1, <1>2, <1>4, IdTypes DEF IdInv
    <2>2. GuardInv(s)'
        <3>1. s \notin Busy({"sell", "sold"}) /\ Book' = Book /\ ~Guards[s].active
            BY <1>0, <1>1, <1>2 DEF Busy, Book, Guards, WatchInv
        <3> QED
            BY <1>1, <1>2, <1>3, <3>1 DEF GuardInv
    <2>3. ~Unreconciled(s)' /\ ~Unreplaced(s)' /\ approval'.sym # s
        BY <1>1, <1>2, <1>3 DEF Unreconciled, Unreplaced
    <2> QED
        BY <1>4, <1>5, <2>1, <2>2, <2>3, RestingSymbol
<1>7. ASSUME NEW x \in Symbols \ {s}
      PROVE  SameHand(x) /\ SameBooks(x)
    BY <1>0, <1>2, <1>3, <1>4 DEF SameHand, SameBooks, Busy, Unreconciled, Unreplaced
<1>8. ProcessInv'
    BY <1>0, <1>1, <1>2, <1>3 DEF ProcessInv
<1> QED
    BY <1>2, <1>4, <1>6, <1>7, <1>8, OneSymbol

\* The new stop is remembered, in the trigger and in its row.
LEMMA GttSaveStop ==
    ASSUME GttInv, ShapeInv', SaveStop, NEW s \in Symbols, mon.sym = s
    PROVE  GttInv'
<1> DEFINE t == [triggers[s] EXCEPT !.gstop = TrailingStop(triggers[s])]
<1>0. /\ TypeOK /\ ProcessInv /\ ExchangeInv /\ mon \in Monitor
      /\ SymbolInv(s) /\ "none" \notin Symbols /\ mon.pc = "modified"
      /\ triggers[s] \in Trigger
    BY ConstantTypes DEF GttInv, ShapeInv, TypeOK, SaveStop
<1>1. /\ up /\ AtWork(s) /\ mon.exits = {}
      /\ IdInv(s) /\ BuyInv(s) /\ LiveInv(s) /\ WatchInv(s) /\ GuardInv(s)
      /\ approval.sym # s
    BY <1>0, AtWorkMeansUp DEF AtWork, SymbolInv, BuyInv, ProcessInv
<1>2. /\ UNCHANGED <<up, position, approval, dbPosition, exchangeVars, histVars>>
      /\ triggers' = [triggers EXCEPT ![s] = t]
      /\ dbTriggers' = [dbTriggers EXCEPT ![s] = t]
    BY DEF SaveStop
<1>3. mon'.pc = "trail" /\ mon'.sym = "none" /\ mon'.exits = {}
    BY <1>0, <1>1 DEF SaveStop, Monitor
<1>4. /\ t.entry = triggers[s].entry /\ t.active = triggers[s].active
      /\ t.gid = triggers[s].gid /\ t.gst = triggers[s].gst
    BY <1>0 DEF Trigger
<1> HIDE DEF t
<1>5. /\ triggers'[s] = t /\ dbTriggers'[s] = t
      /\ \A x \in Symbols \ {s} : triggers'[x] = triggers[x] /\ dbTriggers'[x] = dbTriggers[x]
    BY <1>0, <1>2 DEF TypeOK
<1>6. SymbolInv(s)'
    <2>1. /\ Live(s)' = Live(s) /\ Book' = Book /\ ~Exiting(s)'
          /\ ~Unreconciled(s)' /\ ~Unreplaced(s)'
        BY <1>0, <1>2, <1>3 DEF Live, Book, Exiting, Busy, Unreconciled, Unreplaced, exchangeVars, histVars
    <2>2. IdInv(s)' /\ BuyInv(s)'
        BY <1>1, <1>2, <1>4, <1>5 DEF IdInv, BuyInv, exchangeVars
    <2>3. LiveInv(s)'
        BY <1>0, <1>1, <1>2, <1>4, <1>5, <2>1 DEF LiveInv, Busy, exchangeVars
    <2>4. WatchInv(s)'
        BY <1>0, <1>1, <1>2, <1>4, <1>5, <2>1
        DEF WatchInv, Unreconciled, Unreplaced, ProcessInv, exchangeVars, histVars
    <2>5. GuardInv(s)'
        BY <1>0, <1>1, <1>2, <1>4, <1>5, <2>1 DEF GuardInv, Guards, Busy, histVars
    <2> QED
        BY <2>2, <2>3, <2>4, <2>5 DEF SymbolInv
<1>7. ASSUME NEW x \in Symbols \ {s}
      PROVE  SameHand(x) /\ SameOrders(x) /\ SameBooks(x)
    <2>1. SameHand(x)
        BY <1>0, <1>1, <1>3 DEF SameHand, Busy, Unreconciled, Unreplaced
    <2>2. SameOrders(x) /\ SameBooks(x)
        BY <1>2, <1>5 DEF SameOrders, SameBooks, exchangeVars, histVars
    <2> QED
        BY <2>1, <2>2
<1>8. ProcessInv' /\ ExchangeInv' /\ nextGtt' >= nextGtt
    BY <1>0, <1>1, <1>2, <1>3, IdTypes DEF ProcessInv, ExchangeInv, exchangeVars, histVars
<1> QED
    BY <1>2, <1>6, <1>7, <1>8, OneSymbol DEF histVars

\* Due triggers are deactivated with their rows, the others keep theirs.
LEMMA GttCheckAll ==
    ASSUME GttInv, ShapeInv', CheckAll
    PROVE  GttInv'
<1> DEFINE active == ActiveTriggers(triggers)
           seen(q) == [s \in Symbols |-> IF s \in q THEN WithPrice(triggers[s], price[s])
                                                    ELSE triggers[s]]
           due(q) == {s \in q : Due(seen(q)[s], price[s])}
           after(q) == [s \in Symbols |-> [seen(q)[s] EXCEPT !.active = @ /\ s \notin due(q)]]
<1>0. /\ TypeOK /\ ProcessInv /\ ExchangeInv /\ HandInv /\ mon \in Monitor
      /\ "none" \notin Symbols /\ mon.pc = "poll"
    BY ConstantTypes DEF GttInv, ShapeInv, TypeOK, CheckAll
<1>1. up /\ mon.exits = {} /\ mon.sym = "none"
    BY <1>0, AtWorkMeansUp DEF ProcessInv, HandInv
<1>2. UNCHANGED <<up, position, approval, dbPosition, exchangeVars, histVars>>
    BY DEF CheckAll
<1>3. PICK q \in SUBSET (active \cap Priced) :
          IF q = {} THEN mon' = Resting /\ UNCHANGED <<triggers, dbTriggers>>
          ELSE /\ triggers' = after(q)
               /\ dbTriggers' = Persisted(active, after(q))
               /\ mon' = [mon EXCEPT !.pc = "exit", !.exits = due(q), !.quoted = q]
    BY DEF CheckAll
<1>4. ExchangeInv' /\ nextGtt' >= nextGtt /\ \A x \in Symbols : SameOrders(x)
    BY <1>0, <1>2, IdTypes DEF ExchangeInv, SameOrders, exchangeVars, histVars
<1>5. CASE q = {}
    <2>1. mon'.pc = "idle" /\ mon'.exits = {} /\ mon'.sym = "none"
        BY <1>3, <1>5 DEF Resting
    <2>2. \A x \in Symbols : SameHand(x)
        BY <1>0, <1>1, <2>1 DEF SameHand, Busy, Unreconciled, Unreplaced
    <2>3. ProcessInv'
        BY <1>0, <1>1, <1>2, <1>3, <1>5, <2>1 DEF ProcessInv
    <2> QED
        BY <1>2, <1>3, <1>4, <1>5, <2>2, <2>3, QuietStep DEF exchangeVars, histVars
<1>6. CASE q # {}
    <2>1. due(q) \subseteq active /\ active \subseteq Symbols
        BY DEF ActiveTriggers
    <2>2. ASSUME NEW x \in Symbols
          PROVE  /\ seen(q)[x] \in [entry: {triggers[x].entry}, gid: {triggers[x].gid},
                                    gst: {triggers[x].gst}, active: {triggers[x].active},
                                    sig: {seen(q)[x].sig}, best: {seen(q)[x].best},
                                    gstop: {seen(q)[x].gstop}]
        BY <1>0 DEF TypeOK, Trigger, WithPrice
    <2>3. ASSUME NEW x \in Symbols
          PROVE  /\ after(q)[x].entry = triggers[x].entry
                 /\ after(q)[x].gid = triggers[x].gid
                 /\ after(q)[x].gst = triggers[x].gst
                 /\ after(q)[x].active = (triggers[x].active /\ x \notin due(q))
        <3>1. seen(q)[x] \in [entry: {triggers[x].entry}, gid: {triggers[x].gid},
                              gst: {triggers[x].gst}, active: {triggers[x].active},
                              sig: {seen(q)[x].sig}, best: {seen(q)[x].best},
                              gstop: {seen(q)[x].gstop}]
            BY <2>2
        <3> HIDE DEF seen, due
        <3> QED
            BY <3>1
    <2> HIDE DEF after, due, active
    <2>4. ASSUME NEW x \in Symbols
          PROVE  /\ triggers'[x].entry = triggers[x].entry
                 /\ triggers'[x].gid = triggers[x].gid
                 /\ triggers'[x].gst = triggers[x].gst
                 /\ triggers'[x].active <=> triggers[x].active /\ x \notin due(q)
                 /\ dbTriggers'[x].entry = dbTriggers[x].entry
                 /\ dbTriggers'[x].gid = dbTriggers[x].gid
                 /\ dbTriggers'[x].gst = dbTriggers[x].gst
                 /\ IF triggers[x].active THEN dbTriggers'[x].active <=> x \notin due(q)
                                          ELSE dbTriggers'[x].active = dbTriggers[x].active
        <3>1. triggers'[x] = after(q)[x]
            BY <1>3, <1>6
        <3>2. dbTriggers'[x] = IF x \in active
                                 THEN [dbTriggers[x] EXCEPT !.best = after(q)[x].best,
                                                            !.active = after(q)[x].active]
                                 ELSE dbTriggers[x]
            BY <1>3, <1>6 DEF Persisted
        <3>3. x \in active <=> triggers[x].active
            BY DEF active, ActiveTriggers
        <3>4. dbTriggers[x] \in Trigger
            BY <1>0 DEF TypeOK
        <3> QED
            BY <2>3, <3>1, <3>2, <3>3, <3>4 DEF Trigger
    <2>5. mon'.pc = "exit" /\ mon'.sym = "none" /\ mon'.exits = due(q)
        BY <1>0, <1>1, <1>3, <1>6 DEF Monitor
    <2>6. ASSUME NEW x \in Symbols
          PROVE  SymbolInv(x)'
        <3>1. /\ IdInv(x) /\ BuyInv(x) /\ LiveInv(x) /\ WatchInv(x) /\ GuardInv(x)
              /\ x \in due(q) => triggers[x].active
            BY <2>1 DEF GttInv, SymbolInv, active, ActiveTriggers
        <3>2. /\ AtWork(x)' => AtWork(x)
              /\ Exiting(x)' <=> x \in due(q)
              /\ ~Unreconciled(x) /\ ~Unreconciled(x)' /\ ~Unreplaced(x)'
              /\ Live(x)' = Live(x) /\ Book' = Book
            BY <1>0, <1>1, <1>2, <2>4, <2>5, <3>1
            DEF AtWork, Exiting, Busy, Unreconciled, Unreplaced, Live, Book, exchangeVars, histVars
        <3>3. IdInv(x)'
            BY <1>2, <2>4, <3>1 DEF IdInv, exchangeVars
        <3>4. BuyInv(x)'
            BY <1>0, <1>2, <2>4, <2>5, <3>1, <3>2 DEF BuyInv, exchangeVars, histVars
        <3>5. LiveInv(x)'
            <4>1. x \notin Busy({"cancel"})
                BY <1>0 DEF Busy
            <4>2. dbTriggers'[x].active => dbTriggers[x].active
                BY <2>4, <3>1 DEF WatchInv
            <4> QED
                BY <1>2, <2>4, <3>1, <3>2, <4>1, <4>2 DEF LiveInv, exchangeVars
        <3>6. WatchInv(x)'
            BY <1>2, <2>4, <3>1, <3>2 DEF WatchInv, exchangeVars, histVars
        <3>7. GuardInv(x)'
            <4>1. /\ x \notin mon.exits /\ x \notin Busy({"sell", "sold"})
                  /\ Guards = triggers /\ Guards' = triggers'
                BY <1>0, <1>1, <1>2 DEF Busy, Guards
            <4> QED
                BY <1>0, <1>2, <2>4, <2>5, <3>1, <3>2, <4>1 DEF GuardInv, histVars
        <3> QED
            BY <3>3, <3>4, <3>5, <3>6, <3>7 DEF SymbolInv
    <2>7. ProcessInv'
        BY <1>0, <1>1, <1>2, <2>5 DEF ProcessInv
    <2> QED
        BY <1>4, <2>6, <2>7 DEF GttInv
<1> QED
    BY <1>5, <1>6

\* While the start reconciles a symbol, its trigger answers for its live order.
LEMMA ReconcileBegins ==
    ASSUME GttInv, NEW s \in Symbols, mon.pc = "reconcile", s \in mon.todo
    PROVE  /\ up /\ mon.exits = {} /\ mon.sym = "none" /\ "none" \notin Symbols
           /\ approval = NoApproval /\ approval.sym = "none" /\ approval.gid = 0
           /\ IdInv(s) /\ LiveInv(s) /\ WatchInv(s) /\ GuardInv(s)
           /\ triggers[s].active /\ dbTriggers[s].active
           /\ dbTriggers[s].entry = triggers[s].entry
           /\ triggers[s].gid \in GttIds \cup {0} /\ dbTriggers[s].gid \in GttIds \cup {0}
           /\ 0 \notin GttIds
           /\ \A g \in Live(s) : /\ g \in GttIds
                                 /\ triggers[s].gid = g /\ triggers[s].gst = "active"
                                 /\ position[s] = gtts[g].entry /\ gtts[g].entry # 0
<1>1. /\ TypeOK /\ ProcessInv /\ HandInv /\ SymbolInv(s)
      /\ approval = NoApproval /\ up
    BY AtWorkMeansUp DEF GttInv, ShapeInv, ProcessInv
<1>2. /\ triggers[s].active /\ IdInv(s) /\ LiveInv(s) /\ WatchInv(s) /\ GuardInv(s)
    BY <1>1 DEF SymbolInv, WatchInv, Unreconciled
<1>3. AtWork(s) /\ Book = position /\ s \notin Busy({"cancel"})
    BY <1>1, <1>2 DEF AtWork, Book, Busy
<1>4. \A g \in Live(s) : g \in GttIds
    BY DEF Live
<1> QED
    BY <1>1, <1>2, <1>3, <1>4, IdTypes, ConstantTypes
    DEF ProcessInv, HandInv, WatchInv, LiveInv, NoApproval, GttIds

\* The trigger keeps its order, or forgets one that is gone or is cut loose.
LEMMA GttReconcile ==
    ASSUME GttInv, ShapeInv', NEW s \in Symbols, Reconcile(s)
    PROVE  GttInv'
<1> DEFINE t == triggers[s]
           p == triggers'[s]
<1>0. /\ mon.pc = "reconcile" /\ s \in mon.todo /\ mon' = [mon EXCEPT !.todo = @ \ {s}]
      /\ UNCHANGED <<up, position, approval, dbPosition, dbTriggers, gtts, nextGtt, abandoned>>
      /\ TypeOK /\ ProcessInv /\ ExchangeInv /\ mon \in Monitor /\ nextGtt \in Nat
      /\ t \in Trigger
    BY IdTypes DEF Reconcile, GttInv, ShapeInv, TypeOK, dbVars, exchangeVars
<1>1. /\ up /\ mon.exits = {} /\ mon.sym = "none" /\ "none" \notin Symbols
      /\ approval = NoApproval /\ approval.sym = "none" /\ approval.gid = 0
      /\ IdInv(s) /\ LiveInv(s) /\ WatchInv(s) /\ GuardInv(s)
      /\ t.active /\ dbTriggers[s].active
      /\ dbTriggers[s].entry = t.entry
      /\ t.gid \in GttIds \cup {0} /\ dbTriggers[s].gid \in GttIds \cup {0}
      /\ 0 \notin GttIds
      /\ \A g \in Live(s) : /\ g \in GttIds
                            /\ t.gid = g /\ t.gst = "active"
                            /\ position[s] = gtts[g].entry /\ gtts[g].entry # 0
    BY <1>0, ReconcileBegins
<1>2. /\ mon'.pc = "reconcile" /\ mon'.exits = {} /\ mon'.sym = "none"
      /\ mon'.todo = mon.todo \ {s}
    BY <1>0, <1>1 DEF Monitor
<1>3. /\ \A x \in Symbols \ {s} : triggers'[x] = triggers[x]
      /\ p.active /\ p.entry = t.entry
      /\ \/ p.gid = 0 /\ (t.gid = 0 \/ t.gid \in stray' \/ gtts[t.gid].st # "active")
         \/ p.gid = t.gid /\ p.gst = gtts[t.gid].st /\ stray' = stray
      /\ stray' = stray \/ (t.gid # 0 /\ stray' = stray \cup {t.gid})
    <2>1. CASE UNCHANGED <<triggers, stray>> /\ t.gid = 0
        BY <1>1, <2>1
    <2>2. CASE /\ triggers' = [triggers EXCEPT ![s].gst = GttAnswer(t.gid)]
               /\ UNCHANGED stray
        <3>1. p = [t EXCEPT !.gst = GttAnswer(t.gid)]
            BY <1>0, <2>2 DEF TypeOK
        <3>2. p.active = t.active /\ p.entry = t.entry /\ p.gid = t.gid /\ p.gst = GttAnswer(t.gid)
            BY <1>0, <3>1 DEF Trigger
        <3> HIDE DEF p
        <3> QED
            BY <1>0, <1>1, <2>2, <3>2 DEF TypeOK, GttAnswer
    <2>3. ASSUME NEW x, triggers' = [triggers EXCEPT ![s].gid = 0, ![s].gst = x]
          PROVE  /\ \A y \in Symbols \ {s} : triggers'[y] = triggers[y]
                 /\ p.active /\ p.entry = t.entry /\ p.gid = 0
        <3>1. p = [[t EXCEPT !.gid = 0] EXCEPT !.gst = x]
            BY <1>0, <2>3 DEF TypeOK
        <3>2. p.active = t.active /\ p.entry = t.entry /\ p.gid = 0
            BY <1>0, <3>1 DEF Trigger
        <3> HIDE DEF p
        <3> QED
            BY <1>0, <1>1, <2>3, <3>2 DEF TypeOK
    <2>4. \/ UNCHANGED <<triggers, stray>> /\ t.gid = 0
          \/ triggers' = [triggers EXCEPT ![s].gst = GttAnswer(t.gid)] /\ UNCHANGED stray
          \/ /\ \E x : triggers' = [triggers EXCEPT ![s].gid = 0, ![s].gst = x]
             /\ \/ GttAnswer(t.gid) \notin Standing /\ UNCHANGED stray
                \/ t.gid # 0 /\ stray' = stray \cup {t.gid}
        BY Zenon DEF Reconcile
    <2> HIDE DEF p
    <2> QED
        BY <2>1, <2>2, <2>3, <2>4 DEF GttAnswer, Standing
<1> HIDE DEF p
<1>4. t.gid # 0 => t.gid < nextGtt /\ gtts[t.gid].sym = s
    BY <1>1 DEF IdInv
<1>5. \A x \in Symbols \ {s} : SameHand(x) /\ SameOrders(x) /\ SameBooks(x)
    <2> TAKE x \in Symbols \ {s}
    <2>1. SameHand(x)
        BY <1>0, <1>1, <1>2 DEF SameHand, Busy, Unreconciled, Unreplaced
    <2>2. SameOrders(x)
        BY <1>0, <1>3, <1>4 DEF SameOrders
    <2>3. SameBooks(x)
        BY <1>0, <1>3 DEF SameBooks
    <2> QED
        BY <2>1, <2>2, <2>3
<1>6. ProcessInv'
    BY <1>0, <1>1, <1>2 DEF ProcessInv
<1>7. ExchangeInv' /\ nextGtt' >= nextGtt
    BY <1>0, <1>1, <1>3, <1>4 DEF ExchangeInv, GttIds
<1>8. SymbolInv(s)'
    <2>1. Book' = Book /\ Book = position /\ ~Exiting(s)' /\ ~Unreconciled(s)' /\ ~Unreplaced(s)'
        BY <1>0, <1>1, <1>2 DEF Book, Exiting, Busy, Unreconciled, Unreplaced
    <2>2. IdInv(s)'
        BY <1>0, <1>1, <1>3, <1>4 DEF IdInv, p
    <2>3. BuyInv(s)'
        BY <1>0, <1>1 DEF BuyInv
    <2>4. LiveInv(s)'
        <3>1. ASSUME NEW g \in Live(s)'
              PROVE  g \in Live(s) /\ p.gid = g /\ p.gst = "active"
            <4>1. g \in Live(s) /\ g # 0 /\ gtts[g].st = "active" /\ g \notin stray'
                BY <1>0, <1>1, <1>3 DEF Live
            <4>2. t.gid = g
                BY <1>1, <4>1
            <4> QED
                BY <1>3, <4>1, <4>2
        <3> QED
            BY <1>0, <1>1, <1>2, <2>1, <3>1 DEF LiveInv, Busy, p
    <2>5. WatchInv(s)'
        <3>1. position = dbPosition
            BY <1>0, <1>1 DEF ProcessInv
        <3>2. /\ t.gid # 0 => dbTriggers[s].gid = t.gid
              /\ dbTriggers[s].gid # 0 /\ gtts[dbTriggers[s].gid].st = "active" =>
                     gtts[dbTriggers[s].gid].entry = dbPosition[s] /\ dbPosition[s] # 0
            BY <1>1 DEF WatchInv
        <3>3. p.gid # 0 /\ p.gst = "active" => gtts[p.gid].entry = position[s]
            BY <1>3, <3>1, <3>2
        <3> QED
            BY <1>0, <1>1, <1>3, <2>1, <3>2, <3>3 DEF WatchInv, p
    <2>6. GuardInv(s)'
        BY <1>0, <1>1, <1>3, <2>1 DEF GuardInv, Guards, Busy, p
    <2> QED
        BY <2>2, <2>3, <2>4, <2>5, <2>6 DEF SymbolInv
<1> QED
    BY <1>0, <1>5, <1>6, <1>7, <1>8, OneSymbol

\* The start turns to a trigger without an order: it goes through a placement like an
\* approval's, or is left alone.
LEMMA GttReplace ==
    ASSUME GttInv, ShapeInv', NEW s \in Symbols, Replace(s)
    PROVE  GttInv'
<1>0. /\ TypeOK /\ ProcessInv /\ ExchangeInv /\ HandInv /\ mon \in Monitor
      /\ mon.pc = "replace" /\ s \in mon.todo /\ mon' = [mon EXCEPT !.todo = @ \ {s}]
      /\ UNCHANGED <<up, position, triggers, dbPosition, dbTriggers, gtts, nextGtt, stray,
                      abandoned>>
      /\ approval = NoApproval /\ SymbolInv(s) /\ "none" \notin Symbols /\ 0 \notin GttIds
    BY ConstantTypes
    DEF Replace, GttInv, ShapeInv, TypeOK, ProcessInv, dbVars, exchangeVars, histVars, GttIds
<1>1. /\ up /\ mon.exits = {} /\ mon.sym = "none"
      /\ approval.sym = "none" /\ approval.gid = 0 /\ approval.stage = "idle"
      /\ mon'.pc = "replace" /\ mon'.exits = {} /\ mon'.sym = "none" /\ mon'.todo = mon.todo \ {s}
    BY <1>0, AtWorkMeansUp DEF ProcessInv, HandInv, NoApproval, Monitor
<1>2. /\ IdInv(s) /\ LiveInv(s) /\ WatchInv(s) /\ GuardInv(s)
      /\ triggers[s].active /\ triggers[s].gid = 0
      /\ Live(s) = {} /\ Live(s)' = {}
    <2>1. IdInv(s) /\ LiveInv(s) /\ WatchInv(s) /\ GuardInv(s)
        BY <1>0 DEF SymbolInv
    <2>2. triggers[s].active /\ triggers[s].gid = 0
        BY <1>0, <2>1 DEF WatchInv, Unreplaced
    <2>3. Live(s) = {}
        BY <1>0, <1>1, <2>1, <2>2 DEF LiveInv, AtWork, Live
    <2> QED
        BY <1>0, <2>1, <2>2, <2>3 DEF Live
<1>3. \A x \in Symbols : SameOrders(x) /\ SameHand(x)
    BY <1>0, <1>1 DEF SameOrders, SameHand, Busy, Unreconciled, Unreplaced
<1>4. ExchangeInv' /\ nextGtt' >= nextGtt
    BY <1>0, IdTypes DEF ExchangeInv
<1>5. CASE UNCHANGED approval
    <2>1. ProcessInv'
        BY <1>0, <1>1, <1>5 DEF ProcessInv
    <2> QED
        BY <1>0, <1>3, <1>4, <1>5, <2>1, QuietStep
<1>6. CASE /\ position[s] # 0
           /\ approval' = [NoApproval EXCEPT !.stage = "place", !.sym = s, !.entry = position[s],
                                            !.sig = triggers[s].sig]
    <2>1. /\ approval'.stage = "place" /\ approval'.sym = s /\ approval'.entry = position[s]
          /\ approval'.gid = 0
        BY <1>6 DEF NoApproval
    <2>2. SymbolInv(s)'
        <3>1. IdInv(s)'
            BY <1>0, <1>2, <2>1 DEF IdInv
        <3>2. BuyInv(s)'
            BY <1>0, <1>1, <1>2, <1>6, <2>1 DEF BuyInv
        <3>3. LiveInv(s)'
            BY <1>2 DEF LiveInv
        <3>4. WatchInv(s)'
            BY <1>0, <1>1, <1>2 DEF WatchInv, Exiting, Busy, Unreconciled, Unreplaced
        <3>5. GuardInv(s)'
            BY <1>0, <1>1, <1>2 DEF GuardInv, Book, Guards, Loaded, Busy
        <3> QED
            BY <3>1, <3>2, <3>3, <3>4, <3>5 DEF SymbolInv
    <2>3. ASSUME NEW x \in Symbols \ {s}
          PROVE  SameBooks(x)
        BY <1>0, <1>1, <2>1 DEF SameBooks
    <2>4. ProcessInv'
        BY <1>0, <1>1, <2>1 DEF ProcessInv
    <2> QED
        BY <1>0, <1>3, <1>4, <2>2, <2>3, <2>4, OneSymbol
<1> QED
    BY <1>5, <1>6 DEF Replace

\* The order that was placed again is the trigger's and the row's.
LEMMA GttKept ==
    ASSUME GttInv, ShapeInv', KeepReplacement, NEW s \in Symbols, approval.sym = s
    PROVE  GttInv'
<1> DEFINE p == [triggers[s] EXCEPT !.gid = approval.gid, !.gst = "active",
                                    !.gstop = triggers[s].sig.stop]
<1>0. /\ TypeOK /\ ProcessInv /\ ExchangeInv /\ HandInv
      /\ mon.pc = "replace" /\ approval.stage = "install"
      /\ approval' = NoApproval /\ approval'.sym = "none" /\ approval'.stage = "idle"
      /\ UNCHANGED <<up, position, mon, dbPosition, gtts, nextGtt, stray, abandoned>>
      /\ SymbolInv(s) /\ "none" \notin Symbols /\ 0 \notin GttIds /\ triggers[s] \in Trigger
    BY ConstantTypes
    DEF KeepReplacement, GttInv, ShapeInv, TypeOK, exchangeVars, histVars, GttIds, NoApproval
<1>1. /\ up /\ mon.exits = {} /\ mon.sym = "none" /\ dbPosition = position
    BY <1>0, AtWorkMeansUp DEF ProcessInv, HandInv
<1>2. /\ IdInv(s) /\ WatchInv(s) /\ GuardInv(s) /\ LiveInv(s) /\ BuyInv(s)
      /\ triggers[s].active /\ triggers[s].gid = 0
      /\ dbTriggers[s].active /\ dbTriggers[s].entry = triggers[s].entry
      /\ position[s] = approval.entry /\ approval.entry # 0
      /\ \A g \in Live(s) : g = approval.gid /\ g # 0 /\ gtts[g].entry = position[s]
      /\ approval.gid # 0 => gtts[approval.gid].entry = position[s]
    BY <1>0, <1>1 DEF SymbolInv, BuyInv, WatchInv, Live
<1>3. ~Exiting(s)' /\ ~Unreconciled(s)' /\ ~Unreplaced(s)' /\ s \notin Busy({"sell", "sold"})
    BY <1>0, <1>1, <1>2 DEF Exiting, Busy, Unreconciled, Unreplaced, WatchInv
<1>4. /\ Live(s)' = Live(s) /\ Book' = position /\ Book = position
      /\ Guards = triggers /\ Guards' = triggers'
    BY <1>0, <1>1 DEF Live, Book, Guards
<1>5. \A x \in Symbols \ {s} : SameHand(x) /\ SameOrders(x)
    BY <1>0, <1>1 DEF SameHand, SameOrders, Busy, Unreconciled, Unreplaced
<1>6. ProcessInv' /\ ExchangeInv' /\ nextGtt' >= nextGtt
    BY <1>0, <1>1, IdTypes DEF ProcessInv, ExchangeInv
<1>7. CASE approval.gid = 0 /\ UNCHANGED <<triggers, dbTriggers>>
    <2>1. Live(s)' = {}
        BY <1>2, <1>4, <1>7
    <2>2. SymbolInv(s)'
        <3>1. IdInv(s)' /\ BuyInv(s)' /\ LiveInv(s)'
            BY <1>0, <1>2, <1>7, <2>1 DEF IdInv, BuyInv, LiveInv
        <3>2. WatchInv(s)'
            BY <1>0, <1>2, <1>3, <1>7 DEF WatchInv
        <3>3. GuardInv(s)'
            BY <1>0, <1>1, <1>2, <1>3, <1>4, <1>7 DEF GuardInv
        <3> QED
            BY <3>1, <3>2, <3>3 DEF SymbolInv
    <2>3. \A x \in Symbols \ {s} : SameBooks(x)
        BY <1>0, <1>7 DEF SameBooks
    <2> QED
        BY <1>0, <1>5, <1>6, <2>2, <2>3, OneSymbol
<1>8. CASE /\ approval.gid # 0
           /\ triggers' = [triggers EXCEPT ![s] = p]
           /\ dbTriggers' = [dbTriggers EXCEPT ![s] = p]
    <2>1. /\ p.active /\ p.entry = triggers[s].entry
          /\ p.gid = approval.gid /\ p.gst = "active"
        BY <1>0, <1>2 DEF Trigger
    <2> HIDE DEF p
    <2>2. /\ triggers'[s] = p /\ dbTriggers'[s] = p
          /\ \A x \in Symbols \ {s} : triggers'[x] = triggers[x] /\ dbTriggers'[x] = dbTriggers[x]
        BY <1>0, <1>8 DEF TypeOK
    <2>3. SymbolInv(s)'
        <3>1. IdInv(s)' /\ BuyInv(s)'
            BY <1>0, <1>2, <2>1, <2>2 DEF IdInv, BuyInv
        <3>2. LiveInv(s)'
            BY <1>0, <1>2, <1>4, <2>1, <2>2 DEF LiveInv
        <3>3. WatchInv(s)'
            BY <1>0, <1>1, <1>2, <1>3, <2>1, <2>2 DEF WatchInv
        <3>4. GuardInv(s)'
            BY <1>0, <1>1, <1>2, <1>3, <1>4, <2>1, <2>2 DEF GuardInv
        <3> QED
            BY <3>1, <3>2, <3>3, <3>4 DEF SymbolInv
    <2>4. \A x \in Symbols \ {s} : SameBooks(x)
        BY <1>0, <2>2 DEF SameBooks
    <2> QED
        BY <1>0, <1>5, <1>6, <2>3, <2>4, OneSymbol
<1> QED
    BY <1>7, <1>8 DEF KeepReplacement

\* A crash leaves the rows, and cuts loose what only the process knew.
LEMMA GttCrash ==
    ASSUME GttInv, ShapeInv', Crash
    PROVE  GttInv'
<1>0. /\ TypeOK /\ ProcessInv /\ ExchangeInv /\ up /\ position = dbPosition
      /\ "none" \notin Symbols /\ 0 \notin GttIds
    BY ConstantTypes DEF GttInv, ShapeInv, Crash, ProcessInv, GttIds
<1>1. /\ up' = FALSE
      /\ position' = [s \in Symbols |-> 0]
      /\ triggers' = [s \in Symbols |-> NoTrigger]
      /\ approval' = NoApproval /\ mon' = Resting
      /\ UNCHANGED <<dbPosition, dbTriggers, gtts, nextGtt>>
    BY DEF Crash, dbVars, exchangeVars
<1>2. /\ approval'.sym = "none" /\ approval'.gid = 0
      /\ mon'.pc = "idle" /\ mon'.sym = "none" /\ mon'.exits = {}
      /\ \A s \in Symbols : ~triggers'[s].active /\ triggers'[s].gid = 0
    BY <1>1 DEF NoApproval, Resting, NoTrigger
<1>3. /\ stray \subseteq stray' /\ abandoned \subseteq abandoned'
      /\ approval.gid # 0 => approval.gid \in stray'
      /\ \A s \in Busy({"cancel"}) : triggers[s].gid # 0 => triggers[s].gid \in stray'
      /\ \A g \in stray' \ stray :
             g # 0 /\ (g = approval.gid \/ \E s \in Busy({"cancel"}) : g = triggers[s].gid)
    BY DEF Crash
<1>4. /\ approval.entry # 0 /\ mon.pc # "replace" => approval.entry \in abandoned'
      /\ \A s \in mon.exits \cup Busy({"sell", "sold"}) :
             position[s] # 0 => position[s] \in abandoned'
    BY DEF Crash
<1>5. ASSUME NEW s \in Symbols
      PROVE  SymbolInv(s)'
    <2>1. /\ IdInv(s) /\ BuyInv(s) /\ LiveInv(s) /\ WatchInv(s) /\ GuardInv(s)
          /\ triggers[s].gid \in GttIds \cup {0} /\ dbTriggers[s].gid \in GttIds \cup {0}
          /\ Book = position /\ Guards = triggers /\ Book' = position
        BY <1>0, <1>1, IdTypes DEF GttInv, SymbolInv, Book, Guards
    <2>2. /\ ~AtWork(s)' /\ ~Exiting(s)' /\ ~Unreconciled(s)' /\ ~Unreplaced(s)'
        BY <1>0, <1>2 DEF AtWork, Exiting, Busy, Unreconciled, Unreplaced
    <2>3. \A g \in Live(s)' : g \in Live(s) /\ g \in GttIds /\ g \notin stray'
        BY <1>1, <1>3 DEF Live
    <2>4. ASSUME NEW g \in Live(s)'
          PROVE  approval.sym # s /\ s \notin Busy({"cancel"})
        <3>1. approval.sym # s
            BY <1>0, <1>3, <2>1, <2>3 DEF BuyInv
        <3>2. ASSUME s \in Busy({"cancel"})
              PROVE  FALSE
            <4>1. AtWork(s) /\ approval.sym # s
                BY <3>1, <3>2 DEF AtWork, Busy
            <4>2. triggers[s].gid = g
                BY <2>1, <2>3, <4>1 DEF LiveInv
            <4> QED
                BY <1>0, <1>3, <2>3, <3>2, <4>2
        <3> QED
            BY <3>1, <3>2
    <2>5. IdInv(s)'
        BY <1>0, <1>1, <1>2, <2>1 DEF IdInv
    <2>6. BuyInv(s)'
        BY <1>0, <1>2 DEF BuyInv
    <2>7. LiveInv(s)'
        BY <1>1, <2>1, <2>2, <2>3, <2>4 DEF LiveInv
    <2>8. WatchInv(s)'
        BY <1>1, <1>2, <2>1, <2>2 DEF WatchInv
    <2>9. GuardInv(s)'
        <3>1. SUFFICES ASSUME position[s] # 0, position[s] \notin abandoned'
                       PROVE  Guards'[s].active /\ Guards'[s].entry = position[s]
            BY <2>1 DEF GuardInv
        <3>2. /\ s \notin mon.exits /\ s \notin Busy({"sell", "sold"})
              /\ position[s] \notin abandoned
            BY <1>3, <1>4, <3>1
        <3>3. ~(approval.sym = s /\ mon.pc # "replace")
            BY <1>4, <2>1, <3>1 DEF BuyInv
        <3>4. triggers[s].active /\ triggers[s].entry = position[s]
            BY <2>1, <3>1, <3>2, <3>3 DEF GuardInv
        <3>5. dbTriggers[s].active /\ dbTriggers[s].entry = position[s]
            BY <2>1, <3>4 DEF WatchInv
        <3> QED
            BY <1>1, <3>5 DEF Guards, Loaded
    <2> QED
        BY <2>5, <2>6, <2>7, <2>8, <2>9 DEF SymbolInv
<1>6. ProcessInv'
    BY <1>1, <1>2 DEF ProcessInv, NoApproval
<1>7. ExchangeInv'
    <2>1. ASSUME NEW g \in GttIds, g >= nextGtt, g \in stray'
          PROVE  FALSE
        <3>1. g \notin stray /\ g \in Nat /\ nextGtt \in Nat
            BY <1>0, <2>1, IdTypes DEF ExchangeInv, GttIds
        <3>2. CASE g = approval.gid
            <4>1. approval.sym \in Symbols
                BY <1>0, <2>1, <3>2 DEF ProcessInv, NoApproval
            <4>2. IdInv(approval.sym)
                BY <4>1 DEF GttInv, SymbolInv
            <4> QED
                BY <1>0, <2>1, <3>1, <3>2, <4>2 DEF IdInv
        <3>3. ASSUME NEW s \in Busy({"cancel"}), g = triggers[s].gid
              PROVE  FALSE
            <4>1. IdInv(s)
                BY DEF GttInv, SymbolInv, Busy
            <4> QED
                BY <1>0, <2>1, <3>1, <3>3, <4>1 DEF IdInv
        <3> QED
            BY <1>3, <2>1, <3>1, <3>2, <3>3
    <2> QED
        BY <1>0, <1>1, <2>1 DEF ExchangeInv
<1> QED
    BY <1>5, <1>6, <1>7 DEF GttInv

\* A start finds the positions and the active rows.
LEMMA GttStart ==
    ASSUME GttInv, ShapeInv', Start
    PROVE  GttInv'
<1>0. /\ TypeOK /\ ProcessInv /\ ExchangeInv /\ ~up /\ mon = Resting /\ approval = NoApproval
      /\ "none" \notin Symbols /\ 0 \notin GttIds
    BY ConstantTypes DEF GttInv, ShapeInv, Start, ProcessInv, GttIds
<1>1. /\ up' = TRUE /\ position' = dbPosition /\ triggers' = Loaded
      /\ mon' = [Resting EXCEPT !.pc = "reconcile", !.todo = ActiveTriggers(Loaded)]
      /\ UNCHANGED <<approval, dbPosition, dbTriggers, gtts, nextGtt, stray, abandoned>>
    BY DEF Start, dbVars, exchangeVars, histVars
<1>2. /\ mon'.pc = "reconcile" /\ mon'.sym = "none" /\ mon'.exits = {}
      /\ mon'.todo = ActiveTriggers(Loaded)
      /\ mon.pc = "idle" /\ mon.sym = "none" /\ mon.exits = {} /\ approval.sym = "none"
    BY <1>0, <1>1 DEF Resting, NoApproval
<1>3. ASSUME NEW s \in Symbols
      PROVE  SymbolInv(s)'
    <2>1. /\ IdInv(s) /\ LiveInv(s) /\ WatchInv(s) /\ GuardInv(s)
          /\ Book' = Book /\ Guards' = Guards /\ Live(s)' = Live(s)
        BY <1>0, <1>1 DEF GttInv, SymbolInv, Book, Guards, Live
    <2>2. triggers'[s] = IF dbTriggers[s].active THEN dbTriggers[s] ELSE NoTrigger
        BY <1>1 DEF Loaded
    <2>3. /\ triggers'[s].active <=> dbTriggers[s].active
          /\ triggers'[s].active => triggers'[s] = dbTriggers[s]
          /\ triggers'[s].gid # 0 => triggers'[s].gid = dbTriggers[s].gid
        BY <2>2 DEF NoTrigger
    <2>4. /\ ~Exiting(s)' /\ ~Unreplaced(s)' /\ (AtWork(s)' <=> triggers'[s].active)
          /\ Unreconciled(s)' <=> triggers'[s].active
          /\ s \notin Busy({"cancel"}) /\ s \notin Busy({"sell", "sold"})
        BY <1>0, <1>1, <1>2
        DEF Exiting, AtWork, Unreconciled, Unreplaced, Busy, ActiveTriggers
    <2>5. IdInv(s)'
        BY <1>1, <1>2, <2>1, <2>3 DEF IdInv
    <2>6. BuyInv(s)'
        BY <1>0, <1>1, <1>2 DEF BuyInv
    <2>7. LiveInv(s)'
        BY <1>0, <1>1, <1>2, <2>1, <2>3, <2>4 DEF LiveInv
    <2>8. WatchInv(s)'
        BY <1>1, <2>1, <2>3, <2>4 DEF WatchInv
    <2>9. GuardInv(s)'
        BY <1>0, <1>1, <1>2, <2>1, <2>4 DEF GuardInv
    <2> QED
        BY <2>5, <2>6, <2>7, <2>8, <2>9 DEF SymbolInv
<1>4. ProcessInv' /\ ExchangeInv'
    BY <1>0, <1>1, <1>2 DEF ProcessInv, ExchangeInv, NoApproval
<1> QED
    BY <1>3, <1>4 DEF GttInv

---------------------------------------------------------------------------
(* The theorems *)

\* The books, the exchange and the rows start empty.
LEMMA GttInit == Init => GttInv
<1> SUFFICES ASSUME Init PROVE GttInv
    OBVIOUS
<1>1. ShapeInv
    BY ShapeInit
<1>2. /\ mon.pc = "idle" /\ mon.sym = "none" /\ mon.exits = {}
      /\ approval.sym = "none" /\ approval.stage = "idle"
      /\ up /\ "none" \notin Symbols /\ approval = NoApproval
    BY ConstantTypes DEF Init, Resting, NoApproval
<1>3. \A s \in Symbols : position[s] = 0 /\ dbPosition[s] = 0
                         /\ triggers[s] = NoTrigger /\ dbTriggers[s] = NoTrigger
    BY DEF Init
<1>4. \A g \in GttIds : gtts[g] = NoGtt /\ g \notin stray
    BY DEF Init
<1>5. ProcessInv
    BY <1>2 DEF ProcessInv, Init
<1>6. ExchangeInv
    BY <1>4 DEF ExchangeInv, NoGtt
<1>7. ASSUME NEW s \in Symbols PROVE SymbolInv(s)
    <2>1. triggers[s].gid = 0 /\ dbTriggers[s].gid = 0 /\ ~triggers[s].active
          /\ ~dbTriggers[s].active
        BY <1>3 DEF NoTrigger
    <2>2. Live(s) = {}
        BY <1>4 DEF Live, NoGtt
    <2>3. ~Exiting(s) /\ ~Unreconciled(s) /\ ~Unreplaced(s) /\ Book[s] = 0
        BY <1>2, <1>3 DEF Exiting, Unreconciled, Unreplaced, Busy, Book
    <2> QED
        BY <1>2, <2>1, <2>2, <2>3 DEF SymbolInv, IdInv, BuyInv, LiveInv, WatchInv, GuardInv
<1> QED
    BY <1>1, <1>5, <1>6, <1>7 DEF GttInv

\* Every step of an undisturbed process keeps the invariant.
LEMMA GttStep ==
    ASSUME Undisturbed
    PROVE  GttInv /\ [Next]_vars => GttInv'
<1> SUFFICES ASSUME GttInv, [Next]_vars PROVE GttInv'
    OBVIOUS
<1>0. ShapeInv'
    BY ShapeStep DEF GttInv
<1>1. CASE UNCHANGED vars
    <2>1. \A s \in Symbols : SymbolInv(s)' <=> SymbolInv(s)
        BY <1>1 DEF vars, memVars, dbVars, exchangeVars, histVars, SymbolInv, IdInv, BuyInv, LiveInv,
                    WatchInv, GuardInv, Live, Exiting, Unreconciled, Unreplaced, Busy, AtWork, Book,
                    Guards, Loaded
    <2>2. ProcessInv' /\ ExchangeInv'
        BY <1>1 DEF vars, memVars, dbVars, exchangeVars, histVars, GttInv, ProcessInv, ExchangeInv
    <2> QED
        BY <1>0, <2>1, <2>2 DEF GttInv
<1>2. CASE Next
    <2>1. CASE \E s \in Symbols, sig \in Signals : Approve(s, sig)
        BY <1>0, <2>1, GttApprove
    <2>2. CASE ApprovalStep
        <3>1. approval.sym \in Symbols
            BY <2>2 DEF ApprovalStep, PlaceGtt, InstallTrigger, GttInv, ProcessInv
        <3> QED
            BY <1>0, <2>2, <3>1, GttPlace, GttInstall DEF ApprovalStep
    <2>3. CASE Tick \/ BeginTrailing \/ EndCycle \/ EndReconcile \/ EndReplace \/ SellFilled
                 \/ (\E s \in Symbols : TrailStop(s))
        BY <1>0, <2>3, GttQuietMonitor
    <2>4. CASE \E s \in Symbols : PollGtt(s)
        BY <1>0, <2>4, GttPoll
    <2>5. CASE CheckAll
        BY <1>0, <2>5, GttCheckAll
    <2>6. CASE \E s \in Symbols : BeginExit(s)
        BY <1>0, <2>6, GttBeginExit
    <2>7. CASE SellRefused \/ BookSale \/ CancelGtt \/ SaveStop
        <3>1. mon.sym \in Symbols
            BY <2>7 DEF SellRefused, BookSale, CancelGtt, SaveStop, GttInv, ShapeInv, HandInv,
                        TypeOK, Monitor
        <3> QED
            BY <1>0, <2>7, <3>1, GttRefused, GttBookSale, GttCancel, GttSaveStop
    <2>8. CASE (\E s \in Symbols : Reconcile(s) \/ Replace(s)) \/ KeepReplacement
        <3>1. KeepReplacement => approval.sym \in Symbols
            BY DEF KeepReplacement, GttInv, ProcessInv
        <3> QED
            BY <1>0, <2>8, <3>1, GttReconcile, GttReplace, GttKept
    <2>9. CASE \E s \in Symbols : StrategyExit(s)
        BY <2>9 DEF StrategyExit, Undisturbed
    <2>10. CASE Crash
        BY <1>0, <2>10, GttCrash
    <2>11. CASE Start
        BY <1>0, <2>11, GttStart
    <2>12. CASE WorldStep
        BY <1>0, <2>12, GttWorld
    <2> QED
        BY <1>2, <2>1, <2>2, <2>3, <2>4, <2>5, <2>6, <2>7, <2>8, <2>9, <2>10, <2>11, <2>12
        DEF Next, MonitorStep
<1> QED
    BY <1>1, <1>2

LEMMA GttInvariant ==
    ASSUME Undisturbed
    PROVE  Spec => []GttInv
BY GttInit, GttStep, PTL DEF Spec

\* No GTT outlives its position: whatever the prices, the refusals and the
\* crashes, an order the exchange can still execute, and that no failed request
\* or crash cut loose, belongs to the position in the book, or to the exit that
\* is just cancelling it.
THEOREM GttsHavePositions == Undisturbed => (Spec => []LiveGttHasPosition)
<1> SUFFICES ASSUME Undisturbed PROVE Spec => []LiveGttHasPosition
    OBVIOUS
<1>1. GttInv => LiveGttHasPosition
    BY DEF GttInv, ExchangeInv, SymbolInv, LiveInv, Live, LiveGttHasPosition
<1> QED
    BY GttInvariant, <1>1, PTL

\* A position is watched by an active trigger of its own, or its row says so to
\* the next start, from its approval until its exit, unless a refused exit or a
\* crash left it unwatched.
THEOREM PositionsAreGuarded == Undisturbed => (Spec => []HeldIsGuarded)
<1> SUFFICES ASSUME Undisturbed PROVE Spec => []HeldIsGuarded
    OBVIOUS
<1>1. GttInv => HeldIsGuarded
    <2> SUFFICES ASSUME GttInv, NEW s \in Symbols, approval.sym = s
                 PROVE  approval.entry = Book[s]
        BY DEF GttInv, SymbolInv, GuardInv, HeldIsGuarded
    <2>1. up
        BY ConstantTypes DEF GttInv, ProcessInv, NoApproval
    <2> QED
        BY <2>1 DEF GttInv, SymbolInv, BuyInv, Book
<1> QED
    BY GttInvariant, <1>1, PTL

\* A position leaves the book only when its shares were sold: by the exit just
\* filled or by its own order on the exchange, and never because of an order an
\* earlier position of the symbol left behind.
THEOREM NothingClosesUnsold == Undisturbed => (Spec => NoPhantomClose)
<1> SUFFICES ASSUME Undisturbed PROVE Spec => NoPhantomClose
    OBVIOUS
<1> DEFINE Sold(s) ==
        up' /\ position[s] # 0 /\ position'[s] = 0 =>
            \/ mon.pc = "sold" /\ mon.sym = s
            \/ held'[s] # held[s]
            \/ \E g \in GttIds : gtts[g].st = "triggered" /\ gtts[g].entry = position[s]
<1>1. ASSUME GttInv, [Next]_vars, NEW s \in Symbols, position'[s] # position[s], up',
             position[s] # 0, position'[s] = 0
      PROVE  Sold(s)
    <2>0. /\ TypeOK /\ ProcessInv /\ position \in [Symbols -> Entries \cup {0}]
        BY <1>1 DEF GttInv, ShapeInv, TypeOK
    <2>1. Next
        BY <1>1 DEF vars, memVars
    <2>2. CASE \E r \in Symbols : PollGtt(r)
        <3> PICK r \in Symbols : PollGtt(r)
            BY <2>2
        <3> DEFINE t == triggers[r]
        <3>1. /\ t.active /\ t.gid # 0 /\ t.gst = "active" /\ GttAnswer(t.gid) = "triggered"
              /\ GttExit(r) /\ mon.pc = "poll"
            BY <1>1 DEF PollGtt
        <3>2. r = s
            BY <1>1, <2>0, <3>1 DEF GttExit
        <3>3. t.gid \in GttIds /\ gtts[t.gid].st = "triggered"
            BY <2>0, <3>1, IdTypes DEF GttAnswer
        <3>4. gtts[t.gid].entry = position[s]
            BY <1>1, <3>1, <3>2, <3>3 DEF GttInv, SymbolInv, WatchInv, Unreconciled
        <3> QED
            BY <3>3, <3>4
    <2>3. CASE BookSale
        BY <1>1, <2>0, <2>3 DEF BookSale
    <2>4. CASE Start
        BY <1>1, <2>0, <2>4 DEF Start, ProcessInv
    <2>5. CASE \E r \in Symbols, sig \in Signals : Approve(r, sig)
        BY <1>1, <2>0, <2>5 DEF Approve
    <2>6. CASE \E r \in Symbols : StrategyExit(r)
        BY <2>6 DEF StrategyExit, Undisturbed
    <2>7. CASE Crash
        BY <1>1, <2>7 DEF Crash
    <2>8. CASE \/ ApprovalStep \/ WorldStep \/ Tick \/ CheckAll \/ SellFilled \/ SellRefused
               \/ CancelGtt \/ BeginTrailing \/ SaveStop \/ EndCycle \/ EndReconcile
               \/ KeepReplacement \/ EndReplace
               \/ \E r \in Symbols : BeginExit(r) \/ TrailStop(r) \/ Reconcile(r) \/ Replace(r)
        BY <1>1, <2>8
        DEF ApprovalStep, PlaceGtt, InstallTrigger, WorldStep, MarketMoves, HoldTimeElapses, GttFires,
            GttLost, memVars, Tick, CheckAll, SellFilled, SellRefused, CancelGtt, BeginTrailing,
            SaveStop, EndCycle, EndReconcile, BeginExit, TrailStop, Reconcile, Replace,
            KeepReplacement, EndReplace
    <2> QED
        BY <2>1, <2>2, <2>3, <2>4, <2>5, <2>6, <2>7, <2>8 DEF Next, MonitorStep
<1>2. GttInv /\ [Next]_vars => [\A s \in Symbols : Sold(s)]_vars
    BY <1>1
<1> QED
    BY GttInvariant, <1>2, PTL DEF Spec, NoPhantomClose

---------------------------------------------------------------------------
(* What the application sells a second time *)

\* An order stays one of its symbol; one that has come to its end stays there, and is
\* executed by the exchange alone.
LEMMA OrdersEnd ==
    ASSUME GttInv, Next
    PROVE  \A g \in GttIds : g < nextGtt =>
               /\ gtts'[g].sym = gtts[g].sym
               /\ gtts'[g].st \in {"active", "triggered"} => gtts[g].st \in {"active", "triggered"}
               /\ gtts'[g].st = "triggered" /\ gtts[g].st # "triggered" =>
                      UNCHANGED <<mon, failures, triggers, dbTriggers>>
<1> DEFINE Ended ==
        \A g \in GttIds : g < nextGtt =>
            /\ gtts'[g].sym = gtts[g].sym
            /\ gtts'[g].st \in {"active", "triggered"} => gtts[g].st \in {"active", "triggered"}
            /\ gtts'[g].st = "triggered" /\ gtts[g].st # "triggered" =>
                   UNCHANGED <<mon, failures, triggers, dbTriggers>>
<1> SUFFICES Ended
    OBVIOUS
<1>1. /\ gtts \in [GttIds -> Gtt] /\ nextGtt \in Nat /\ GttIds \subseteq Nat
      /\ \A s \in Symbols : triggers[s].gid \in GttIds \cup {0}
    BY IdTypes DEF GttInv, ShapeInv, TypeOK, GttIds
<1>2. ASSUME UNCHANGED gtts
      PROVE  Ended
    BY <1>2
<1>3. ASSUME NEW s, NEW e, NEW sig, NewGtt(s, e, sig)
      PROVE  Ended
    <2>1. \A g \in GttIds : g < nextGtt => gtts'[g] = gtts[g]
        BY <1>1, <1>3 DEF NewGtt
    <2> QED
        BY <2>1
<1>4. ASSUME NEW g \in GttIds, DeleteGtt(g)
      PROVE  Ended
    BY <1>1, <1>4 DEF DeleteGtt, Gtt
<1>5. ASSUME NEW s \in Symbols, Deactivate(s)
      PROVE  Ended
    BY <1>1, <1>2, <1>4, <1>5 DEF Deactivate
<1>6. ASSUME NEW g \in GttIds, GttFires(g)
      PROVE  Ended
    BY <1>1, <1>6 DEF GttFires, memVars, dbVars, Gtt
<1>7. ASSUME NEW g \in GttIds, NEW st \in GttGone \cup {"deleted"}, GttLost(g, st)
      PROVE  Ended
    BY <1>1, <1>7 DEF GttLost, GttGone, Gtt
<1>8. CASE \E s \in Symbols, sig \in Signals : Approve(s, sig)
    BY <1>2, <1>8 DEF Approve
<1>9. CASE ApprovalStep
    BY <1>2, <1>3, <1>9 DEF ApprovalStep, PlaceGtt, InstallTrigger, exchangeVars
<1>10. CASE \/ Tick \/ CheckAll \/ SellFilled \/ SellRefused \/ BookSale \/ BeginTrailing
            \/ SaveStop \/ EndCycle \/ EndReconcile \/ KeepReplacement \/ EndReplace
            \/ (\E s \in Symbols : PollGtt(s) \/ Reconcile(s) \/ Replace(s))
    BY <1>2, <1>10 DEF Tick, CheckAll, SellFilled, SellRefused, BookSale, BeginTrailing, SaveStop,
        EndCycle, EndReconcile, KeepReplacement, EndReplace, PollGtt, Reconcile, Replace, exchangeVars
<1>11. CASE (\E s \in Symbols : BeginExit(s)) \/ CancelGtt
    <2>1. mon.sym \in Symbols \/ ~CancelGtt
        BY DEF GttInv, ShapeInv, HandInv, TypeOK, Monitor, CancelGtt
    <2> QED
        BY <1>2, <1>5, <1>11, <2>1 DEF BeginExit, CancelGtt
<1>12. CASE \E s \in Symbols : TrailStop(s)
    <2>1. UNCHANGED gtts \/ \E g \in GttIds : \E n : gtts' = [gtts EXCEPT ![g].stop = n]
        BY <1>1, <1>12 DEF TrailStop
    <2> QED
        BY <1>1, <2>1 DEF Gtt
<1>13. CASE (\E s \in Symbols : StrategyExit(s)) \/ Crash \/ Start
    BY <1>2, <1>13 DEF StrategyExit, Crash, Start, exchangeVars
<1>14. CASE WorldStep
    BY <1>2, <1>6, <1>7, <1>14 DEF WorldStep, MarketMoves, HoldTimeElapses, exchangeVars
<1> QED
    BY <1>8, <1>9, <1>10, <1>11, <1>12, <1>13, <1>14 DEF Next, MonitorStep

\* What the history of a step keeps and adds.
LEMMA SinceAsked ==
    ASSUME TypeOK, Track, mon'.pc # "idle", NEW g \in GttIds
    PROVE  /\ g \in unpolled =>
                  \/ g \in unpolled'
                  \/ mon.pc = "poll" /\ \E s \in mon.todo \ mon'.todo : triggers[s].gid = g
           /\ gtts[g].st # "triggered" /\ gtts'[g].st = "triggered" /\ failures' = failures
                  => g \in unpolled'
BY DEF Track

\* A step that leaves the symbol's trigger, row and place in the cycle alone, but
\* for deactivating them.
LEMMA AskedKept ==
    ASSUME GttInv, Next, NEW s \in Symbols, AskedInv(s), ProcessInv',
           triggers'[s].gid = triggers[s].gid,
           triggers'[s].active => triggers[s].active /\ triggers'[s].gst = triggers[s].gst,
           triggers[s].gst = "triggered" => triggers'[s].gst = "triggered",
           dbTriggers'[s].active =>
               \/ /\ dbTriggers[s].active
                  /\ dbTriggers'[s].gid = dbTriggers[s].gid
                  /\ dbTriggers'[s].gst = dbTriggers[s].gst
               \/ /\ triggers[s].active
                  /\ dbTriggers'[s].gid = triggers[s].gid
                  /\ dbTriggers'[s].gst = triggers[s].gst,
           Asked(s)' => Asked(s),
           mon.pc = "poll" => s \notin mon.todo \ mon'.todo
    PROVE  AskedInv(s)'
<1> DEFINE t == triggers[s]
           r == dbTriggers[s]
<1>1. /\ TypeOK /\ IdInv(s)
      /\ t.gid \in GttIds \cup {0} /\ r.gid \in GttIds \cup {0}
      /\ mon.todo \subseteq Symbols
    BY IdTypes DEF GttInv, ShapeInv, SymbolInv, TypeOK, Monitor
<1>2. \A g \in {t.gid, r.gid} : g # 0 => g \in GttIds /\ g < nextGtt
    BY <1>1 DEF IdInv
<1>3. \A g \in {t.gid, r.gid} :
          g # 0 /\ gtts[g].st \notin {"active", "triggered"}
              => gtts'[g].st \notin {"active", "triggered"}
    BY <1>2, OrdersEnd
<1>4. triggers'[s].active => Known(triggers[s])'
    BY <1>3 DEF AskedInv, Known
<1>5. dbTriggers'[s].active => Known(dbTriggers[s])'
    BY <1>3 DEF AskedInv, Known
<1>6. ASSUME Asked(s)', t.gid # 0, triggers'[s].gst # "triggered", gtts'[t.gid].st = "triggered"
      PROVE  t.gid \in unpolled'
    <2>1. mon'.pc # "idle"
        BY <1>6 DEF ProcessInv, Asked, Busy
    <2>2. Track /\ t.gid \in GttIds /\ t.gid < nextGtt
        BY <1>2, <1>6 DEF Next
    <2>3. CASE gtts[t.gid].st = "triggered"
        <3>1. t.gid \in unpolled
            BY <1>6, <2>3 DEF AskedInv
        <3>2. mon.pc = "poll" => \A x \in mon.todo \ mon'.todo : triggers[x].gid # t.gid
            <4> SUFFICES ASSUME mon.pc = "poll", NEW x \in mon.todo \ mon'.todo,
                                triggers[x].gid = t.gid
                         PROVE  FALSE
                OBVIOUS
            <4>1. x \in Symbols /\ x # s
                BY <1>1
            <4>2. gtts[t.gid].sym = x /\ gtts[t.gid].sym = s
                BY <1>1, <1>6, <4>1 DEF GttInv, SymbolInv, IdInv
            <4> QED
                BY <4>1, <4>2
        <3> QED
            BY <1>1, <2>1, <2>2, <3>1, <3>2, SinceAsked
    <2>4. CASE gtts[t.gid].st # "triggered"
        <3>1. failures' = failures
            BY <1>6, <2>2, <2>4, OrdersEnd
        <3> QED
            BY <1>1, <1>6, <2>1, <2>2, <2>4, <3>1, SinceAsked
    <2> QED
        BY <2>3, <2>4
<1> QED
    BY <1>4, <1>5, <1>6 DEF AskedInv

\* The approval installs its trigger: the cycle under way has not asked for it.
LEMMA AskedInstall ==
    ASSUME GttInv, Next, NEW s \in Symbols, AskedInv(s), ProcessInv', InstallTrigger,
           approval.sym = s
    PROVE  AskedInv(s)'
<1> DEFINE a == approval
<1>1. TypeOK /\ a.gid \in GttIds \cup {0}
    BY IdTypes DEF GttInv, ShapeInv
<1>2. /\ triggers'[s].gid = a.gid
      /\ triggers'[s].gst = IF a.gid # 0 THEN "active" ELSE "rejected"
      /\ dbTriggers'[s] = triggers'[s]
      /\ UNCHANGED <<mon, failures>>
      /\ a.stage = "install" /\ approval'.stage = "idle"
    BY <1>1 DEF InstallTrigger, NewTrigger, TriggerOf, NoApproval, TypeOK
<1>3. Known(triggers[s])' /\ Known(dbTriggers[s])'
    BY <1>2 DEF Known
<1>4. ASSUME Asked(s)', a.gid # 0
      PROVE  a.gid \in unpolled'
    <2>1. mon'.pc # "idle"
        BY <1>4 DEF ProcessInv, Asked, Busy
    <2>2. mon.todo \ mon'.todo = {}
        BY <1>2
    <2> QED
        BY <1>2, <1>4, <2>1, <2>2 DEF Next, Track
<1> QED
    BY <1>2, <1>3, <1>4 DEF AskedInv

\* An answer of the exchange settles what the trigger knows.
LEMMA AskedPoll ==
    ASSUME GttInv, Next, NEW s \in Symbols, AskedInv(s), ProcessInv', PollGtt(s)
    PROVE  AskedInv(s)'
<1> DEFINE t == triggers[s]
           r == dbTriggers[s]
           watched == t.active /\ t.gid # 0 /\ t.gst = "active"
<1>1. /\ TypeOK /\ t \in Trigger /\ r \in Trigger
      /\ t.gid \in GttIds \cup {0}
      /\ mon \in Monitor
      /\ mon.pc = "poll" /\ s \in mon.todo /\ mon.exits = {}
      /\ UNCHANGED gtts
    BY IdTypes DEF GttInv, ShapeInv, ProcessInv, TypeOK, PollGtt, exchangeVars
<1>2. dbTriggers'[s].active => Known(dbTriggers[s])'
    <2>1. dbTriggers'[s].active => dbTriggers'[s] = r
        BY <1>1 DEF PollGtt, GttExit, TypeOK, Trigger
    <2> QED
        BY <1>1, <2>1 DEF AskedInv, Known
<1>3. CASE mon' = Resting
    <2>1. ~Asked(s)'
        BY <1>3 DEF Asked, Busy, Resting
    <2>2. triggers'[s].active => triggers'[s] = t
        BY <1>1, <1>3 DEF PollGtt, GttExit, TypeOK, Trigger, Resting, Monitor
    <2>3. triggers'[s].active => Known(triggers[s])'
        BY <1>1, <2>2 DEF AskedInv, Known
    <2> QED
        BY <1>2, <2>1, <2>3 DEF AskedInv
<1>4. CASE watched /\ GttAnswer(t.gid) \in GttGone
              /\ triggers' = [triggers EXCEPT ![s].gst = GttAnswer(t.gid)]
    <2>1. /\ triggers'[s].gid = t.gid /\ triggers'[s].gst = gtts[t.gid].st
          /\ gtts[t.gid].st \in GttGone
        BY <1>1, <1>4 DEF TypeOK, Trigger, GttAnswer
    <2>2. gtts'[t.gid].st \notin {"active", "triggered"}
        BY <1>1, <2>1 DEF GttGone
    <2> QED
        BY <1>2, <2>1, <2>2 DEF AskedInv, Known
<1>5. CASE /\ ~watched \/ GttAnswer(t.gid) = "active" \/ Fails("statusError")
           /\ mon' = [mon EXCEPT !.todo = @ \ {s}]
           /\ UNCHANGED triggers
    <2>1. triggers'[s].active => Known(triggers[s])'
        BY <1>1, <1>5 DEF AskedInv, Known
    <2>2. ASSUME Asked(s)', t.gid # 0, t.gst # "triggered", gtts'[t.gid].st = "triggered"
          PROVE  t.gid \in unpolled'
        <3>1. mon'.pc = "poll" /\ mon'.exits = {} /\ t.active /\ s \in mon.todo \ mon'.todo
            BY <1>1, <1>5, <2>2 DEF Asked, Busy, Monitor
        <3>2. watched
            BY <1>1, <2>2, <3>1 DEF AskedInv, Known
        <3>3. failures' # failures
            <4>1. Fails("statusError")
                BY <1>1, <1>5, <2>2, <3>2 DEF GttAnswer
            <4> QED
                BY <1>1, <4>1, ConstantTypes DEF Fails, TypeOK
        <3> QED
            BY <1>1, <2>2, <3>1, <3>3 DEF Next, Track
    <2> QED
        BY <1>2, <1>5, <2>1, <2>2 DEF AskedInv
<1> QED
    BY <1>3, <1>4, <1>5 DEF PollGtt, GttExit

\* A start asks for the order of every active trigger.
LEMMA AskedReconcile ==
    ASSUME GttInv, Next, NEW s \in Symbols, AskedInv(s), Reconcile(s)
    PROVE  AskedInv(s)'
<1> DEFINE t == triggers[s]
           p == triggers'[s]
<1>1. /\ TypeOK /\ t \in Trigger /\ mon \in Monitor
      /\ mon.pc = "reconcile" /\ mon.exits = {}
      /\ UNCHANGED <<gtts, dbTriggers>>
    BY DEF GttInv, ShapeInv, ProcessInv, TypeOK, Reconcile, dbVars, exchangeVars
<1>2. ~Asked(s)'
    <2>1. mon'.pc = "reconcile" /\ mon'.exits = {}
        BY <1>1 DEF Reconcile, Monitor
    <2> QED
        BY <2>1 DEF Asked, Busy
<1>3. p.gid = 0 \/ (p.gid = t.gid /\ p.gst = gtts[t.gid].st)
    <2>1. ASSUME NEW st, triggers' = [triggers EXCEPT ![s].gid = 0, ![s].gst = st]
          PROVE  p.gid = 0
        <3>1. p = [[t EXCEPT !.gid = 0] EXCEPT !.gst = st]
            BY <1>1, <2>1 DEF TypeOK
        <3> QED
            BY <1>1, <3>1 DEF Trigger
    <2>2. CASE triggers' = [triggers EXCEPT ![s].gst = gtts[t.gid].st]
        <3>1. p = [t EXCEPT !.gst = gtts[t.gid].st]
            BY <1>1, <2>2 DEF TypeOK
        <3>2. p.gid = t.gid /\ p.gst = gtts[t.gid].st
            BY <1>1, <3>1 DEF Trigger
        <3> QED
            BY <3>2
    <2>3. CASE t.gid = 0 /\ UNCHANGED triggers
        BY <2>3
    <2> HIDE DEF p
    <2> QED
        BY <2>1, <2>2, <2>3 DEF Reconcile, GttAnswer
<1>4. Known(triggers[s])'
    BY <1>1, <1>3 DEF Known
<1> QED
    BY <1>1, <1>2, <1>4 DEF AskedInv, Known

\* A start gives the trigger and its row the order it placed again.
LEMMA AskedKeep ==
    ASSUME GttInv, Next, NEW s \in Symbols, AskedInv(s), ProcessInv', KeepReplacement
    PROVE  AskedInv(s)'
<1> DEFINE x == approval.sym
           placed == [triggers[x] EXCEPT !.gid = approval.gid, !.gst = "active",
                                        !.gstop = triggers[x].sig.stop]
<1>1. /\ TypeOK /\ mon.pc = "replace" /\ mon.exits = {} /\ mon' = mon /\ x \in Symbols
      /\ triggers[x] \in Trigger /\ "none" \notin Symbols /\ mon.sym = "none"
    BY ConstantTypes DEF GttInv, ShapeInv, HandInv, ProcessInv, TypeOK, KeepReplacement
<1>2. ~Asked(s)' /\ ~Asked(s)
    BY <1>1 DEF Asked, Busy
<1>3. CASE triggers'[s] = triggers[s] /\ dbTriggers'[s] = dbTriggers[s]
    BY <1>1, <1>2, <1>3, AskedKept
<1>4. CASE x = s /\ triggers' = [triggers EXCEPT ![x] = placed]
                 /\ dbTriggers' = [dbTriggers EXCEPT ![x] = placed]
    <2>1. placed.gst = "active"
        BY <1>1 DEF Trigger
    <2> HIDE DEF placed
    <2>2. triggers'[s] = placed /\ dbTriggers'[s] = placed
        BY <1>1, <1>4 DEF TypeOK
    <2> QED
        BY <1>2, <2>1, <2>2 DEF AskedInv, Known
<1> QED
    BY <1>1, <1>3, <1>4 DEF KeepReplacement, TypeOK

\* The steps of the approval, the start and the market that do not ask.
LEMMA AskedQuiet ==
    ASSUME GttInv, Next, NEW s \in Symbols, AskedInv(s), ProcessInv',
           \/ \E r \in Symbols, sig \in Signals : Approve(r, sig)
           \/ PlaceGtt
           \/ InstallTrigger /\ approval.sym # s
           \/ SellFilled \/ SellRefused \/ BookSale \/ BeginTrailing
           \/ EndCycle \/ EndReconcile \/ EndReplace
           \/ \E r \in Symbols : TrailStop(r) \/ Replace(r)
           \/ WorldStep
    PROVE  AskedInv(s)'
<1>1. /\ triggers \in [Symbols -> Trigger] /\ dbTriggers \in [Symbols -> Trigger]
      /\ mon \in Monitor
    BY DEF GttInv, ShapeInv, TypeOK
<1> DEFINE Same == triggers'[s] = triggers[s] /\ dbTriggers'[s] = dbTriggers[s]
           NotAsked == Asked(s)' => Asked(s)
           NotPolled == mon.pc = "poll" => s \notin mon.todo \ mon'.todo
<1>2. Same /\ NotAsked /\ NotPolled
    <2>1. CASE \/ \E r \in Symbols, sig \in Signals : Approve(r, sig)
               \/ PlaceGtt
               \/ WorldStep
        BY <2>1 DEF Approve, PlaceGtt, WorldStep, MarketMoves, HoldTimeElapses, GttFires, GttLost,
            Asked, Busy, memVars, dbVars
    <2>2. CASE InstallTrigger /\ approval.sym # s
        BY <1>1, <2>2 DEF InstallTrigger, Asked, Busy
    <2>3. CASE SellFilled \/ SellRefused \/ BookSale \/ BeginTrailing
        BY <1>1, <2>3 DEF SellFilled, SellRefused, BookSale, BeginTrailing, Asked, Busy, Monitor, dbVars
    <2>4. CASE EndCycle \/ EndReconcile \/ EndReplace \/ \E r \in Symbols : TrailStop(r) \/ Replace(r)
        <3>1. Same /\ mon.pc # "poll"
            BY <2>4 DEF EndCycle, EndReconcile, EndReplace, TrailStop, Replace, dbVars
        <3>2. CASE mon' = Resting
            <4>1. ~Asked(s)'
                BY <3>2 DEF Asked, Busy, Resting
            <4> QED
                BY <3>1, <4>1
        <3>3. CASE EndReconcile \/ \E r \in Symbols : TrailStop(r) \/ Replace(r)
            <4>1. mon'.pc \in {"replace", "trail", "modified"} /\ mon'.exits = mon.exits
                BY <1>1, <3>3 DEF EndReconcile, TrailStop, Replace, Monitor
            <4> QED
                BY <3>1, <4>1 DEF Asked, Busy
        <3> QED
            BY <2>4, <3>2, <3>3 DEF EndCycle, EndReplace
    <2> HIDE DEF Same, NotAsked, NotPolled
    <2> QED
        BY <2>1, <2>2, <2>3, <2>4
<1> QED
    BY <1>2, AskedKept

\* The beginning of a cycle: it has asked for nothing.
LEMMA AskedTick ==
    ASSUME Undisturbed, GttInv, Next, NEW s \in Symbols, AskedInv(s), ProcessInv', Tick
    PROVE  AskedInv(s)'
<1>1. UNCHANGED <<triggers, dbTriggers>> /\ mon.pc = "idle"
    BY DEF Tick, Undisturbed, dbVars
<1>2. /\ mon'.pc = "poll" /\ mon'.exits = {}
      /\ mon'.todo = ActiveTriggers(triggers)
    BY <1>1 DEF Tick, Undisturbed, GttInv, ShapeInv, ProcessInv, TypeOK, Monitor
<1>3. ~Asked(s)'
    BY <1>1, <1>2 DEF Asked, Busy, ActiveTriggers
<1> QED
    BY <1>1, <1>3, AskedKept

\* The exits of a cycle are triggers it has asked for.
LEMMA AskedCheckAll ==
    ASSUME GttInv, Next, NEW s \in Symbols, AskedInv(s), ProcessInv', CheckAll
    PROVE  AskedInv(s)'
<1> DEFINE t == triggers[s]
           r == dbTriggers[s]
           active == ActiveTriggers(triggers)
<1>1. /\ t \in Trigger /\ r \in Trigger /\ mon \in Monitor
      /\ mon.pc = "poll" /\ mon.todo = {} /\ mon.exits = {}
      /\ t.active => r.active
      /\ s \in active <=> t.active
    BY DEF GttInv, ShapeInv, TypeOK, ProcessInv, SymbolInv, WatchInv, CheckAll, ActiveTriggers
<1>2. CASE mon' = Resting /\ UNCHANGED <<triggers, dbTriggers>>
    <2>1. ~Asked(s)'
        BY <1>2 DEF Asked, Busy, Resting
    <2> QED
        BY <1>1, <1>2, <2>1, AskedKept
<1>3. ASSUME NEW quoted \in SUBSET (active \cap Priced), NEW due \in SUBSET quoted,
             NEW seen \in [Symbols -> Trigger],
             seen[s] = IF s \in quoted THEN WithPrice(t, price[s]) ELSE t,
             triggers' = [x \in Symbols |-> [seen[x] EXCEPT !.active = @ /\ x \notin due]],
             dbTriggers' = Persisted(active, triggers'),
             mon' = [mon EXCEPT !.pc = "exit", !.exits = due, !.quoted = quoted]
      PROVE  AskedInv(s)'
    <2>1. seen[s] \in Trigger /\ seen[s].gid = t.gid /\ seen[s].gst = t.gst /\ seen[s].active = t.active
        BY <1>1, <1>3 DEF WithPrice, Trigger
    <2>2. /\ triggers'[s].gid = t.gid /\ triggers'[s].gst = t.gst
          /\ triggers'[s].active => t.active
        BY <1>3, <2>1 DEF Trigger
    <2>3. /\ dbTriggers'[s].gid = r.gid /\ dbTriggers'[s].gst = r.gst
          /\ dbTriggers'[s].active => r.active
        <3>1. CASE t.active
            BY <1>1, <1>3, <3>1 DEF Persisted, Trigger
        <3>2. CASE ~t.active
            BY <1>1, <1>3, <3>2 DEF Persisted
        <3> QED
            BY <3>1, <3>2
    <2>4. Asked(s)' => Asked(s)
        <3>1. mon'.pc = "exit" /\ mon'.exits = due
            BY <1>1, <1>3 DEF Monitor
        <3>2. s \in due => t.active
            BY <1>1, <1>3
        <3> QED
            BY <1>1, <3>1, <3>2 DEF Asked, Busy
    <2> QED
        BY <1>1, <2>2, <2>3, <2>4, AskedKept
<1>4. CheckAll
    OBVIOUS
<1> QED
    <2>1. PICK quoted \in SUBSET (active \cap Priced) :
             LET seen == [x \in Symbols |-> IF x \in quoted
                                              THEN WithPrice(triggers[x], price[x])
                                              ELSE triggers[x]]
                 due == {x \in quoted : Due(seen[x], price[x])}
                 after == [x \in Symbols |-> [seen[x] EXCEPT !.active = @ /\ x \notin due]]
             IN  IF quoted = {}
                   THEN /\ mon' = Resting
                        /\ UNCHANGED <<triggers, dbTriggers>>
                   ELSE /\ triggers' = after
                        /\ dbTriggers' = Persisted(active, after)
                        /\ mon' = [mon EXCEPT !.pc = "exit", !.exits = due,
                                                !.quoted = quoted]
        BY <1>4 DEF CheckAll
    <2> DEFINE seen == [x \in Symbols |-> IF x \in quoted
                                            THEN WithPrice(triggers[x], price[x])
                                            ELSE triggers[x]]
               due == {x \in quoted : Due(seen[x], price[x])}
    <2>2. seen \in [Symbols -> Trigger]
        <3>1. \A x \in Symbols : triggers[x] \in Trigger /\ price[x] \in Nat
            BY ConstantTypes DEF GttInv, ShapeInv, TypeOK
        <3>2. \A x \in Symbols : BestOf(triggers[x].sig.dir, triggers[x].best, price[x]) \in Nat
            BY <3>1 DEF BestOf, Trigger
        <3> QED
            BY <3>1, <3>2, TriggerTypes DEF WithPrice
    <2>3. seen[s] = IF s \in quoted THEN WithPrice(t, price[s]) ELSE t
        OBVIOUS
    <2>4. due \in SUBSET quoted
        OBVIOUS
    <2>5. CASE quoted = {}
        BY <1>2, <2>1, <2>5
    <2>6. CASE quoted # {}
        <3>1. /\ triggers' = [x \in Symbols |-> [seen[x] EXCEPT !.active = @ /\ x \notin due]]
              /\ dbTriggers' = Persisted(active, triggers')
              /\ mon' = [mon EXCEPT !.pc = "exit", !.exits = due, !.quoted = quoted]
            BY <2>1, <2>6
        <3> HIDE DEF seen, due
        <3> QED
            BY <1>3, <2>2, <2>3, <2>4, <3>1
    <2> QED
        BY <2>5, <2>6

\* An exit goes on: the symbol in hand was asked for, a trigger that is given up
\* still knows what it knew.
LEMMA AskedExit ==
    ASSUME GttInv, Next, NEW s \in Symbols, AskedInv(s), ProcessInv',
           (\E r \in Symbols : BeginExit(r)) \/ CancelGtt
    PROVE  AskedInv(s)'
<1>1. /\ triggers \in [Symbols -> Trigger] /\ dbTriggers \in [Symbols -> Trigger]
      /\ mon \in Monitor /\ "none" \notin Symbols
      /\ CancelGtt => mon.sym \in Symbols
    BY ConstantTypes DEF GttInv, ShapeInv, TypeOK, HandInv, Monitor, CancelGtt
<1>2. ASSUME NEW r \in Symbols, Deactivate(r)
      PROVE  /\ triggers'[s].gid = triggers[s].gid
             /\ triggers'[s].active => triggers[s].active /\ triggers'[s].gst = triggers[s].gst
             /\ triggers[s].gst = "triggered" => triggers'[s].gst = "triggered"
             /\ dbTriggers'[s].active => dbTriggers'[s] = dbTriggers[s]
    BY <1>1, <1>2 DEF Deactivate, Trigger
<1>3. Asked(s)' => Asked(s)
    <2>1. CASE CancelGtt
        <3>1. mon'.pc = "exit" /\ mon'.exits = mon.exits
            BY <1>1, <2>1 DEF CancelGtt, Monitor
        <3> QED
            BY <3>1 DEF Asked, Busy
    <2>2. ASSUME NEW r \in Symbols, BeginExit(r)
          PROVE  Asked(s)' => Asked(s)
        <3>1. r \in mon.exits /\ mon.pc = "exit"
            BY <2>2 DEF BeginExit
        <3>2. CASE mon' = [mon EXCEPT !.exits = @ \ {r}]
            <4>1. mon'.pc = "exit" /\ mon'.exits \subseteq mon.exits
                BY <1>1, <3>1, <3>2 DEF Monitor
            <4> QED
                BY <4>1 DEF Asked, Busy
        <3>3. CASE mon' = [mon EXCEPT !.pc = "sell", !.sym = r, !.exits = @ \ {r}]
            <4>1. mon'.pc = "sell" /\ mon'.sym = r /\ mon'.exits \subseteq mon.exits
                BY <1>1, <3>1, <3>3 DEF Monitor
            <4> QED
                BY <3>1, <4>1 DEF Asked, Busy
        <3> QED
            BY <2>2, <3>2, <3>3 DEF BeginExit
    <2> QED
        BY <2>1, <2>2
<1>4. mon.pc # "poll"
    BY DEF BeginExit, CancelGtt
<1>5. CASE \E r \in Symbols : BeginExit(r) /\ position[r] # 0
    BY <1>3, <1>4, <1>5, AskedKept DEF BeginExit
<1>6. CASE \E r \in Symbols : Deactivate(r)
    BY <1>2, <1>3, <1>4, <1>6, AskedKept
<1> QED
    BY <1>1, <1>5, <1>6 DEF BeginExit, CancelGtt

\* A moved stop rewrites the row with what the trigger knows.
LEMMA AskedSaveStop ==
    ASSUME GttInv, Next, NEW s \in Symbols, AskedInv(s), ProcessInv', SaveStop
    PROVE  AskedInv(s)'
<1>1. /\ triggers \in [Symbols -> Trigger] /\ dbTriggers \in [Symbols -> Trigger]
      /\ mon \in Monitor /\ mon.pc = "modified" /\ mon.sym \in Symbols
      /\ mon'.pc = "trail" /\ mon'.exits = mon.exits
    BY DEF GttInv, ShapeInv, TypeOK, HandInv, Monitor, SaveStop
<1>2. ASSUME NEW u \in Trigger, u = [triggers[s] EXCEPT !.gstop = TrailingStop(triggers[s])]
      PROVE  u.gid = triggers[s].gid /\ u.active = triggers[s].active /\ u.gst = triggers[s].gst
    BY <1>1, <1>2 DEF Trigger
<1>3. [triggers[s] EXCEPT !.gstop = TrailingStop(triggers[s])] \in Trigger
    BY <1>1, TriggerTypes, TrailingStopType
<1>4. CASE mon.sym = s
    <2>1. /\ triggers'[s] = [triggers[s] EXCEPT !.gstop = TrailingStop(triggers[s])]
          /\ dbTriggers'[s] = triggers'[s]
        BY <1>1, <1>4 DEF SaveStop
    <2>2. Asked(s)' => Asked(s)
        BY <1>1 DEF Asked, Busy
    <2> QED
        BY <1>1, <1>2, <1>3, <2>1, <2>2, AskedKept
<1>5. CASE mon.sym # s
    <2>1. triggers'[s] = triggers[s] /\ dbTriggers'[s] = dbTriggers[s]
        BY <1>1, <1>5 DEF SaveStop
    <2>2. Asked(s)' => Asked(s)
        BY <1>1 DEF Asked, Busy
    <2> QED
        BY <1>1, <2>1, <2>2, AskedKept
<1> QED
    BY <1>4, <1>5

\* The answers for other symbols.
LEMMA AskedOther ==
    ASSUME GttInv, Next, NEW s \in Symbols, AskedInv(s), ProcessInv',
           NEW r \in Symbols \ {s}, PollGtt(r) \/ Reconcile(r)
    PROVE  AskedInv(s)'
<1>1. /\ triggers \in [Symbols -> Trigger] /\ dbTriggers \in [Symbols -> Trigger]
      /\ mon \in Monitor
    BY DEF GttInv, ShapeInv, TypeOK
<1>2. triggers'[s] = triggers[s] /\ dbTriggers'[s] = dbTriggers[s]
    BY <1>1 DEF PollGtt, GttExit, Reconcile, dbVars
<1>3. mon' = Resting \/ mon' = [mon EXCEPT !.todo = @ \ {r}]
    BY DEF PollGtt, GttExit, Reconcile
<1>4. CASE mon' = [mon EXCEPT !.todo = @ \ {r}]
    <2>1. /\ mon'.pc = mon.pc /\ mon'.exits = mon.exits /\ mon'.sym = mon.sym
          /\ s \in mon'.todo <=> s \in mon.todo
        BY <1>1, <1>4 DEF Monitor
    <2>2. Asked(s)' => Asked(s)
        BY <1>2, <2>1 DEF Asked, Busy
    <2> QED
        BY <1>2, <2>1, <2>2, AskedKept
<1>5. CASE mon' = Resting
    <2>1. ~Asked(s)' /\ mon'.pc = "idle"
        BY <1>5 DEF Asked, Busy, Resting
    <2>2. \A g \in {triggers[s].gid, dbTriggers[s].gid} :
              g # 0 /\ gtts[g].st \notin {"active", "triggered"}
                  => gtts'[g].st \notin {"active", "triggered"}
        BY OrdersEnd, IdTypes DEF GttInv, ShapeInv, SymbolInv, IdInv
    <2> QED
        BY <1>2, <2>1, <2>2 DEF AskedInv, Known
<1> QED
    BY <1>3, <1>4, <1>5

\* A crash forgets, a start reads what the rows know.
LEMMA AskedRestart ==
    ASSUME GttInv, NEW s \in Symbols, AskedInv(s), Crash \/ Start
    PROVE  AskedInv(s)'
<1>1. UNCHANGED <<gtts, dbTriggers>>
    BY DEF Crash, Start, dbVars, exchangeVars
<1>2. /\ mon'.pc \in {"idle", "reconcile"} /\ mon'.exits = {}
    <2>1. \/ mon' = Resting
          \/ mon' = [Resting EXCEPT !.pc = "reconcile", !.todo = ActiveTriggers(Loaded)]
        BY DEF Crash, Start
    <2>2. Resting \in Monitor /\ Resting.pc = "idle" /\ Resting.exits = {}
        BY MonitorTypes DEF Resting
    <2> QED
        BY <2>1, <2>2 DEF Monitor
<1>3. ~Asked(s)'
    BY <1>2 DEF Asked, Busy
<1>4. triggers'[s].active => triggers'[s] = dbTriggers[s] /\ dbTriggers[s].active
    BY DEF Crash, Start, Loaded, NoTrigger
<1> QED
    BY <1>1, <1>3, <1>4 DEF AskedInv, Known

AllAsked == \A s \in Symbols : AskedInv(s)

LEMMA AskedInit == Init => AllAsked
BY DEF Init, AllAsked, AskedInv, Asked, Busy, NoTrigger, Resting

\* Every step keeps what the cycle does not know within what happened since.
LEMMA AskedStep ==
    ASSUME Undisturbed
    PROVE  GttInv /\ GttInv' /\ AllAsked /\ [Next]_vars => AllAsked'
<1> SUFFICES ASSUME GttInv, GttInv', AllAsked, [Next]_vars, NEW s \in Symbols
             PROVE  AskedInv(s)'
    BY DEF AllAsked
<1>0. AskedInv(s) /\ ProcessInv'
    BY DEF AllAsked, GttInv
<1>1. CASE UNCHANGED vars
    BY <1>0, <1>1 DEF AskedInv, Known, Asked, Busy, vars, memVars, dbVars, exchangeVars
<1>2. CASE Next
    <2>1. CASE \/ \E r \in Symbols, sig \in Signals : Approve(r, sig)
               \/ SellFilled \/ SellRefused \/ BookSale \/ BeginTrailing
               \/ EndCycle \/ EndReconcile \/ EndReplace
               \/ \E r \in Symbols : TrailStop(r) \/ Replace(r)
               \/ WorldStep
        BY <1>0, <1>2, <2>1, AskedQuiet
    <2>2. CASE ApprovalStep
        BY <1>0, <1>2, <2>2, AskedQuiet, AskedInstall DEF ApprovalStep
    <2>3. CASE Tick \/ CheckAll \/ SaveStop \/ CancelGtt \/ \E r \in Symbols : BeginExit(r)
        BY <1>0, <1>2, <2>3, AskedTick, AskedCheckAll, AskedSaveStop, AskedExit
    <2>4. CASE (\E r \in Symbols : PollGtt(r) \/ Reconcile(r)) \/ KeepReplacement
        BY <1>0, <1>2, <2>4, AskedPoll, AskedReconcile, AskedOther, AskedKeep
    <2>5. CASE \E r \in Symbols : StrategyExit(r)
        BY <2>5 DEF StrategyExit, Undisturbed
    <2>6. CASE Crash \/ Start
        BY <1>0, <2>6, AskedRestart
    <2> QED
        BY <1>2, <2>1, <2>2, <2>3, <2>4, <2>5, <2>6 DEF Next, MonitorStep
<1> QED
    BY <1>1, <1>2

\* A position its order has already sold is sold again by the application only
\* when the exchange executed the order, or the approval installed the trigger,
\* after the running cycle had asked for the status: through restarts,
\* replacements, failed requests and exits of other symbols, with any number of
\* positions and orders.
THEOREM SoldTwiceOnlyAfterPoll == Undisturbed => (Spec => []SoldTwiceOnlyInWindow)
<1> SUFFICES ASSUME Undisturbed PROVE Spec => []SoldTwiceOnlyInWindow
    OBVIOUS
<1>1. AllAsked => SoldTwiceOnlyInWindow
    BY DEF AllAsked, AskedInv, Asked, Busy, SoldTwiceOnlyInWindow
<1> QED
    BY GttInvariant, AskedInit, AskedStep, <1>1, PTL DEF Spec

---------------------------------------------------------------------------
(* The orders that are cut loose *)

CutLoose(s) == {g \in stray : gtts[g].sym = s}

\* Each failed request and each crash cuts loose at most one order of a symbol.
StrayInv == \A s \in Symbols : Cardinality(CutLoose(s)) <= failures + crashes

\* What a step cuts loose, one order of a symbol at most.
Loosens(X) ==
    /\ stray' = stray \cup X
    /\ X \subseteq GttIds
    /\ \A g, h \in X : gtts'[g].sym = gtts'[h].sym => g = h

\* Nothing cuts loose what it does not count.
LEMMA LooseningCounts ==
    ASSUME GttInv, Next
    PROVE  \/ stray' = stray /\ failures' + crashes' >= failures + crashes
           \/ failures' + crashes' = failures + crashes + 1 /\ \E X : Loosens(X)
<1> DEFINE Nothing == stray' = stray /\ failures' + crashes' >= failures + crashes
           Counted == failures' + crashes' = failures + crashes + 1
           Some == Counted /\ \E X : Loosens(X)
<1> SUFFICES Nothing \/ Some
    OBVIOUS
<1>1. /\ failures \in Nat /\ crashes \in Nat /\ 0 \notin GttIds
      /\ \A s \in Symbols : triggers[s].gid \in GttIds \cup {0}
      /\ approval.gid \in GttIds \cup {0}
    BY IdTypes, ConstantTypes DEF GttInv, ShapeInv, TypeOK, GttIds
<1>2. ASSUME UNCHANGED stray, UNCHANGED crashes, UNCHANGED failures \/ \E k : Fails(k)
      PROVE  Nothing
    BY <1>1, <1>2 DEF Fails
<1>3. ASSUME NEW g \in GttIds, NEW k, Fails(k), UNCHANGED crashes, stray' = stray \cup {g}
      PROVE  Some
    <2>1. Loosens({g})
        BY <1>3 DEF Loosens
    <2> QED
        BY <1>1, <1>3, <2>1 DEF Fails
<1>4. ASSUME NEW s \in Symbols, Deactivate(s), UNCHANGED crashes
      PROVE  Nothing \/ Some
    <2>1. triggers[s].gid # 0 => triggers[s].gid \in GttIds
        BY <1>1
    <2>2. CASE triggers[s].gid # 0 /\ DeleteGtt(triggers[s].gid)
        <3>1. \/ UNCHANGED <<stray, failures>>
              \/ Fails("deleteFailed") /\ stray' = stray \cup {triggers[s].gid}
            BY <2>2 DEF DeleteGtt, NoFailure
        <3> HIDE DEF Nothing, Some
        <3> QED
            BY <1>2, <1>3, <1>4, <2>1, <2>2, <3>1
    <2>3. CASE UNCHANGED <<stray, failures>>
        BY <1>2, <1>4, <2>3
    <2> HIDE DEF Nothing, Some
    <2> QED
        BY <1>4, <2>2, <2>3 DEF Deactivate, NoFailure
<1>5. CASE Crash
    <2> DEFINE a == approval.gid
               c == triggers[mon.sym].gid
               X == ({a} \cup {triggers[s].gid : s \in Busy({"cancel"})}) \ {0}
    <2>1. stray' = stray \cup X /\ crashes' = crashes + 1 /\ UNCHANGED <<failures, gtts>>
        BY <1>5 DEF Crash, exchangeVars
    <2>2. X \subseteq {a, c} /\ X \subseteq GttIds
        BY <1>1 DEF Busy
    <2>3. ASSUME a \in X, c \in X, a # c, gtts[a].sym = gtts[c].sym
          PROVE  FALSE
        <3>1. mon.sym \in Symbols /\ mon.pc = "cancel" /\ a # 0 /\ c # 0
            BY <2>3 DEF Busy
        <3>2. approval.sym \in Symbols
            BY <3>1 DEF GttInv, ProcessInv, NoApproval
        <3>3. gtts[a].sym = approval.sym /\ gtts[c].sym = mon.sym
            BY <3>1, <3>2 DEF GttInv, SymbolInv, IdInv
        <3>4. ~AtWork(approval.sym)
            BY <3>1, <3>2 DEF GttInv, SymbolInv, BuyInv
        <3> QED
            BY <2>3, <3>3, <3>4 DEF AtWork
    <2> HIDE DEF X, a, c
    <2>4. Loosens(X)
        BY <2>1, <2>2, <2>3 DEF Loosens
    <2> QED
        BY <1>1, <2>1, <2>4
<1> HIDE DEF Nothing, Some
<1>6. CASE ApprovalStep
    <2>1. CASE UNCHANGED stray
        BY <1>2, <1>6, <2>1 DEF ApprovalStep, PlaceGtt, InstallTrigger, NoFailure
    <2>2. CASE PlaceGtt /\ Fails("placeLost") /\ stray' = stray \cup {nextGtt}
                        /\ NewGtt(approval.sym, approval.entry, approval.sig)
        <3>1. nextGtt \in GttIds
            BY <2>2, ConstantTypes DEF NewGtt, GttIds, GttInv, ShapeInv, TypeOK
        <3> QED
            BY <1>3, <2>2, <3>1 DEF PlaceGtt
    <2> QED
        BY <1>6, <2>1, <2>2 DEF ApprovalStep, PlaceGtt, InstallTrigger, histVars
<1>7. CASE \E s \in Symbols : Reconcile(s)
    <2> PICK s \in Symbols : Reconcile(s)
        BY <1>7
    <2>1. \/ UNCHANGED <<stray, failures>>
          \/ triggers[s].gid # 0 /\ Fails("statusError") /\ stray' = stray \cup {triggers[s].gid}
        BY DEF Reconcile, NoFailure
    <2>2. UNCHANGED crashes
        BY DEF Reconcile
    <2> QED
        BY <1>1, <1>2, <1>3, <2>1, <2>2
<1>8. CASE CancelGtt \/ \E s \in Symbols : BeginExit(s)
    <2>1. CancelGtt => mon.sym \in Symbols
        BY DEF CancelGtt, GttInv, ShapeInv, HandInv, TypeOK, Monitor
    <2> QED
        BY <1>2, <1>4, <1>8, <2>1 DEF CancelGtt, BeginExit, NoFailure
<1>9. CASE \/ \E s \in Symbols, sig \in Signals : Approve(s, sig)
           \/ \E s \in Symbols : StrategyExit(s) \/ PollGtt(s) \/ TrailStop(s) \/ Replace(s)
           \/ Start \/ Tick \/ CheckAll \/ SellFilled \/ SellRefused \/ BookSale \/ BeginTrailing
           \/ SaveStop \/ EndCycle \/ EndReconcile \/ KeepReplacement \/ EndReplace \/ WorldStep
    <2>1. UNCHANGED <<stray, crashes>> /\ (UNCHANGED failures \/ \E k : Fails(k))
        BY <1>9 DEF Approve, StrategyExit, PollGtt, TrailStop, Replace, Start, Tick, CheckAll,
            SellFilled, SellRefused, BookSale, BeginTrailing, SaveStop, EndCycle, EndReconcile,
            KeepReplacement, EndReplace, WorldStep, MarketMoves, HoldTimeElapses, GttFires, GttLost,
            NoFailure, histVars
    <2> QED
        BY <1>2, <2>1
<1> QED
    BY <1>5, <1>6, <1>7, <1>8, <1>9 DEF Next, MonitorStep

\* A set that gains one element at most.
LEMMA OneMore ==
    ASSUME NEW S, IsFiniteSet(S), NEW x, NEW T \in SUBSET (S \cup {x})
    PROVE  Cardinality(T) <= Cardinality(S) + 1
<1> DEFINE U == S \cup {x}
<1>1. IsFiniteSet(U) /\ Cardinality(U) = IF x \in S THEN Cardinality(S) ELSE Cardinality(S) + 1
    BY FS_AddElement, Zenon
<1>2. Cardinality(S) \in Nat
    BY FS_CardinalityType
<1> HIDE DEF U
<1>3. IsFiniteSet(T) /\ Cardinality(T) <= Cardinality(U)
    <2>1. T \in SUBSET U
        BY DEF U
    <2> QED
        BY <1>1, <2>1, FS_Subset
<1>4. Cardinality(T) \in Nat
    BY <1>3, FS_CardinalityType
<1> QED
    BY <1>1, <1>2, <1>3, <1>4

LEMMA StrayStep ==
    ASSUME GttInv, GttInv', StrayInv, [Next]_vars
    PROVE  StrayInv'
<1>1. /\ failures \in Nat /\ crashes \in Nat /\ failures' \in Nat /\ crashes' \in Nat
      /\ stray \subseteq GttIds /\ stray' \subseteq GttIds /\ IsFiniteSet(GttIds)
      /\ GttIds \subseteq Nat /\ nextGtt \in Nat
    <2>1. IsFiniteSet(GttIds)
        BY ConstantTypes, FS_Interval DEF GttIds
    <2> QED
        BY <2>1, IdTypes, ConstantTypes DEF GttInv, ShapeInv, TypeOK, GttIds
<1>2. CASE UNCHANGED vars
    BY <1>2 DEF vars, histVars, exchangeVars, StrayInv, CutLoose
<1>3. CASE Next
    <2> SUFFICES ASSUME NEW s \in Symbols
                 PROVE  Cardinality(CutLoose(s)') <= failures' + crashes'
        BY DEF StrayInv
    <2> DEFINE old == CutLoose(s)
               new == CutLoose(s)'
    <2>1. IsFiniteSet(old) /\ IsFiniteSet(new)
        <3>1. old \in SUBSET GttIds /\ new \in SUBSET GttIds
            BY <1>1 DEF CutLoose
        <3> QED
            BY <1>1, <3>1, FS_Subset
    <2>2. \A g \in stray : gtts'[g].sym = gtts[g].sym
        <3>1. \A g \in stray : g \in GttIds /\ g < nextGtt
            BY <1>1 DEF GttInv, ExchangeInv
        <3> QED
            BY <1>3, <3>1, OrdersEnd
    <2>3. stray' = stray => new = old
        BY <2>2 DEF CutLoose
    <2>4. (\E X : Loosens(X)) => \E x : new \subseteq old \cup {x}
        <3> SUFFICES ASSUME NEW X, Loosens(X)
                     PROVE  \E x : new \subseteq old \cup {x}
            OBVIOUS
        <3>1. CASE \E x \in X : gtts'[x].sym = s
            BY <2>2, <3>1 DEF CutLoose, Loosens
        <3>2. CASE ~ \E x \in X : gtts'[x].sym = s
            BY <2>2, <3>2 DEF CutLoose, Loosens
        <3> QED
            BY <3>1, <3>2
    <2>5. Cardinality(old) <= failures + crashes
        BY DEF StrayInv
    <2> HIDE DEF old, new
    <2>6. Cardinality(old) \in Nat /\ Cardinality(new) \in Nat
        BY <2>1, FS_CardinalityType
    <2>7. (\E x : new \subseteq old \cup {x}) => Cardinality(new) <= Cardinality(old) + 1
        BY <2>1, OneMore
    <2>8. \/ Cardinality(new) = Cardinality(old) /\ failures' + crashes' >= failures + crashes
          \/ /\ Cardinality(new) <= Cardinality(old) + 1
             /\ failures' + crashes' = failures + crashes + 1
        BY <1>3, <2>3, <2>4, <2>7, LooseningCounts, Zenon
    <2>9. Cardinality(new) <= failures' + crashes'
        <3> DEFINE mishaps == failures + crashes
                   now == failures' + crashes'
        <3>1. mishaps \in Nat /\ now \in Nat
            <4>1. \A f, c \in Nat : f + c \in Nat
                OBVIOUS
            <4> QED
                BY <1>1, <4>1, Zenon
        <3>2. /\ Cardinality(old) <= mishaps
              /\ \/ Cardinality(new) = Cardinality(old) /\ now >= mishaps
                 \/ Cardinality(new) <= Cardinality(old) + 1 /\ now = mishaps + 1
            BY <2>5, <2>8
        <3> HIDE DEF mishaps, now
        <3>3. Cardinality(new) <= now
            BY <2>6, <3>1, <3>2
        <3> QED
            BY <3>3 DEF now
    <2> QED
        BY <2>9 DEF new
<1> QED
    BY <1>2, <1>3

\* The orders of a symbol the application knows of never stand on the exchange
\* together: neither the retries of an approval nor those of a start sell twice.  A
\* placement whose answer is lost, a refused deletion, an unreadable status and a crash
\* between the exchange's answer and the row cut an order loose, and no failed request
\* and no crash cuts loose two of one symbol.
THEOREM OneGttPerSymbol == Undisturbed => (Spec => []SingleGtt)
<1> SUFFICES ASSUME Undisturbed PROVE Spec => []SingleGtt
    OBVIOUS
<1>1. Init => StrayInv
    <2>1. Init => \A s \in Symbols : CutLoose(s) = {}
        BY DEF Init, CutLoose
    <2> QED
        BY <2>1, FS_EmptySet DEF Init, StrayInv
<1>2. GttInv /\ StrayInv => SingleGtt
    <2> SUFFICES ASSUME GttInv, StrayInv, NEW s \in Symbols
                 PROVE  LET Firing == {g \in GttIds : gtts[g].st = "active" /\ gtts[g].sym = s}
                        IN  /\ \A g, h \in Firing \ stray : g = h
                            /\ Cardinality(Firing \cap stray) <= failures + crashes
        BY DEF SingleGtt
    <2> DEFINE Firing == {g \in GttIds : gtts[g].st = "active" /\ gtts[g].sym = s}
    <2>1. \A g, h \in Firing \ stray : g = h
        <3>1. Firing \ stray = Live(s)
            BY DEF Live
        <3> QED
            BY <3>1 DEF GttInv, SymbolInv, LiveInv
    <2>2. Cardinality(Firing \cap stray) <= failures + crashes
        <3>1. /\ IsFiniteSet(GttIds) /\ stray \subseteq GttIds
              /\ failures \in Nat /\ crashes \in Nat
            BY ConstantTypes, FS_Interval DEF GttIds, GttInv, ShapeInv, TypeOK
        <3>2. /\ CutLoose(s) \in SUBSET GttIds
              /\ Firing \cap stray \in SUBSET CutLoose(s)
            BY <3>1 DEF CutLoose
        <3>3. /\ IsFiniteSet(CutLoose(s)) /\ Cardinality(CutLoose(s)) \in Nat
              /\ IsFiniteSet(Firing \cap stray) /\ Cardinality(Firing \cap stray) \in Nat
              /\ Cardinality(Firing \cap stray) <= Cardinality(CutLoose(s))
            <4>1. IsFiniteSet(CutLoose(s))
                BY <3>1, <3>2, FS_Subset
            <4> QED
                BY <3>2, <4>1, FS_Subset, FS_CardinalityType
        <3>4. Cardinality(CutLoose(s)) <= failures + crashes
            BY DEF StrayInv
        <3> QED
            BY <3>1, <3>3, <3>4
    <2> QED
        BY <2>1, <2>2
<1>3. GttInv /\ GttInv' /\ StrayInv /\ [Next]_vars => StrayInv'
    BY StrayStep
<1> QED
    BY GttInvariant, <1>1, <1>2, <1>3, PTL DEF Spec

---------------------------------------------------------------------------
(* Where the stop of an order stands *)

\* A trigger of an approved signal, with a price it has seen.
Priceable(t) == t.sig \in Signals /\ t.best > 0

\* The stop on the exchange is no better than the one the trigger remembers, or
\* than the one it would ask for: a crash may have come between the two.
Follows(t) ==
    LET o == gtts[t.gid]
    IN  /\ o.dir = t.sig.dir
        /\ t.gstop > 0 \/ o.dir = Buy
        /\ \/ ~Better(o.dir, o.stop, t.gstop)
           \/ ~Better(o.dir, o.stop, TrailingStop(t))

\* The trigger and its row follow their orders and track the same price; the order
\* of an approval stands where the signal says, which is the trigger's own when a start
\* places again; a stop that was just moved is the one about to be remembered.
StopInv(s) ==
    LET t == triggers[s]
        r == dbTriggers[s]
        a == approval
    IN  /\ t.active => Priceable(t) /\ r.best = t.best /\ r.sig = t.sig
        /\ r.active => Priceable(r)
        /\ t.active /\ t.gid # 0 => Follows(t)
        /\ r.active /\ r.gid # 0 => Follows(r)
        /\ a.sym = s => a.sig \in Signals
        /\ a.sym = s /\ mon.pc = "replace" => a.sig = t.sig
        /\ a.sym = s /\ a.gid # 0 => gtts[a.gid].dir = a.sig.dir /\ gtts[a.gid].stop = a.sig.stop
        /\ mon.pc = "modified" /\ s = mon.sym =>
               /\ t.active /\ t.gid # 0
               /\ ~Better(t.sig.dir, gtts[t.gid].stop, TrailingStop(t))

\* The comparisons of a side.
LEMMA BetterCases ==
    ASSUME NEW dir \in {Buy, Sell}, NEW a \in Nat, NEW b \in Nat
    PROVE  Better(dir, a, b) <=> IF dir = Buy THEN a > b ELSE b > a
<1>1. CASE dir = Buy
    BY <1>1 DEF Better, Buy
<1>2. CASE dir = Sell
    BY <1>2 DEF Better, Buy, Sell
<1> QED
    BY <1>1, <1>2

\* A price that is no worse gives a trailing stop that is no worse.
LEMMA TrailingStopMoves ==
    ASSUME NEW t \in Trigger, NEW u \in Trigger, t.sig = u.sig,
           ~Better(t.sig.dir, t.best, u.best)
    PROVE  ~Better(t.sig.dir, TrailingStop(t), TrailingStop(u))
<1> DEFINE c == 100 - t.sig.dir * TrailingPct
<1>1. /\ t.best \in Nat /\ u.best \in Nat /\ t.sig.dir \in {Buy, Sell}
      /\ TrailingStop(t) \in Nat /\ TrailingStop(u) \in Nat
    BY TrailingStopType, SignalTypes DEF Trigger
<1>2. c \in Nat
    <2>1. CASE t.sig.dir = Buy
        BY <2>1, ConstantTypes DEF Buy
    <2>2. CASE t.sig.dir = Sell
        BY <2>2, ConstantTypes DEF Sell
    <2> QED
        BY <1>1, <2>1, <2>2
<1>3. \A a, b \in Nat : a <= b => (a * c) \div 100 <= (b * c) \div 100
    <2> HIDE DEF c
    <2> SUFFICES ASSUME NEW a \in Nat, NEW b \in Nat, a <= b
                 PROVE  (a * c) \div 100 <= (b * c) \div 100
        OBVIOUS
    <2>1. a * c \in Nat /\ b * c \in Nat /\ a * c <= b * c
        <3>1. b = a + (b - a) /\ b - a \in Nat
            OBVIOUS
        <3>2. b * c = a * c + (b - a) * c
            BY <1>2, <3>1
        <3>3. (b - a) * c \in Nat /\ a * c \in Nat
            BY <1>2, <3>1
        <3> QED
            BY <3>2, <3>3
    <2>2. \A x, y \in Nat : x <= y => x \div 100 <= y \div 100
        OBVIOUS
    <2> QED
        BY <2>1, <2>2
<1>4. TrailingStop(t) = (t.best * c) \div 100 /\ TrailingStop(u) = (u.best * c) \div 100
    BY DEF TrailingStop
<1>5. t.sig.dir = Buy => t.best <= u.best
    BY <1>1, BetterCases
<1>6. t.sig.dir # Buy => u.best <= t.best
    BY <1>1, BetterCases
<1> HIDE DEF c
<1>7. t.sig.dir = Buy => TrailingStop(t) <= TrailingStop(u)
    BY <1>1, <1>3, <1>4, <1>5
<1>8. t.sig.dir # Buy => TrailingStop(u) <= TrailingStop(t)
    BY <1>1, <1>3, <1>4, <1>6
<1> QED
    BY <1>1, <1>7, <1>8, BetterCases

\* The trailing stop of a short position is never 0.
LEMMA ShortStopPositive ==
    ASSUME NEW t \in Trigger, t.best > 0, t.sig.dir = Sell
    PROVE  TrailingStop(t) > 0
<1>1. t.best \in Nat /\ TrailingPct \in Nat
    BY ConstantTypes DEF Trigger
<1>2. 100 - t.sig.dir * TrailingPct = 100 + TrailingPct
    BY <1>1 DEF Sell
<1>3. t.best * (100 + TrailingPct) = t.best * 100 + t.best * TrailingPct /\ t.best * TrailingPct \in Nat
    BY <1>1
<1>4. t.best * (100 + TrailingPct) \in Nat /\ t.best * (100 + TrailingPct) >= 100
    BY <1>1, <1>3
<1>5. \A x \in Nat : x >= 100 => x \div 100 > 0
    OBVIOUS
<1> QED
    BY <1>2, <1>4, <1>5 DEF TrailingStop

\* What the fields of a trigger and an order are.
LEMMA StopTypes ==
    ASSUME TypeOK
    PROVE  /\ \A s \in Symbols :
                  /\ triggers[s] \in Trigger /\ dbTriggers[s] \in Trigger
           /\ \A t \in Trigger :
                  /\ t.best \in Nat /\ t.gstop \in Nat /\ t.gid \in GttIds \cup {0}
                  /\ TrailingStop(t) \in Nat
                  /\ t.sig.dir \in {Buy, Sell} /\ t.sig.stop \in Nat
           /\ \A g \in GttIds : gtts[g].stop \in Nat /\ gtts[g].dir \in {Buy, Sell}
<1>1. \A t \in Trigger : t.sig \in Signals \cup {NoSignal}
    BY DEF Trigger
<1> QED
    BY <1>1, TrailingStopType, SignalTypes DEF TypeOK, Trigger, Gtt

\* A stop that is moved is moved in the position's favour.
LEMMA MovedStop ==
    ASSUME TypeOK, NEW s \in Symbols, StopInv(s),
           triggers[s].active, triggers[s].gid # 0, Improves(triggers[s])
    PROVE  LET t == triggers[s]
           IN  ~Better(gtts[t.gid].dir, gtts[t.gid].stop, TrailingStop(t))
<1> DEFINE t == triggers[s]
           o == gtts[t.gid]
<1>1. /\ t \in Trigger /\ t.gid \in GttIds
      /\ t.gstop \in Nat /\ TrailingStop(t) \in Nat
      /\ o.stop \in Nat /\ o.dir \in {Buy, Sell}
    BY StopTypes
<1>2. Follows(t)
    BY DEF StopInv
<1>3. CASE ~Better(o.dir, o.stop, t.gstop)
    <2>1. CASE Better(t.sig.dir, TrailingStop(t), t.gstop)
        <3>1. Better(o.dir, TrailingStop(t), t.gstop)
            BY <1>2, <2>1 DEF Follows
        <3> QED
            BY <1>1, <1>3, <3>1, BetterCases
    <2>2. CASE t.gstop = 0
        <3>1. o.dir = Buy
            BY <1>1, <1>2, <2>2 DEF Follows
        <3> QED
            BY <1>1, <1>3, <2>2, <3>1, BetterCases
    <2> QED
        BY <2>1, <2>2 DEF Improves
<1> QED
    BY <1>2, <1>3 DEF Follows

\* Only the trailing update touches the terms of an order.
LEMMA StopsStand ==
    ASSUME GttInv, Next
    PROVE  \A g \in GttIds : g < nextGtt =>
               /\ gtts'[g].dir = gtts[g].dir
               /\ gtts'[g].stop = gtts[g].stop \/ \E s \in Symbols : TrailStop(s)
<1> DEFINE Stand == \A g \in GttIds : g < nextGtt =>
               gtts'[g].dir = gtts[g].dir /\ gtts'[g].stop = gtts[g].stop
<1>1. /\ gtts \in [GttIds -> Gtt] /\ nextGtt \in Nat /\ GttIds \subseteq Nat
      /\ \A s \in Symbols : triggers[s].gid \in GttIds \cup {0}
    BY IdTypes DEF GttInv, ShapeInv, TypeOK, GttIds
<1>2. ASSUME UNCHANGED gtts
      PROVE  Stand
    BY <1>2
<1>3. ASSUME NEW s, NEW e, NEW sig, NewGtt(s, e, sig)
      PROVE  Stand
    <2>1. \A g \in GttIds : g < nextGtt => gtts'[g] = gtts[g]
        BY <1>1, <1>3 DEF NewGtt
    <2> QED
        BY <2>1
<1>4. ASSUME NEW g \in GttIds, NEW st, gtts' = [gtts EXCEPT ![g].st = st]
      PROVE  Stand
    BY <1>1, <1>4 DEF Gtt
<1>5. ASSUME NEW s \in Symbols, Deactivate(s)
      PROVE  Stand
    BY <1>1, <1>2, <1>4, <1>5 DEF Deactivate, DeleteGtt
<1>6. CASE \E s \in Symbols, sig \in Signals : Approve(s, sig)
    BY <1>2, <1>6 DEF Approve
<1>7. CASE ApprovalStep
    BY <1>2, <1>3, <1>7 DEF ApprovalStep, PlaceGtt, InstallTrigger, exchangeVars
<1>8. CASE \/ Tick \/ CheckAll \/ SellFilled \/ SellRefused \/ BookSale \/ BeginTrailing
           \/ SaveStop \/ EndCycle \/ EndReconcile \/ KeepReplacement \/ EndReplace
           \/ (\E s \in Symbols : PollGtt(s) \/ Reconcile(s) \/ Replace(s))
    BY <1>2, <1>8 DEF Tick, CheckAll, SellFilled, SellRefused, BookSale, BeginTrailing, SaveStop,
        EndCycle, EndReconcile, KeepReplacement, EndReplace, PollGtt, Reconcile, Replace, exchangeVars
<1>9. CASE (\E s \in Symbols : BeginExit(s)) \/ CancelGtt
    <2>1. mon.sym \in Symbols \/ ~CancelGtt
        BY DEF GttInv, ShapeInv, HandInv, TypeOK, Monitor, CancelGtt
    <2> QED
        BY <1>2, <1>5, <1>9, <2>1 DEF BeginExit, CancelGtt
<1>10. CASE \E s \in Symbols : TrailStop(s)
    <2>1. UNCHANGED gtts \/ \E g \in GttIds : \E n : gtts' = [gtts EXCEPT ![g].stop = n]
        BY <1>1, <1>10 DEF TrailStop
    <2>2. \A g \in GttIds : gtts'[g].dir = gtts[g].dir
        BY <1>1, <2>1 DEF Gtt
    <2> QED
        BY <1>10, <2>2
<1>11. CASE (\E s \in Symbols : StrategyExit(s)) \/ Crash \/ Start
    BY <1>2, <1>11 DEF StrategyExit, Crash, Start, exchangeVars
<1>12. CASE WorldStep
    BY <1>2, <1>4, <1>12 DEF WorldStep, MarketMoves, HoldTimeElapses, GttFires, GttLost, exchangeVars
<1> QED
    BY <1>6, <1>7, <1>8, <1>9, <1>10, <1>11, <1>12 DEF Next, MonitorStep

LEMMA StopsKept ==
    ASSUME GttInv, Next, mon.pc # "trail" \/ mon' \in {mon, Resting} \/ up' # up
    PROVE  \A g \in GttIds : g < nextGtt =>
               gtts'[g].dir = gtts[g].dir /\ gtts'[g].stop = gtts[g].stop
<1>1. ASSUME NEW s \in Symbols, TrailStop(s)
      PROVE  FALSE
    <2>1. mon \in Monitor
        BY DEF GttInv, ShapeInv, TypeOK
    <2>2. /\ mon.pc = "trail" /\ up' = up
          /\ s \in mon.todo /\ s \notin mon'.todo /\ mon'.pc \in {"trail", "modified"}
        BY <1>1, <2>1 DEF TrailStop, Monitor
    <2>3. mon' # Resting
        BY <2>2 DEF Resting
    <2> QED
        BY <2>2, <2>3
<1> QED
    BY <1>1, StopsStand

\* The same terms for a trigger that asks for no less.
LEMMA FollowsKept ==
    ASSUME TypeOK, TypeOK', NEW t \in Trigger, NEW u \in Trigger, u.gid = t.gid, t.gid # 0,
           u.sig = t.sig, u.gstop = t.gstop, ~Better(t.sig.dir, t.best, u.best),
           gtts'[t.gid].dir = gtts[t.gid].dir, gtts'[t.gid].stop = gtts[t.gid].stop,
           Follows(t)
    PROVE  Follows(u)'
<1> DEFINE o == gtts[t.gid]
<1>1. /\ t.gid \in GttIds /\ o.stop \in Nat /\ o.dir \in {Buy, Sell}
      /\ TrailingStop(t) \in Nat /\ TrailingStop(u) \in Nat
    BY StopTypes
<1>2. ~Better(o.dir, TrailingStop(t), TrailingStop(u))
    BY TrailingStopMoves DEF Follows
<1>3. CASE ~Better(o.dir, o.stop, TrailingStop(t))
    <2>1. ~Better(o.dir, o.stop, TrailingStop(u))
        BY <1>1, <1>2, <1>3, BetterCases
    <2> QED
        BY <2>1 DEF Follows, TrailingStop, Better
<1> QED
    BY <1>3 DEF Follows, TrailingStop, Better

\* A step that leaves the symbol's trigger, row and approval alone, but for their
\* flags and an order id that is given up.
LEMMA StopKept ==
    ASSUME GttInv, GttInv', NEW s \in Symbols, StopInv(s),
           LET t == triggers[s]
               u == triggers'[s]
               r == dbTriggers[s]
               v == dbTriggers'[s]
           IN  /\ u.active => /\ t.active /\ u.gid \in {t.gid, 0}
                              /\ u.sig = t.sig /\ u.best = t.best /\ u.gstop = t.gstop
                              /\ v.sig = r.sig /\ v.best = r.best
               /\ v.active => /\ r.active /\ v.gid = r.gid
                              /\ v.sig = r.sig /\ v.best = r.best /\ v.gstop = r.gstop,
           approval' = approval \/ approval'.sym # s,
           mon'.pc = "replace" => mon.pc = "replace" \/ approval'.sym # s,
           mon'.pc = "modified" /\ mon'.sym = s =>
               mon.pc = "modified" /\ mon.sym = s /\ triggers'[s] = triggers[s],
           \A g \in GttIds : g < nextGtt /\ gtts[g].sym = s =>
               gtts'[g].dir = gtts[g].dir /\ gtts'[g].stop = gtts[g].stop
    PROVE  StopInv(s)'
<1> DEFINE t == triggers[s]
           r == dbTriggers[s]
           a == approval
<1>1. /\ TypeOK /\ TypeOK' /\ IdInv(s)
      /\ t \in Trigger /\ r \in Trigger /\ triggers'[s] \in Trigger /\ dbTriggers'[s] \in Trigger
      /\ t.gid \in GttIds \cup {0} /\ r.gid \in GttIds \cup {0} /\ a.gid \in GttIds \cup {0}
      /\ \A u \in Trigger : u.best \in Nat /\ u.sig.dir \in {Buy, Sell}
    BY StopTypes, IdTypes DEF GttInv, ShapeInv, SymbolInv, TypeOK
<1>2. \A u \in Trigger : ~Better(u.sig.dir, u.best, u.best)
    BY <1>1, BetterCases
<1>3. ASSUME triggers'[s].active, triggers'[s].gid # 0
      PROVE  Follows(triggers[s])'
    <2>1. t.gid # 0 /\ t.gid < nextGtt /\ gtts[t.gid].sym = s /\ triggers'[s].gid = t.gid /\ Follows(t)
        BY <1>1, <1>3 DEF StopInv, IdInv
    <2> QED
        BY <1>1, <1>2, <1>3, <2>1, FollowsKept DEF Follows
<1>4. ASSUME dbTriggers'[s].active, dbTriggers'[s].gid # 0
      PROVE  Follows(dbTriggers[s])'
    <2>1. r.gid # 0 /\ r.gid < nextGtt /\ gtts[r.gid].sym = s /\ dbTriggers'[s].gid = r.gid /\ Follows(r)
        BY <1>1, <1>4 DEF StopInv, IdInv
    <2> QED
        BY <1>1, <1>2, <1>4, <2>1, FollowsKept DEF Follows
<1>5. approval'.sym = s =>
          /\ approval' = a /\ a.sym = s /\ a.sig \in Signals
          /\ a.gid # 0 => /\ a.gid < nextGtt /\ gtts[a.gid].sym = s
                          /\ gtts[a.gid].dir = a.sig.dir /\ gtts[a.gid].stop = a.sig.stop
    BY <1>1 DEF StopInv, IdInv
<1>6. mon'.pc = "modified" /\ s = mon'.sym =>
          /\ triggers'[s] = t /\ t.active /\ t.gid # 0 /\ t.gid < nextGtt /\ gtts[t.gid].sym = s
          /\ ~Better(t.sig.dir, gtts[t.gid].stop, TrailingStop(t))
    BY <1>1 DEF StopInv, IdInv
<1>7. triggers'[s].active => Priceable(triggers'[s])
                             /\ dbTriggers'[s].best = triggers'[s].best
                             /\ dbTriggers'[s].sig = triggers'[s].sig
    BY DEF StopInv, Priceable
<1>8. dbTriggers'[s].active => Priceable(dbTriggers'[s])
    BY DEF StopInv, Priceable
<1>9. approval'.sym = s /\ mon'.pc = "replace" => approval'.sig = triggers'[s].sig
    <2>1. approval'.sym = s /\ mon'.pc = "replace" => triggers'[s].active
        BY DEF GttInv, SymbolInv, BuyInv
    <2> QED
        BY <1>5, <2>1 DEF StopInv
<1> QED
    BY <1>1, <1>3, <1>4, <1>5, <1>6, <1>7, <1>8, <1>9 DEF StopInv, Priceable, TrailingStop, Better

\* A purchase, and its order.
LEMMA StopApproval ==
    ASSUME GttInv, GttInv', Next, NEW s \in Symbols, StopInv(s),
           (\E r \in Symbols, sig \in Signals : Approve(r, sig)) \/ PlaceGtt
    PROVE  StopInv(s)'
<1> DEFINE a == approval
<1>1. UNCHANGED <<triggers, dbTriggers, mon>>
    BY DEF Approve, PlaceGtt, dbVars
<1>2. \A g \in GttIds : g < nextGtt => gtts'[g].dir = gtts[g].dir /\ gtts'[g].stop = gtts[g].stop
    BY <1>1, StopsKept
<1>3. CASE approval'.sym # s \/ approval' = a
    BY <1>1, <1>2, <1>3, StopKept
<1>4. CASE approval'.sym = s
    <2>1. /\ approval'.sig \in Signals
          /\ mon.pc = "replace" => approval'.sig = triggers[s].sig
          /\ approval'.gid # 0 => /\ gtts'[approval'.gid].dir = approval'.sig.dir
                                  /\ gtts'[approval'.gid].stop = approval'.sig.stop
        <3>1. CASE \E r \in Symbols, sig \in Signals : Approve(r, sig)
            BY <3>1 DEF Approve, NoApproval
        <3>2. CASE PlaceGtt
            <4>1. /\ a \in Approval /\ a.sym = s /\ a.sig \in Signals /\ a.gid = 0
                  /\ mon.pc = "replace" => a.sig = triggers[s].sig
                  /\ nextGtt \in 1..(MaxGtts + 1)
                  /\ gtts \in [GttIds -> Gtt]
                <5>1. a \in Approval /\ gtts \in [GttIds -> Gtt] /\ nextGtt \in 1..(MaxGtts + 1)
                    BY DEF GttInv, ShapeInv, TypeOK
                <5>2. approval'.sym = a.sym
                    BY <3>2, <5>1 DEF PlaceGtt, Retry, Approval
                <5>3. a.gid = 0
                    BY <3>2 DEF PlaceGtt, GttInv, ProcessInv
                <5> QED
                    BY <1>4, <5>1, <5>2, <5>3 DEF StopInv
            <4>2. CASE approval' = Retry
                BY <4>1, <4>2 DEF Retry, Approval
            <4>3. CASE /\ approval' = [a EXCEPT !.stage = "install", !.gid = nextGtt]
                       /\ NewGtt(a.sym, a.entry, a.sig)
                <5>1. nextGtt \in GttIds
                    BY <4>1, <4>3, ConstantTypes DEF NewGtt, GttIds
                <5>2. /\ gtts'[nextGtt].dir = a.sig.dir /\ gtts'[nextGtt].stop = a.sig.stop
                    BY <4>1, <4>3, <5>1 DEF NewGtt
                <5>3. approval'.gid = nextGtt /\ approval'.sig = a.sig
                    BY <4>1, <4>3 DEF Approval
                <5> QED
                    BY <4>1, <5>2, <5>3
            <4> QED
                BY <3>2, <4>2, <4>3 DEF PlaceGtt
        <3> QED
            BY <3>1, <3>2
    <2>2. /\ triggers[s].active /\ triggers[s].gid # 0 => Follows(triggers[s])'
          /\ dbTriggers[s].active /\ dbTriggers[s].gid # 0 => Follows(dbTriggers[s])'
          /\ mon.pc = "modified" /\ s = mon.sym => /\ triggers[s].active /\ triggers[s].gid # 0
                /\ ~Better(triggers[s].sig.dir, gtts'[triggers[s].gid].stop, TrailingStop(triggers[s]))
        <3>1. /\ triggers[s].gid # 0 => triggers[s].gid \in GttIds /\ triggers[s].gid < nextGtt
              /\ dbTriggers[s].gid # 0 => dbTriggers[s].gid \in GttIds /\ dbTriggers[s].gid < nextGtt
            BY IdTypes DEF GttInv, ShapeInv, SymbolInv, IdInv
        <3> QED
            BY <1>1, <1>2, <3>1 DEF StopInv, Follows, TrailingStop, Better
    <2> QED
        BY <1>1, <2>1, <2>2 DEF StopInv, Priceable, TrailingStop, Better
<1> QED
    BY <1>3, <1>4

\* A new trigger and its row start where the signal says.
LEMMA StopInstall ==
    ASSUME GttInv, GttInv', Next, NEW s \in Symbols, StopInv(s), InstallTrigger, approval.sym = s
    PROVE  StopInv(s)'
<1> DEFINE a == approval
           u == triggers'[s]
<1>1. /\ u = TriggerOf(a) /\ dbTriggers'[s] = u /\ UNCHANGED <<gtts, mon>>
      /\ approval' = NoApproval /\ a.sig \in Signals
      /\ ~AtWork(s)
    BY DEF InstallTrigger, NewTrigger, GttInv, ShapeInv, TypeOK, StopInv, SymbolInv, BuyInv, exchangeVars
<1>2. u.sig = a.sig /\ u.best = a.sig.entry /\ u.gid = a.gid
      /\ (a.gid # 0 => u.gstop = a.sig.stop)
    BY <1>1 DEF TriggerOf
<1>3. a.sig.entry > 0 /\ a.sig.stop > 0 /\ a.sig.stop \in Nat /\ a.sig.dir \in {Buy, Sell}
    BY <1>1, AutoSellAssumption
<1>4. a.gid # 0 => gtts[a.gid].dir = a.sig.dir /\ gtts[a.gid].stop = a.sig.stop
    BY DEF StopInv
<1>5. a.gid # 0 => Follows(triggers[s])'
    <2>1. ~Better(a.sig.dir, a.sig.stop, a.sig.stop)
        BY <1>3, BetterCases
    <2> QED
        BY <1>1, <1>2, <1>3, <1>4, <2>1 DEF Follows, Better
<1>6. mon'.sym # s
    BY <1>1 DEF AtWork
<1>7. approval'.sym # s
    BY <1>1, ConstantTypes DEF NoApproval
<1> QED
    BY <1>1, <1>2, <1>3, <1>5, <1>6, <1>7 DEF StopInv, Priceable, Follows, TrailingStop, Better

\* The steps of the cycle and the world that move no stop.
LEMMA StopQuiet ==
    ASSUME Undisturbed, GttInv, GttInv', Next, NEW s \in Symbols, StopInv(s),
           \/ InstallTrigger /\ approval.sym # s
           \/ Tick \/ SellFilled \/ SellRefused \/ BookSale \/ CancelGtt \/ BeginTrailing
           \/ EndCycle \/ EndReconcile \/ EndReplace \/ WorldStep
           \/ \E r \in Symbols : PollGtt(r) \/ BeginExit(r) \/ Reconcile(r)
           \/ SaveStop /\ mon.sym # s
    PROVE  StopInv(s)'
<1>1. /\ triggers \in [Symbols -> Trigger] /\ dbTriggers \in [Symbols -> Trigger]
      /\ mon \in Monitor /\ "none" \notin Symbols
    BY ConstantTypes DEF GttInv, ShapeInv, TypeOK
<1> DEFINE Books ==
        LET t == triggers[s]
            u == triggers'[s]
            r == dbTriggers[s]
            v == dbTriggers'[s]
        IN  /\ u.active => /\ t.active /\ u.gid \in {t.gid, 0}
                           /\ u.sig = t.sig /\ u.best = t.best /\ u.gstop = t.gstop
                           /\ v.sig = r.sig /\ v.best = r.best
            /\ v.active => /\ r.active /\ v.gid = r.gid
                           /\ v.sig = r.sig /\ v.best = r.best /\ v.gstop = r.gstop
           Rest == /\ approval' = approval \/ approval'.sym # s
                   /\ mon'.pc = "replace" => mon.pc = "replace" \/ approval'.sym # s
                   /\ mon'.pc = "modified" /\ mon'.sym = s =>
                          mon.pc = "modified" /\ mon.sym = s /\ triggers'[s] = triggers[s]
                   /\ mon.pc # "trail" \/ mon' \in {mon, Resting} \/ up' # up
<1>2. ASSUME Books, Rest
      PROVE  StopInv(s)'
    <2>1. \A g \in GttIds : g < nextGtt => gtts'[g].dir = gtts[g].dir /\ gtts'[g].stop = gtts[g].stop
        BY <1>2, StopsKept
    <2> QED
        BY <1>2, <2>1, StopKept
<1>3. ASSUME triggers'[s] = triggers[s], dbTriggers'[s] = dbTriggers[s]
      PROVE  Books
    BY <1>3
<1>4. CASE InstallTrigger /\ approval.sym # s
    <2>1. Books
        BY <1>1, <1>3, <1>4 DEF InstallTrigger
    <2>2. Rest
        BY <1>1, <1>4 DEF InstallTrigger, NoApproval
    <2> QED
        BY <1>2, <2>1, <2>2
<1>5. CASE \/ Tick \/ SellFilled \/ SellRefused \/ BookSale \/ BeginTrailing
           \/ EndCycle \/ EndReconcile \/ EndReplace
    <2>1. Books
        BY <1>3, <1>5 DEF Tick, SellFilled, SellRefused, BookSale, BeginTrailing, EndCycle,
            EndReconcile, EndReplace, Undisturbed, dbVars
    <2>2. /\ UNCHANGED approval /\ mon'.pc # "modified" /\ (mon.pc # "trail" \/ mon' = Resting)
          /\ mon'.pc = "replace" => mon.pc = "reconcile"
        <3>1. CASE Tick \/ SellFilled \/ SellRefused \/ BookSale \/ BeginTrailing \/ EndReconcile
            BY <1>1, <3>1 DEF Tick, SellFilled, SellRefused, BookSale, BeginTrailing, EndReconcile, Monitor
        <3>2. CASE EndCycle \/ EndReplace
            BY <3>2 DEF EndCycle, EndReplace, Resting
        <3> QED
            BY <1>5, <3>1, <3>2
    <2>3. mon.pc = "reconcile" => approval.sym # s
        BY <1>1 DEF GttInv, ProcessInv, NoApproval
    <2> QED
        BY <1>2, <2>1, <2>2, <2>3
<1>6. CASE WorldStep
    <2>1. Books
        BY <1>3, <1>6 DEF WorldStep, MarketMoves, HoldTimeElapses, GttFires, GttLost, memVars, dbVars
    <2>2. Rest
        BY <1>6 DEF WorldStep, MarketMoves, HoldTimeElapses, GttFires, GttLost, memVars
    <2> QED
        BY <1>2, <2>1, <2>2
<1>7. ASSUME NEW r \in Symbols, PollGtt(r)
      PROVE  StopInv(s)'
    <2>1. Books
        <3>1. \/ triggers'[s] = triggers[s]
              \/ triggers'[s] = [triggers[s] EXCEPT !.gst = GttAnswer(triggers[s].gid)]
              \/ ~triggers'[s].active
            BY <1>1, <1>7 DEF PollGtt, GttExit, Trigger
        <3>2. dbTriggers'[s] = dbTriggers[s] \/ (~dbTriggers'[s].active /\ ~triggers'[s].active)
            BY <1>1, <1>7 DEF PollGtt, GttExit, Trigger
        <3> QED
            BY <1>1, <3>1, <3>2 DEF Trigger
    <2>2. UNCHANGED approval /\ mon'.pc \notin {"modified", "replace"} /\ mon.pc # "trail"
        BY <1>1, <1>7 DEF PollGtt, GttExit, Monitor, Resting
    <2> QED
        BY <1>2, <2>1, <2>2
<1>8. CASE CancelGtt \/ \E r \in Symbols : BeginExit(r)
    <2>1. ASSUME NEW r \in Symbols, Deactivate(r)
          PROVE  Books
        BY <1>1, <1>3, <2>1 DEF Deactivate, Trigger
    <2>2. Books
        <3>1. CancelGtt => mon.sym \in Symbols
            BY <1>1 DEF CancelGtt, GttInv, ShapeInv, HandInv, Monitor
        <3> HIDE DEF Books
        <3> QED
            BY <1>3, <1>8, <2>1, <3>1 DEF CancelGtt, BeginExit
    <2>3. UNCHANGED approval /\ mon.pc # "trail" /\ mon.pc # "modified"
        BY <1>8 DEF CancelGtt, BeginExit
    <2>4. mon'.pc \notin {"modified", "replace"}
        BY <1>1, <1>8 DEF CancelGtt, BeginExit, Monitor
    <2> QED
        BY <1>2, <2>2, <2>3, <2>4
<1>9. ASSUME NEW r \in Symbols, Reconcile(r)
      PROVE  StopInv(s)'
    <2>1. /\ triggers[r].active /\ UNCHANGED dbTriggers
          /\ mon.pc = "reconcile" /\ mon'.pc = "reconcile" /\ UNCHANGED approval
        <3>1. /\ mon.pc = "reconcile" /\ r \in mon.todo /\ mon' = [mon EXCEPT !.todo = @ \ {r}]
              /\ UNCHANGED <<dbTriggers, approval>>
            BY <1>9 DEF Reconcile, dbVars
        <3>2. triggers[r].active
            BY <3>1 DEF GttInv, SymbolInv, WatchInv, Unreconciled
        <3> QED
            BY <1>1, <3>1, <3>2 DEF Monitor
    <2>2. \/ triggers'[s] = triggers[s]
          \/ \E g \in {triggers[s].gid, 0} : \E st : r = s /\
                 triggers'[s] = [[triggers[s] EXCEPT !.gid = g] EXCEPT !.gst = st]
        <3>1. CASE r = s
            <4>1. CASE UNCHANGED triggers
                BY <4>1
            <4>2. CASE triggers' = [triggers EXCEPT ![s].gst = GttAnswer(triggers[s].gid)]
                <5>1. triggers'[s] = [[triggers[s] EXCEPT !.gid = triggers[s].gid]
                                         EXCEPT !.gst = GttAnswer(triggers[s].gid)]
                    BY <1>1, <4>2 DEF Trigger
                <5> QED
                    BY <3>1, <5>1
            <4>3. ASSUME NEW st, triggers' = [triggers EXCEPT ![s].gid = 0, ![s].gst = st]
                  PROVE  triggers'[s] = [[triggers[s] EXCEPT !.gid = 0] EXCEPT !.gst = st]
                BY <1>1, <4>3
            <4> QED
                BY <1>9, <3>1, <4>1, <4>2, <4>3 DEF Reconcile
        <3>2. CASE r # s
            BY <1>1, <1>9, <3>2 DEF Reconcile
        <3> QED
            BY <3>1, <3>2
    <2>3. Books
        <3>1. ASSUME NEW g, NEW st,
                     triggers'[s] = [[triggers[s] EXCEPT !.gid = g] EXCEPT !.gst = st]
              PROVE  /\ triggers'[s].active = triggers[s].active /\ triggers'[s].gid = g
                     /\ triggers'[s].sig = triggers[s].sig /\ triggers'[s].best = triggers[s].best
                     /\ triggers'[s].gstop = triggers[s].gstop
            BY <1>1, <3>1 DEF Trigger
        <3>2. CASE triggers'[s] = triggers[s]
            BY <1>3, <2>1, <3>2
        <3>3. CASE triggers'[s] # triggers[s]
            <4>1. PICK g \in {triggers[s].gid, 0} : \E st : r = s /\
                      triggers'[s] = [[triggers[s] EXCEPT !.gid = g] EXCEPT !.gst = st]
                BY <2>2, <3>3
            <4>2. /\ triggers'[s].active = triggers[s].active /\ triggers'[s].gid = g
                  /\ triggers'[s].sig = triggers[s].sig /\ triggers'[s].best = triggers[s].best
                  /\ triggers'[s].gstop = triggers[s].gstop /\ triggers[s].active
                BY <2>1, <3>1, <4>1
            <4> QED
                BY <2>1, <4>2
        <3> QED
            BY <3>2, <3>3
    <2> QED
        BY <1>2, <2>1, <2>3
<1>10. CASE SaveStop /\ mon.sym # s
    <2>1. Books
        BY <1>1, <1>3, <1>10 DEF SaveStop
    <2>2. UNCHANGED approval /\ mon.pc # "trail" /\ mon'.pc = "trail"
        BY <1>1, <1>10 DEF SaveStop, Monitor
    <2> QED
        BY <1>2, <2>1, <2>2
<1> HIDE DEF Books, Rest
<1> QED
    BY <1>4, <1>5, <1>6, <1>7, <1>8, <1>9, <1>10

\* The stop just moved is remembered, in the row too.
LEMMA StopSaved ==
    ASSUME GttInv, GttInv', Next, NEW s \in Symbols, StopInv(s), SaveStop, mon.sym = s
    PROVE  StopInv(s)'
<1> DEFINE t == triggers[s]
           u == [t EXCEPT !.gstop = TrailingStop(t)]
           o == gtts[t.gid]
<1>1. /\ TypeOK /\ t \in Trigger /\ TrailingStop(t) \in Nat /\ mon \in Monitor
      /\ t.active /\ t.gid \in GttIds
      /\ o.stop \in Nat /\ o.dir \in {Buy, Sell} /\ o.dir = t.sig.dir
      /\ ~Better(t.sig.dir, o.stop, TrailingStop(t))
      /\ Priceable(t)
    BY StopTypes DEF GttInv, ShapeInv, TypeOK, StopInv, SaveStop, Follows
<1>2. /\ triggers'[s] = u /\ dbTriggers'[s] = u
      /\ UNCHANGED <<gtts, approval>> /\ mon'.pc = "trail"
    BY <1>1 DEF SaveStop, GttInv, ShapeInv, TypeOK, Monitor, exchangeVars
<1>3. u.gid = t.gid /\ u.sig = t.sig /\ u.best = t.best /\ u.gstop = TrailingStop(t)
    BY <1>1 DEF Trigger
<1>4. TrailingStop(t) > 0 \/ t.sig.dir = Buy
    BY <1>1, ShortStopPositive DEF Priceable
<1> HIDE DEF u
<1>5. Follows(triggers[s])'
    BY <1>1, <1>2, <1>3, <1>4 DEF Follows, Better, TrailingStop
<1> QED
    BY <1>1, <1>2, <1>3, <1>5 DEF StopInv, Priceable, Follows, Better, TrailingStop

\* The stop of an order is moved: its trigger and its row would ask for the same.
LEMMA StopTrail ==
    ASSUME GttInv, GttInv', Next, NEW s \in Symbols, StopInv(s),
           NEW x \in Symbols, TrailStop(x)
    PROVE  StopInv(s)'
<1> DEFINE t == triggers[x]
           r == dbTriggers[x]
<1>1. /\ TypeOK /\ TypeOK' /\ mon \in Monitor /\ gtts \in [GttIds -> Gtt]
      /\ t \in Trigger /\ r \in Trigger
      /\ IdInv(x) /\ IdInv(s) /\ BuyInv(x)
    BY StopTypes DEF GttInv, ShapeInv, SymbolInv, TypeOK
<1>2. UNCHANGED <<triggers, dbTriggers, approval>>
    BY DEF TrailStop, dbVars
<1>3. CASE UNCHANGED gtts /\ mon' = [mon EXCEPT !.todo = @ \ {x}]
    <2>1. mon'.pc = "trail"
        BY <1>1, <1>3 DEF Monitor, TrailStop
    <2> QED
        BY <1>2, <1>3, <2>1, StopKept
<1>4. CASE /\ t.active /\ t.gid # 0 /\ Improves(t)
           /\ gtts' = [gtts EXCEPT ![t.gid].stop = TrailingStop(t)]
           /\ mon'.pc = "modified" /\ mon'.sym = x
    <2>1. /\ t.gid \in GttIds /\ gtts[t.gid].sym = x
          /\ TrailingStop(t) \in Nat
        BY <1>1, <1>4, StopTypes DEF IdInv
    <2>2. /\ gtts'[t.gid].stop = TrailingStop(t) /\ gtts'[t.gid].dir = gtts[t.gid].dir
          /\ \A g \in GttIds \ {t.gid} : gtts'[g] = gtts[g]
        BY <1>1, <1>4, <2>1 DEF Gtt
    <2>3. CASE x # s
        <3>1. \A g \in GttIds : gtts[g].sym = s => gtts'[g] = gtts[g]
            BY <2>1, <2>2, <2>3
        <3> QED
            BY <1>2, <1>4, <2>3, <3>1, StopKept
    <2>4. CASE x = s
        <3>1. /\ Priceable(t) /\ r.best = t.best /\ r.sig = t.sig
              /\ Follows(t) /\ gtts[t.gid].dir \in {Buy, Sell}
            BY <1>1, <1>4, <2>1, <2>4, StopTypes DEF StopInv
        <3>2. ~Better(t.sig.dir, TrailingStop(t), TrailingStop(t))
            BY <2>1, <3>1, BetterCases DEF Follows
        <3>3. TrailingStop(r) = TrailingStop(t)
            BY <3>1 DEF TrailingStop
        <3>4. Follows(triggers[s])'
            BY <1>2, <2>2, <2>4, <3>1, <3>2 DEF Follows, Better, TrailingStop
        <3>5. r.active /\ r.gid # 0 => Follows(dbTriggers[s])'
            <4>1. CASE r.gid = t.gid
                <5>1. r.active => r.gstop > 0 \/ gtts[r.gid].dir = Buy
                    BY <1>4, <2>4, <4>1 DEF StopInv, Follows
                <5> QED
                    BY <1>2, <2>2, <2>4, <3>1, <3>2, <3>3, <4>1, <5>1
                    DEF Follows, Better, TrailingStop
            <4>2. CASE r.gid # t.gid /\ r.gid # 0
                <5>1. r.gid \in GttIds /\ gtts'[r.gid] = gtts[r.gid]
                    BY <1>1, <2>2, <4>2, StopTypes
                <5>2. r.active => Follows(r)
                    BY <2>4, <4>2 DEF StopInv
                <5> QED
                    BY <1>2, <2>4, <5>1, <5>2 DEF Follows, Better, TrailingStop
            <4> QED
                BY <4>1, <4>2
        <3>6. approval.sym # s
            BY <1>1, <1>4, <2>4 DEF BuyInv, AtWork
        <3> QED
            BY <1>2, <1>4, <2>2, <2>4, <3>1, <3>2, <3>4, <3>5, <3>6
            DEF StopInv, Priceable, Better, TrailingStop
    <2> QED
        BY <2>3, <2>4
<1>5. CASE mon' = [mon EXCEPT !.todo = @ \ {x}, !.pc = "modified", !.sym = x]
    <2>1. mon'.pc = "modified" /\ mon'.sym = x
        BY <1>1, <1>5 DEF Monitor
    <2>2. mon' # [mon EXCEPT !.todo = @ \ {x}]
        BY <1>1, <2>1 DEF Monitor, TrailStop
    <2> QED
        BY <1>4, <2>1, <2>2 DEF TrailStop
<1> QED
    BY <1>3, <1>5 DEF TrailStop

\* No price is 0.
LEMMA PositivePrices ==
    \A p \in Prices : p \in Nat /\ p > 0
<1>1. ASSUME NEW p \in Prices
      PROVE  p \in Nat \ {0}
    BY AutoSellAssumption, Zenon
<1> QED
    BY <1>1

\* The prices of a cycle only tighten what a trigger asks for, and its row tracks
\* them.
LEMMA StopCheckAll ==
    ASSUME GttInv, GttInv', Next, NEW s \in Symbols, StopInv(s), CheckAll
    PROVE  StopInv(s)'
<1> DEFINE t == triggers[s]
           r == dbTriggers[s]
           active == ActiveTriggers(triggers)
<1>1. /\ TypeOK /\ TypeOK' /\ t \in Trigger /\ r \in Trigger /\ mon \in Monitor
      /\ mon.pc = "poll" /\ price[s] \in Nat /\ price[s] > 0
      /\ UNCHANGED <<approval, gtts>>
      /\ s \in active <=> t.active
      /\ t.active => r.active
      /\ IdInv(s)
    <2>1. /\ TypeOK /\ TypeOK' /\ IdInv(s) /\ t \in Trigger /\ r \in Trigger /\ mon \in Monitor
          /\ price[s] \in Prices
          /\ t.active => r.active
        BY DEF GttInv, ShapeInv, TypeOK, SymbolInv, WatchInv
    <2>2. mon.pc = "poll" /\ UNCHANGED <<approval, gtts>>
        BY DEF CheckAll, exchangeVars
    <2>3. price[s] \in Nat /\ price[s] > 0
        BY <2>1, PositivePrices
    <2>4. s \in active <=> t.active
        BY DEF ActiveTriggers
    <2> HIDE DEF active, t, r
    <2> QED
        BY <2>1, <2>2, <2>3, <2>4
<1>2. CASE mon' = Resting /\ UNCHANGED <<triggers, dbTriggers>>
    BY <1>1, <1>2, StopKept DEF Resting
<1>3. ASSUME NEW u \in Trigger, u = t \/ u = WithPrice(t, price[s]),
             triggers'[s] \in {[u EXCEPT !.active = b] : b \in {t.active, FALSE}},
             dbTriggers'[s] = IF t.active
                                THEN [r EXCEPT !.best = triggers'[s].best,
                                               !.active = triggers'[s].active]
                                ELSE r,
             mon'.pc = "exit"
      PROVE  StopInv(s)'
    <2>1. /\ u.gid = t.gid /\ u.sig = t.sig /\ u.gstop = t.gstop
          /\ u.best \in {t.best, BestOf(t.sig.dir, t.best, price[s])}
        BY <1>1, <1>3 DEF WithPrice, Trigger
    <2>2. /\ triggers'[s].gid = t.gid /\ triggers'[s].sig = t.sig
          /\ triggers'[s].gstop = t.gstop /\ triggers'[s].best = u.best
          /\ triggers'[s].active => t.active
        BY <1>1, <1>3, <2>1 DEF Trigger
    <2>3. /\ dbTriggers'[s].gid = r.gid /\ dbTriggers'[s].sig = r.sig
          /\ dbTriggers'[s].gstop = r.gstop
          /\ dbTriggers'[s].best = IF t.active THEN u.best ELSE r.best
          /\ dbTriggers'[s].active => r.active
        <3>1. triggers'[s] \in Trigger /\ triggers'[s].best \in Nat /\ triggers'[s].active \in BOOLEAN
            BY <1>1 DEF TypeOK, Trigger
        <3> QED
            BY <1>1, <1>3, <2>2, <3>1 DEF Trigger
    <2>4. /\ t.best \in Nat /\ t.sig.dir \in {Buy, Sell} /\ u.best \in Nat
          /\ ~Better(t.sig.dir, t.best, u.best)
          /\ t.best > 0 => u.best > 0
        <3>1. t.best \in Nat /\ t.sig.dir \in {Buy, Sell}
            BY <1>1, StopTypes
        <3> QED
            BY <1>1, <2>1, <3>1, BetterCases DEF BestOf
    <2>5. triggers'[s].active /\ t.gid # 0 => Follows(triggers[s])'
        <3>1. triggers'[s] \in Trigger
            BY <1>1 DEF TypeOK
        <3>2. ASSUME triggers'[s].active, t.gid # 0
              PROVE  Follows(triggers[s])'
            <4>1. t.gid < nextGtt /\ Follows(t)
                BY <1>1, <2>2, <3>2 DEF StopInv, IdInv
            <4>2. ~Better(t.sig.dir, t.best, triggers'[s].best)
                BY <2>2, <2>4
            <4>3. gtts'[t.gid].dir = gtts[t.gid].dir /\ gtts'[t.gid].stop = gtts[t.gid].stop
                BY <1>1
            <4> QED
                BY <1>1, <2>2, <3>1, <3>2, <4>1, <4>2, <4>3, FollowsKept DEF Follows
        <3> QED
            BY <3>2
    <2>6. dbTriggers'[s].active /\ r.gid # 0 => Follows(dbTriggers[s])'
        <3>1. dbTriggers'[s] \in Trigger
            BY <1>1 DEF TypeOK
        <3>2. ~Better(r.sig.dir, r.best, dbTriggers'[s].best)
            <4>1. CASE t.active
                BY <2>3, <2>4, <4>1 DEF StopInv
            <4>2. CASE ~t.active
                BY <1>1, <2>3, <4>2, StopTypes, BetterCases
            <4> QED
                BY <4>1, <4>2
        <3>3. ASSUME dbTriggers'[s].active, r.gid # 0
              PROVE  Follows(dbTriggers[s])'
            <4>1. r.gid < nextGtt /\ Follows(r)
                BY <1>1, <2>3, <3>3 DEF StopInv, IdInv
            <4>2. gtts'[r.gid].dir = gtts[r.gid].dir /\ gtts'[r.gid].stop = gtts[r.gid].stop
                BY <1>1
            <4> QED
                BY <1>1, <2>3, <3>1, <3>2, <3>3, <4>1, <4>2, FollowsKept DEF Follows
        <3> QED
            BY <3>3
    <2>7. triggers'[s].active => /\ Priceable(triggers'[s])
                                 /\ dbTriggers'[s].best = triggers'[s].best
                                 /\ dbTriggers'[s].sig = triggers'[s].sig
        BY <2>2, <2>3, <2>4 DEF StopInv, Priceable
    <2>8. dbTriggers'[s].active => Priceable(dbTriggers'[s])
        BY <1>1, <2>3, <2>4 DEF StopInv, Priceable
    <2> QED
        BY <1>1, <1>3, <2>2, <2>3, <2>5, <2>6, <2>7, <2>8 DEF StopInv, Priceable
<1> QED
    <2>1. PICK quoted \in SUBSET (active \cap Priced) :
             LET seen == [x \in Symbols |-> IF x \in quoted
                                              THEN WithPrice(triggers[x], price[x])
                                              ELSE triggers[x]]
                 due == {x \in quoted : Due(seen[x], price[x])}
                 after == [x \in Symbols |-> [seen[x] EXCEPT !.active = @ /\ x \notin due]]
             IN  IF quoted = {}
                   THEN /\ mon' = Resting
                        /\ UNCHANGED <<triggers, dbTriggers>>
                   ELSE /\ triggers' = after
                        /\ dbTriggers' = Persisted(active, after)
                        /\ mon' = [mon EXCEPT !.pc = "exit", !.exits = due,
                                                !.quoted = quoted]
        BY DEF CheckAll
    <2> DEFINE seen == [x \in Symbols |-> IF x \in quoted
                                            THEN WithPrice(triggers[x], price[x])
                                            ELSE triggers[x]]
               due == {x \in quoted : Due(seen[x], price[x])}
    <2>2. CASE quoted # {}
        <3>1. seen[s] = t \/ seen[s] = WithPrice(t, price[s])
            OBVIOUS
        <3>2. seen[s] \in Trigger /\ seen[s].active = t.active
            <4>1. BestOf(t.sig.dir, t.best, price[s]) \in Nat
                BY <1>1 DEF BestOf, Trigger
            <4> QED
                BY <1>1, <3>1, <4>1, TriggerTypes DEF WithPrice, Trigger
        <3>3. /\ triggers' = [x \in Symbols |-> [seen[x] EXCEPT !.active = @ /\ x \notin due]]
              /\ dbTriggers' = Persisted(active, triggers')
              /\ mon' = [mon EXCEPT !.pc = "exit", !.exits = due, !.quoted = quoted]
            BY <2>1, <2>2
        <3> HIDE DEF seen, due
        <3>4. triggers'[s] = [seen[s] EXCEPT !.active = t.active /\ s \notin due]
            BY <3>2, <3>3
        <3>5. triggers'[s] \in {[seen[s] EXCEPT !.active = b] : b \in {t.active, FALSE}}
            <4>1. (t.active /\ s \notin due) \in {t.active, FALSE}
                BY <1>1 DEF Trigger
            <4> QED
                BY <3>4, <4>1
        <3>6. dbTriggers'[s] = IF t.active
                                 THEN [r EXCEPT !.best = triggers'[s].best,
                                                !.active = triggers'[s].active]
                                 ELSE r
            <4>1. triggers'[s] = [triggers'[s] EXCEPT !.active = triggers'[s].active]
                BY <1>1 DEF TypeOK, Trigger
            <4>2. Persisted(active, triggers')[s] =
                      IF s \in active THEN [r EXCEPT !.best = triggers'[s].best,
                                                   !.active = triggers'[s].active]
                                      ELSE r
                BY DEF Persisted
            <4> QED
                BY <1>1, <3>3, <4>2
        <3>7. mon'.pc = "exit"
            BY <1>1, <3>3 DEF Monitor
        <3> QED
            BY <1>3, <3>1, <3>2, <3>5, <3>6, <3>7
    <2> QED
        BY <1>2, <2>1, <2>2

\* The start turns to a trigger without an order: it is placed again as it was signalled.
LEMMA StopReplace ==
    ASSUME GttInv, GttInv', Next, NEW s \in Symbols, StopInv(s), NEW r \in Symbols, Replace(r)
    PROVE  StopInv(s)'
<1>1. /\ mon \in Monitor /\ mon.pc = "replace" /\ r \in mon.todo
      /\ UNCHANGED <<triggers, dbTriggers, gtts>>
    BY DEF GttInv, ShapeInv, TypeOK, Replace, dbVars, exchangeVars
<1>2. mon'.pc = "replace"
    BY <1>1 DEF Replace, Monitor
<1>3. CASE approval' = approval \/ approval'.sym # s
    BY <1>1, <1>2, <1>3, StopKept
<1>4. CASE /\ approval'.sym = s
           /\ approval' = [NoApproval EXCEPT !.stage = "place", !.sym = r, !.entry = position[r],
                                            !.sig = triggers[r].sig]
    <2>1. r = s /\ approval'.sig = triggers[s].sig /\ approval'.gid = 0
        BY <1>4 DEF NoApproval
    <2>2. triggers[s].active
        BY <1>1, <2>1 DEF GttInv, SymbolInv, WatchInv, Unreplaced
    <2> QED
        BY <1>1, <1>2, <2>1, <2>2 DEF StopInv, Priceable, Follows, TrailingStop, Better
<1> QED
    BY <1>3, <1>4 DEF Replace

\* The order that was placed again stands where its trigger says.
LEMMA StopKeep ==
    ASSUME GttInv, GttInv', Next, NEW s \in Symbols, StopInv(s), KeepReplacement
    PROVE  StopInv(s)'
<1> DEFINE x == approval.sym
           a == approval
           p == [triggers[x] EXCEPT !.gid = a.gid, !.gst = "active", !.gstop = triggers[x].sig.stop]
<1>1. /\ TypeOK /\ TypeOK' /\ mon.pc = "replace" /\ UNCHANGED <<mon, gtts>>
      /\ approval' = NoApproval /\ approval'.sym # s
      /\ triggers[x] \in Trigger /\ a.gid \in GttIds \cup {0}
    BY ConstantTypes, IdTypes
    DEF GttInv, ShapeInv, ProcessInv, TypeOK, KeepReplacement, NoApproval, exchangeVars
<1>2. CASE triggers'[s] = triggers[s] /\ dbTriggers'[s] = dbTriggers[s]
    BY <1>1, <1>2, StopKept
<1>3. CASE x = s /\ a.gid # 0 /\ triggers' = [triggers EXCEPT ![x] = p]
                 /\ dbTriggers' = [dbTriggers EXCEPT ![x] = p]
    <2> DEFINE t == triggers[s]
    <2>1. /\ t.active /\ Priceable(t) /\ a.sig = t.sig
          /\ gtts[a.gid].dir = t.sig.dir /\ gtts[a.gid].stop = t.sig.stop
        BY <1>1, <1>3 DEF GttInv, SymbolInv, BuyInv, StopInv
    <2>2. /\ p.active /\ p.gid = a.gid /\ p.gstop = t.sig.stop /\ p.sig = t.sig /\ p.best = t.best
        <3>1. p = [[[t EXCEPT !.gid = a.gid] EXCEPT !.gst = "active"] EXCEPT !.gstop = t.sig.stop]
            BY <1>3
        <3> HIDE DEF p
        <3> QED
            BY <1>1, <1>3, <2>1, <3>1 DEF Trigger
    <2> HIDE DEF p
    <2>3. triggers'[s] = p /\ dbTriggers'[s] = p
        BY <1>1, <1>3 DEF TypeOK
    <2>4. t.sig.stop \in Nat /\ t.sig.stop > 0 /\ t.sig.dir \in {Buy, Sell}
        BY <2>1, AutoSellAssumption DEF Priceable
    <2>5. ~Better(t.sig.dir, t.sig.stop, t.sig.stop)
        BY <2>4, BetterCases
    <2>6. Follows(triggers[s])'
        BY <1>1, <2>1, <2>2, <2>3, <2>4, <2>5 DEF Follows, Better
    <2> QED
        BY <1>1, <2>1, <2>2, <2>3, <2>6 DEF StopInv, Priceable, Follows, TrailingStop, Better
<1> QED
    BY <1>1, <1>2, <1>3 DEF KeepReplacement, TypeOK

\* A crash forgets the triggers; a start takes them from their rows.
LEMMA StopRestart ==
    ASSUME GttInv, NEW s \in Symbols, StopInv(s), Crash \/ Start
    PROVE  StopInv(s)'
<1>1. /\ UNCHANGED <<gtts, dbTriggers>>
      /\ approval' \in {approval, NoApproval}
      /\ triggers'[s].active => triggers'[s] = dbTriggers[s] /\ dbTriggers[s].active
    BY DEF Crash, Start, Loaded, NoTrigger, dbVars, exchangeVars
<1>2. mon'.pc \in {"idle", "reconcile"}
    <2>1. \/ mon' = Resting
          \/ mon' = [Resting EXCEPT !.pc = "reconcile", !.todo = ActiveTriggers(Loaded)]
        BY DEF Crash, Start
    <2>2. Resting \in Monitor /\ Resting.pc = "idle"
        BY MonitorTypes DEF Resting
    <2> QED
        BY <2>1, <2>2 DEF Monitor
<1>3. NoApproval.sym # s
    BY ConstantTypes DEF NoApproval
<1> QED
    BY <1>1, <1>2, <1>3 DEF StopInv, Priceable, Follows, TrailingStop, Better

AllStops == \A s \in Symbols : StopInv(s)

LEMMA StopInit == Init => AllStops
<1>1. "none" \notin Symbols
    BY ConstantTypes
<1> QED
    BY <1>1 DEF Init, AllStops, StopInv, NoTrigger, NoApproval, Resting

\* Every step keeps the stops where their triggers and rows expect them.
LEMMA StopStep ==
    ASSUME Undisturbed
    PROVE  GttInv /\ GttInv' /\ AllStops /\ [Next]_vars => AllStops'
<1> SUFFICES ASSUME GttInv, GttInv', AllStops, [Next]_vars, NEW s \in Symbols
             PROVE  StopInv(s)'
    BY DEF AllStops
<1>0. StopInv(s)
    BY DEF AllStops
<1>1. CASE UNCHANGED vars
    BY <1>0, <1>1 DEF StopInv, Priceable, Follows, TrailingStop, Better, vars, memVars, dbVars,
        exchangeVars
<1>2. CASE Next
    <2>1. CASE (\E r \in Symbols, sig \in Signals : Approve(r, sig)) \/ PlaceGtt
        BY <1>0, <1>2, <2>1, StopApproval
    <2>2. CASE InstallTrigger
        BY <1>0, <1>2, <2>2, StopInstall, StopQuiet
    <2>3. CASE \/ Tick \/ SellFilled \/ SellRefused \/ BookSale \/ CancelGtt \/ BeginTrailing
               \/ EndCycle \/ EndReconcile \/ EndReplace \/ WorldStep
               \/ \E r \in Symbols : PollGtt(r) \/ BeginExit(r) \/ Reconcile(r)
        BY <1>0, <1>2, <2>3, StopQuiet
    <2>4. CASE SaveStop
        BY <1>0, <1>2, <2>4, StopSaved, StopQuiet
    <2>5. CASE CheckAll \/ \E r \in Symbols : TrailStop(r)
        BY <1>0, <1>2, <2>5, StopCheckAll, StopTrail
    <2>6. CASE KeepReplacement \/ \E r \in Symbols : Replace(r)
        BY <1>0, <1>2, <2>6, StopReplace, StopKeep
    <2>7. CASE \E r \in Symbols : StrategyExit(r)
        BY <2>7 DEF StrategyExit, Undisturbed
    <2>8. CASE Crash \/ Start
        BY <1>0, <2>8, StopRestart
    <2> QED
        BY <1>2, <2>1, <2>2, <2>3, <2>4, <2>5, <2>6, <2>7, <2>8 DEF Next, MonitorStep, ApprovalStep
<1> QED
    BY <1>1, <1>2

\* A stop on the exchange only ever moves in the position's favour, whatever the
\* prices do and wherever a crash falls between the exchange's answer, the trigger
\* and its row.
THEOREM StopsOnlyTighten == Undisturbed => (Spec => StopOnlyTightens)
<1> SUFFICES ASSUME Undisturbed PROVE Spec => StopOnlyTightens
    OBVIOUS
<1> DEFINE Tighter == \A g \in GttIds :
               gtts[g].st = "active" /\ gtts'[g].st = "active" =>
                   ~Better(gtts[g].dir, gtts[g].stop, gtts'[g].stop)
<1>1. ASSUME GttInv, AllStops, Next, NEW g \in GttIds, gtts[g].st = "active"
      PROVE  ~Better(gtts[g].dir, gtts[g].stop, gtts'[g].stop)
    <2>1. /\ TypeOK /\ g < nextGtt /\ mon \in Monitor
          /\ gtts[g].stop \in Nat /\ gtts[g].dir \in {Buy, Sell}
        <3>1. TypeOK /\ mon \in Monitor /\ nextGtt \in Nat /\ g \in Nat
            BY <1>1, IdTypes DEF GttInv, ShapeInv, TypeOK, GttIds
        <3>2. ~(g >= nextGtt)
            BY <1>1 DEF GttInv, ExchangeInv, NoGtt
        <3> QED
            BY <3>1, <3>2, StopTypes
    <2>2. CASE gtts'[g].stop = gtts[g].stop
        BY <2>1, <2>2, BetterCases
    <2>3. CASE gtts'[g].stop # gtts[g].stop
        <3>1. PICK s \in Symbols : TrailStop(s)
            BY <1>1, <2>1, <2>3, StopsStand
        <3>2. /\ triggers[s].active /\ triggers[s].gid # 0 /\ Improves(triggers[s])
              /\ gtts' = [gtts EXCEPT ![triggers[s].gid].stop = TrailingStop(triggers[s])]
            BY <2>3, <3>1 DEF TrailStop
        <3>3. /\ triggers[s] \in Trigger /\ gtts \in [GttIds -> Gtt]
              /\ triggers[s].gid \in GttIds
            BY <2>1, <3>2, StopTypes DEF TypeOK
        <3>4. g = triggers[s].gid
            BY <2>3, <3>2, <3>3
        <3>5. gtts'[g].stop = TrailingStop(triggers[s])
            BY <3>2, <3>3, <3>4 DEF Gtt
        <3> QED
            BY <1>1, <2>1, <3>2, <3>4, <3>5, MovedStop DEF AllStops
    <2> QED
        BY <2>2, <2>3
<1>2. GttInv /\ AllStops /\ [Next]_vars => [Tighter]_vars
    BY <1>1
<1> QED
    BY GttInvariant, StopInit, StopStep, <1>2, PTL DEF Spec, StopOnlyTightens

=============================================================================
