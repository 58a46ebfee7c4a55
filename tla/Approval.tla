------------------------------ MODULE Approval ------------------------------
(***************************************************************************)
(* The approval queue of TradingEngine (src/main.py): signals are queued   *)
(* and announced by a scan cycle, decided by a button press that reaches   *)
(* handle_signal_action on another thread, expired by the next cycle, and  *)
(* restored from the database when an engine is built.                     *)
(*                                                                         *)
(* Every engine keeps its own copy of the queue; all write the same rows.  *)
(* A press may reach several handlers, or the same one again, and at any   *)
(* time after the message was sent: the chat keeps it, and two pollers may *)
(* fetch the same update.                                                  *)
(***************************************************************************)
EXTENDS Integers, FiniteSets

CONSTANTS
    Engines,
    Handlers,      \* threads that call handle_signal_action
    EngineOf,      \* the engine of each handler
    MaxSignals,    \* bound: signals queued
    MaxPresses,    \* bound: presses delivered
    MaxCrashes,    \* bound: engines that die
    MaxFaults      \* bound: row reads and writes that fail

ASSUME ApprovalAssumption ==
    /\ IsFiniteSet(Engines)
    /\ IsFiniteSet(Handlers)
    /\ EngineOf \in [Handlers -> Engines]
    /\ {MaxSignals, MaxPresses, MaxCrashes, MaxFaults} \subseteq Nat

VARIABLES
    up,          \* engines that are built
    memory,      \* _pending_signals of each engine: the status, or "none"
    rows,        \* pending_signals rows: the status, or "none"
    cycle,       \* where run_cycle of each engine is
    call,        \* the handle_signal_action call of each handler
    age,         \* of each signal, see Ages
    nextSignal,  \* next signal id
    presses, crashes, faults,
    \* History, read by the properties only.
    executions,  \* orders sent for each signal
    ignored,     \* signals whose rejection was recorded
    unsaved      \* signals one of whose row accesses failed

envVars == <<age, nextSignal>>
boundVars == <<presses, crashes, faults>>
histVars == <<executions, ignored, unsaved>>
vars == <<up, memory, rows, cycle, call, envVars, boundVars, histVars>>

---------------------------------------------------------------------------
(* Records *)

Signals == 1..MaxSignals

Decided == {"approved", "rejected", "expired"}
SignalStatus == Decided \cup {"pending"}

\* Within expiry_minutes, past them, older than the day after which
\* cleanup_old_pending_signals deletes decided rows.
Ages == {"fresh", "over", "old"}

Actions == {"approve", "auto_sell", "ignore"}

\* Seeded fault of Outcome: the action is stored for the status.
ActionItself(action) == action

Outcome(action) == IF action = "ignore" THEN "rejected" ELSE "approved"

Call == [stage: {"idle", "checked", "decided", "execute"}, id: Signals \cup {0},
         action: Actions]
NoCall == [stage |-> "idle", id |-> 0, action |-> "ignore"]

Cycle == [stage: {"idle", "expire", "scan", "sent", "queued"}, id: Signals \cup {0}]
NoCycle == [stage |-> "idle", id |-> 0]

TypeOK ==
    /\ up \subseteq Engines
    /\ memory \in [Engines -> [Signals -> SignalStatus \cup {"none"}]]
    /\ rows \in [Signals -> SignalStatus \cup {"none"}]
    /\ cycle \in [Engines -> Cycle]
    /\ call \in [Handlers -> Call]
    /\ age \in [Signals -> Ages]
    /\ nextSignal \in 1..(MaxSignals + 1)
    /\ presses \in 0..MaxPresses
    /\ crashes \in 0..MaxCrashes
    /\ faults \in 0..MaxFaults
    /\ executions \in [Signals -> Nat]
    /\ ignored \subseteq Signals
    /\ unsaved \subseteq Signals

Expired(id) == age[id] # "fresh"

\* update_pending_signal_status and save_pending_signal swallow their exception.
Write(id, new) ==
    \/ /\ rows' = new
       /\ UNCHANGED <<faults, unsaved>>
    \/ /\ faults < MaxFaults
       /\ faults' = faults + 1
       /\ unsaved' = unsaved \cup {id}
       /\ UNCHANGED rows

\* update_pending_signal_status changes a row that exists.
WithStatus(id, status) == IF rows[id] = "none" THEN rows ELSE [rows EXCEPT ![id] = status]

---------------------------------------------------------------------------
(* The cycle: _expire_pending_signals, then the queueing of what was found *)

BeginCycle(e) ==
    /\ e \in up
    /\ cycle[e].stage = "idle"
    /\ cycle' = [cycle EXCEPT ![e].stage = "expire"]
    /\ UNCHANGED <<up, memory, rows, call, envVars, boundVars, histVars>>

\* Seeded fault of Overdue: the comparison of the times is the wrong way round.
NotYetDue(e) == {id \in Signals : memory[e][id] = "pending" /\ ~Expired(id)}

Overdue(e) == {id \in Signals : memory[e][id] = "pending" /\ Expired(id)}

Expire(e, id) ==
    /\ cycle[e].stage = "expire"
    /\ id \in Overdue(e)
    /\ memory' = [memory EXCEPT ![e][id] = "expired"]
    /\ Write(id, WithStatus(id, "expired"))
    /\ UNCHANGED <<up, cycle, call, envVars, presses, crashes, executions, ignored>>

\* The end of _expire_pending_signals: decided rows of an earlier day go.
CleanUp(e) ==
    /\ cycle[e].stage = "expire"
    /\ Overdue(e) = {}
    /\ \/ /\ rows' = [id \in Signals |-> IF rows[id] \in Decided /\ age[id] = "old"
                                          THEN "none" ELSE rows[id]]
          /\ UNCHANGED faults
       \/ /\ faults < MaxFaults
          /\ faults' = faults + 1
          /\ UNCHANGED rows
    /\ cycle' = [cycle EXCEPT ![e].stage = "scan"]
    /\ UNCHANGED <<up, memory, call, envVars, presses, crashes, histVars>>

\* _queue_signal_for_approval: the message with the buttons goes out first.
Announce(e) ==
    /\ cycle[e].stage = "scan"
    /\ nextSignal <= MaxSignals
    /\ nextSignal' = nextSignal + 1
    /\ cycle' = [cycle EXCEPT ![e] = [stage |-> "sent", id |-> nextSignal]]
    /\ UNCHANGED <<up, memory, rows, call, age, boundVars, histVars>>

Queue(e) ==
    /\ cycle[e].stage = "sent"
    /\ memory' = [memory EXCEPT ![e][cycle[e].id] = "pending"]
    /\ cycle' = [cycle EXCEPT ![e].stage = "queued"]
    /\ UNCHANGED <<up, rows, call, envVars, boundVars, histVars>>

\* save_pending_signal writes the status the signal has by then.
SaveSignal(e) ==
    LET id == cycle[e].id
    IN  /\ cycle[e].stage = "queued"
        /\ Write(id, [rows EXCEPT ![id] = memory[e][id]])
        /\ cycle' = [cycle EXCEPT ![e] = [stage |-> "scan", id |-> 0]]
        /\ UNCHANGED <<up, memory, call, envVars, presses, crashes, executions, ignored>>

EndCycle(e) ==
    /\ cycle[e].stage = "scan"
    /\ cycle' = [cycle EXCEPT ![e] = NoCycle]
    /\ UNCHANGED <<up, memory, rows, call, envVars, boundVars, histVars>>

---------------------------------------------------------------------------
(* handle_signal_action *)

\* Signals whose message is in the chat.
Announced == 1..(nextSignal - 1)

\* The checks: unknown, decided and expired signals are turned down, an expired
\* one is recorded as such.
Press(h, id, action) ==
    LET e == EngineOf[h]
    IN  /\ e \in up
        /\ call[h].stage = "idle"
        /\ presses < MaxPresses
        /\ presses' = presses + 1
        /\ \/ /\ memory[e][id] # "pending"
              /\ UNCHANGED <<memory, rows, call, faults, unsaved>>
           \/ /\ memory[e][id] = "pending"
              /\ Expired(id)
              /\ memory' = [memory EXCEPT ![e][id] = "expired"]
              /\ Write(id, WithStatus(id, "expired"))
              /\ UNCHANGED call
           \/ /\ memory[e][id] = "pending"
              /\ ~Expired(id)
              /\ call' = [call EXCEPT ![h] = [stage |-> "checked", id |-> id, action |-> action]]
              /\ UNCHANGED <<memory, rows, faults, unsaved>>
        /\ UNCHANGED <<up, cycle, envVars, crashes, executions, ignored>>

\* After the buttons were removed, two requests later, the status is set.
Decide(h) ==
    LET e == EngineOf[h]
    IN  /\ call[h].stage = "checked"
        /\ memory' = [memory EXCEPT ![e][call[h].id] = Outcome(call[h].action)]
        /\ call' = [call EXCEPT ![h].stage = "decided"]
        /\ UNCHANGED <<up, rows, cycle, envVars, boundVars, histVars>>

\* Seeded faults of AfterSave: the row of an approved, or of an ignored signal is
\* left as it was.
ApprovalUnsaved(h) ==
    IF call[h].action = "ignore" THEN WithStatus(call[h].id, "rejected") ELSE rows
RejectionUnsaved(h) ==
    IF call[h].action = "ignore" THEN rows ELSE WithStatus(call[h].id, "approved")

\* The rows after the decision is saved.
AfterSave(h) == WithStatus(call[h].id, Outcome(call[h].action))

SaveDecision(h) ==
    LET c == call[h]
    IN  /\ c.stage = "decided"
        /\ Write(c.id, AfterSave(h))
        /\ IF c.action = "ignore"
             THEN /\ call' = [call EXCEPT ![h] = NoCall]
                  /\ ignored' = ignored \cup {c.id}
             ELSE /\ call' = [call EXCEPT ![h].stage = "execute"]
                  /\ UNCHANGED ignored
        /\ UNCHANGED <<up, memory, cycle, envVars, presses, crashes, executions>>

\* _execute_approved_signal: an order is sent, or the order manager declines.
\* A declined signal stays approved.
Execute(h) ==
    /\ call[h].stage = "execute"
    /\ \/ executions' = [executions EXCEPT ![call[h].id] = @ + 1]
       \/ UNCHANGED executions
    /\ call' = [call EXCEPT ![h] = NoCall]
    /\ UNCHANGED <<up, memory, rows, cycle, envVars, boundVars, ignored, unsaved>>

---------------------------------------------------------------------------
(* Engines come and go *)

\* Seeded fault of Restored: decided signals come back too.
RestoredAll == {id \in Signals : rows[id] # "none"}

\* _load_pending_signals: pending rows, but for those past their time.
PendingRows == {id \in Signals : rows[id] = "pending"}

Restored == {id \in PendingRows : ~Expired(id)}

\* load_pending_signals answers a failed query with no signals at all; the update
\* of a row past its time may fail like any other.
Build(e) ==
    /\ e \notin up
    /\ up' = up \cup {e}
    /\ \/ \E lost \in SUBSET (PendingRows \ Restored) :
            /\ faults + Cardinality(lost) <= MaxFaults
            /\ faults' = faults + Cardinality(lost)
            /\ unsaved' = unsaved \cup lost
            /\ memory' = [memory EXCEPT ![e] = [id \in Signals |->
                            IF id \in Restored THEN "pending" ELSE "none"]]
            /\ rows' = [id \in Signals |->
                          IF id \in PendingRows \ (Restored \cup lost) THEN "expired" ELSE rows[id]]
       \/ /\ faults < MaxFaults
          /\ faults' = faults + 1
          /\ unsaved' = unsaved \cup PendingRows
          /\ UNCHANGED <<memory, rows>>
    /\ UNCHANGED <<cycle, call, envVars, presses, crashes, executions, ignored>>

\* A crash, or the end of an engine built for one scan or one poll.
Stop(e) ==
    /\ e \in up
    /\ crashes < MaxCrashes
    /\ crashes' = crashes + 1
    /\ up' = up \ {e}
    /\ memory' = [memory EXCEPT ![e] = [id \in Signals |-> "none"]]
    /\ cycle' = [cycle EXCEPT ![e] = NoCycle]
    /\ call' = [h \in Handlers |-> IF EngineOf[h] = e THEN NoCall ELSE call[h]]
    /\ UNCHANGED <<rows, envVars, presses, faults, histVars>>

\* The clock, for a signal that exists.
TimePasses(id) ==
    /\ id \in Announced
    /\ \/ age[id] = "fresh" /\ age' = [age EXCEPT ![id] = "over"]
       \/ age[id] = "over" /\ age' = [age EXCEPT ![id] = "old"]
    /\ UNCHANGED <<up, memory, rows, cycle, call, nextSignal, boundVars, histVars>>

---------------------------------------------------------------------------

Init ==
    /\ up = {}
    /\ memory = [e \in Engines |-> [id \in Signals |-> "none"]]
    /\ rows = [id \in Signals |-> "none"]
    /\ cycle = [e \in Engines |-> NoCycle]
    /\ call = [h \in Handlers |-> NoCall]
    /\ age = [id \in Signals |-> "fresh"]
    /\ nextSignal = 1
    /\ presses = 0
    /\ crashes = 0
    /\ faults = 0
    /\ executions = [id \in Signals |-> 0]
    /\ ignored = {}
    /\ unsaved = {}

CycleStep(e) ==
    \/ BeginCycle(e)
    \/ \E id \in Signals : Expire(e, id)
    \/ CleanUp(e)
    \/ Announce(e)
    \/ Queue(e)
    \/ SaveSignal(e)
    \/ EndCycle(e)

HandlerStep(h) == Decide(h) \/ SaveDecision(h) \/ Execute(h)

Next ==
    \/ \E e \in Engines : CycleStep(e) \/ Build(e) \/ Stop(e)
    \/ \E h \in Handlers, id \in Announced, a \in Actions : Press(h, id, a)
    \/ \E h \in Handlers : HandlerStep(h)
    \/ \E id \in Signals : TimePasses(id)

Spec == Init /\ [][Next]_vars

\* The scheduler starts a cycle every interval, a crashed process is restarted,
\* a handler's thread goes on, and the clock does not stop.
FairSpec ==
    /\ Spec
    /\ \A e \in Engines : WF_vars(CycleStep(e)) /\ WF_vars(Build(e))
    /\ \A h \in Handlers : WF_vars(HandlerStep(h))
    /\ \A id \in Signals : WF_vars(TimePasses(id))

=============================================================================
