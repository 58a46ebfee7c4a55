--------------------------- MODULE ApprovalProps ---------------------------
(***************************************************************************)
(* What Approval is expected to guarantee.                                 *)
(***************************************************************************)
EXTENDS Approval

\* One signal, one order: a decided signal answers "already approved", through
\* crashes and repeated presses (handle_signal_action, _load_pending_signals).
\* Exempt are signals one of whose row reads or writes failed.
ExecutedOnce ==
    \A id \in Signals \ unsaved : executions[id] <= 1

\* A signal whose rejection was recorded is never executed, however many of its
\* buttons were pressed and whatever was restarted since.
IgnoredIsFinal ==
    [][\A id \in ignored \ unsaved : executions'[id] = executions[id]]_vars

\* Between a row that says pending and an engine that does not know the signal,
\* or the reverse, there is always a step under way: an undecided signal
\* survives every restart, and a decided one does not come back.
QueueMatchesRows ==
    \A e \in up, id \in Signals \ unsaved :
        (memory[e][id] = "pending") # (rows[id] = "pending") =>
            \/ cycle[e].stage = "queued" /\ cycle[e].id = id
            \/ \E h \in Handlers : call[h].stage = "decided" /\ call[h].id = id

\* Nobody waits for ever: a signal the user does not answer is expired by a
\* later cycle or a restart.
Settled ==
    \A id \in Signals : rows[id] = "pending" ~> (rows[id] # "pending" \/ id \in unsaved)

=============================================================================
