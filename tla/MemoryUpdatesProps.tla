------------------------- MODULE MemoryUpdatesProps -------------------------
(***************************************************************************)
(* What MemoryUpdates is expected to guarantee.                            *)
(***************************************************************************)
EXTENDS MemoryUpdates

\* One approval, one pull request, however often the button is pressed and its
\* press delivered (handle_memory_callback).  Exempt are updates that two pollers
\* handled at the same time and those whose handler was cut off or misinformed.
AppliedOnce ==
    \A u \in Updates :
        <<u, u>> \notin overlaps /\ u \notin cut => opened[u] <= 1

\* "No file is edited without explicit user approval" (README): an update whose
\* rejection was recorded has no pull request, whichever button is pressed later.
RejectedIsFinal ==
    \A u \in refused :
        <<u, u>> \notin overlaps /\ u \notin cut => opened[u] = 0

\* A pull request carries its own update: a branch on GitHub holds that entry
\* and no other.  Exempt are entries a failed or interrupted commit left in
\* the working tree and entries handled at the same time.
OwnEditsOnly ==
    \A p \in Pollers :
        work[p].stage \in {"open", "approved"} =>
            \A v \in remote[work[p].branch] \ {work[p].of} :
                v \in spilled \/ <<v, work[p].of>> \in overlaps \/ <<work[p].of, v>> \in overlaps

\* At least once: Telegram drops no press before a handler returned from it, with
\* several pollers, two kinds of offset, and crashes (_poll_callbacks,
\* process_updates_once, trigger_poll).
DroppedWasHandled == 1..confirmed \subseteq handled

\* A press is handled in the end, as long as the routine polls.
PressHandled ==
    \A n \in 1..MaxPresses : (n \in DOMAIN presses) ~> (n \in handled)

=============================================================================
