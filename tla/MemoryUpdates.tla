---------------------------- MODULE MemoryUpdates ----------------------------
(***************************************************************************)
(* The memory pipeline: drafts of changes to memory/*.md are made when a   *)
(* trade closes and once a week, wait in pending_memory_updates, are       *)
(* decided by a Telegram button and become a pull request                  *)
(* (src/feedback/postmortem_pipeline.py, memory_writer.py), or expire      *)
(* (the scheduler's sweep and the cloud routine's).                        *)
(*                                                                         *)
(* Presses reach the pipeline through two kinds of poller                  *)
(* (src/notifications/telegram.py): the daemon thread every engine starts, *)
(* which keeps its offset in memory, and the one-shot poll of the worker   *)
(* (workers/trigger_api.py), which keeps it in app_state.  Telegram drops  *)
(* an update once somebody asks for a later one.                           *)
(*                                                                         *)
(* The files of the memory are one file here, its text a set of entries.   *)
(***************************************************************************)
EXTENDS Integers, FiniteSets

CONSTANTS
    Trades,        \* updates that are postmortems, one per trade
    Weeklies,      \* updates that are reviews of one week
    Daemons,       \* callback-polling threads
    OneShots,      \* requests to /trigger/poll
    MaxPresses,    \* bound: presses
    MaxBranches,   \* bound: branches of postmortems that matter at a time
    MaxEvents      \* bound: drafts, crashes of the process and failures of
                   \* database, git, GitHub and Telegram, together

ASSUME MemoryAssumption ==
    /\ Trades \cap Weeklies = {} /\ 0 \notin Trades \cup Weeklies
    /\ Daemons \cap OneShots = {}
    /\ IsFiniteSet(Trades) /\ IsFiniteSet(Weeklies)
    /\ IsFiniteSet(Daemons) /\ IsFiniteSet(OneShots)
    /\ {MaxPresses, MaxBranches, MaxEvents} \subseteq Nat
    /\ MaxBranches > Cardinality(Daemons \cup OneShots)

VARIABLES
    rows,        \* pending_memory_updates: the status, or "none"
    announced,   \* updates whose message is in the chat
    presses,     \* presses made, oldest first; the index is the update_id
    confirmed,   \* updates up to this one are dropped by Telegram
    offsetRow,   \* app_state["telegram_update_offset"]
    poller,      \* loop of each poller
    work,        \* handle_memory_callback of each poller
    repo,        \* the working tree and its branches
    remote,      \* branches on GitHub
    openHeads,   \* branches with an open pull request
    faults,
    \* History, read by the properties only.
    handled,     \* presses whose handler returned
    opened,      \* pull requests opened for each update
    refused,     \* updates whose rejection was recorded
    cut,         \* updates whose handler was interrupted or misinformed
    spilled,     \* entries left in the working tree
    overlaps     \* pairs of updates handled at the same time

chatVars == <<announced, presses, confirmed>>
gitVars == <<repo, remote, openHeads>>
histVars == <<handled, opened, refused, cut, spilled, overlaps>>
vars == <<rows, chatVars, offsetRow, poller, work, gitVars, faults, histVars>>

---------------------------------------------------------------------------
(* Records *)

Updates == Trades \cup Weeklies
Pollers == Daemons \cup OneShots

Decided == {"approved", "rejected", "failed", "expired"}

Press == [of: Updates, action: {"approve", "reject"}]

\* A postmortem's branch is named by its time, a review's by its week.
Branches == {<<"postmortem", n>> : n \in 1..MaxBranches} \cup {<<"weekly", 0>>}
MainBranch == <<"main", 0>>

Work == [stage: {"idle", "reject", "prepare", "edit", "commit", "push", "open",
                 "approved", "failed"},
         press: 0..MaxPresses, of: Updates \cup {0}, branch: Branches \cup {MainBranch}]
NoWork == [stage |-> "idle", press |-> 0, of |-> 0, branch |-> MainBranch]

Loop == [stage: {"off", "on", "fetched"}, next: 0..(MaxPresses + 1),
         batch: SUBSET (1..MaxPresses)]
Off == [stage |-> "off", next |-> 0, batch |-> {}]

\* An order has one id, its closing order another; a row of trades has the first.
OrderIds == {"entry", "exit"} \X Trades

TypeOK ==
    /\ rows \in [Updates -> Decided \cup {"none", "pending"}]
    /\ announced \subseteq Updates
    /\ presses \in UNION {[1..n -> Press] : n \in 0..MaxPresses}
    /\ confirmed \in 0..MaxPresses
    /\ offsetRow \in 0..(MaxPresses + 1)
    /\ poller \in [Pollers -> Loop]
    /\ work \in [Pollers -> Work]
    /\ repo.head \in Branches \cup {MainBranch}
    /\ repo.tree \subseteq Updates
    /\ repo.refs \in [Branches \cup {MainBranch} -> SUBSET Updates]
    /\ remote \in [Branches -> SUBSET Updates]
    /\ openHeads \subseteq Branches
    /\ faults \in 0..MaxEvents
    /\ opened \in [Updates -> Nat]

Room == faults + Cardinality({u \in Updates : rows[u] # "none"}) < MaxEvents

\* The database layer, git and HTTP calls report failure and the caller goes on.
Fault ==
    /\ Room
    /\ faults' = faults + 1

SetRow(u, status) ==
    /\ rows' = [rows EXCEPT ![u] = status]
    /\ UNCHANGED faults

---------------------------------------------------------------------------
(* Drafts *)

\* _load_trade
TradesOf(order) == {t \in Trades : order = <<"entry", t>>}

\* The agent answers, the row is inserted and the message sent; when the message
\* fails the row stays, when an earlier step fails nothing does.  Without an
\* update to draft nothing happens.
Draft(S) ==
    \E u \in S :
        /\ Room
        /\ rows[u] = "none"
        /\ rows' = [rows EXCEPT ![u] = "pending"]
        /\ \/ announced' = announced \cup {u} /\ UNCHANGED faults
           \/ Fault /\ UNCHANGED announced
        /\ UNCHANGED <<presses, confirmed, offsetRow, poller, work, gitVars, histVars>>

\* PostmortemPipeline.enqueue.
Enqueue(order) == Draft(TradesOf(order))

\* WeeklyReviewAgent.run.
WeeklyReview == Draft(Weeklies)

PressButton(u, action) ==
    /\ u \in announced
    /\ Cardinality(DOMAIN presses) < MaxPresses
    /\ presses' = [n \in 1..(Cardinality(DOMAIN presses) + 1) |->
                     IF n \in DOMAIN presses THEN presses[n] ELSE [of |-> u, action |-> action]]
    /\ UNCHANGED <<rows, announced, confirmed, offsetRow, poller,
                   work, gitVars, faults, histVars>>

---------------------------------------------------------------------------
(* Pollers *)

Waiting(p) == poller[p].batch = {} /\ work[p].stage = "idle"

\* Every engine starts a daemon with _last_update_id = 0, that of a poll included.
\* The engine before it may have been stopped: stop_callback_polling ends a loop
\* once its batch is handled.
StartDaemon(p) ==
    /\ p \in Daemons
    /\ Waiting(p)
    /\ poller' = [poller EXCEPT ![p] = [Off EXCEPT !.stage = "on", !.next = 1]]
    /\ UNCHANGED <<rows, chatVars, offsetRow, work, gitVars, faults, histVars>>

\* getUpdates with an offset: earlier updates are dropped, the rest is answered.
Fetch(p, offset, stage) ==
    LET dropped == IF offset - 1 > confirmed THEN offset - 1 ELSE confirmed
    IN  /\ confirmed' = dropped
        /\ poller' = [poller EXCEPT ![p] = [stage |-> stage, next |-> offset,
                                            batch |-> {n \in DOMAIN presses : n > dropped}]]
        /\ UNCHANGED <<rows, announced, presses, offsetRow, work, gitVars, faults, histVars>>

\* _poll_callbacks
FetchDaemon(p) == poller[p].stage = "on" /\ Waiting(p) /\ Fetch(p, poller[p].next, "on")

\* Seeded fault of FetchPoll: the offset is stored before the batch is handled.
FetchPollStored(p) ==
    /\ p \in OneShots /\ poller[p].stage = "off"
    /\ confirmed' = IF offsetRow - 1 > confirmed THEN offsetRow - 1 ELSE confirmed
    /\ poller' = [poller EXCEPT ![p] = [stage |-> "fetched", next |-> offsetRow,
                                        batch |-> {n \in DOMAIN presses : n > confirmed'}]]
    /\ offsetRow' = Cardinality(DOMAIN presses) + 1
    /\ UNCHANGED <<rows, announced, presses, work, gitVars, faults, histVars>>

\* trigger_poll and process_updates_once.
FetchPoll(p) == p \in OneShots /\ poller[p].stage = "off" /\ Fetch(p, offsetRow, "fetched")

\* Seeded faults of EndPoll: the offset is one too far, or that of the last press
\* there is, handled or not.
EndPollBeyond(p) ==
    /\ poller[p].stage = "fetched"
    /\ Waiting(p)
    /\ poller' = [poller EXCEPT ![p] = Off]
    /\ offsetRow' = poller[p].next + 1
    /\ UNCHANGED <<rows, chatVars, work, gitVars, faults, histVars>>
EndPollLatest(p) ==
    /\ poller[p].stage = "fetched"
    /\ Waiting(p)
    /\ poller' = [poller EXCEPT ![p] = Off]
    /\ offsetRow' = Cardinality(DOMAIN presses) + 1
    /\ UNCHANGED <<rows, chatVars, work, gitVars, faults, histVars>>

\* A poll stores its offset.
EndPoll(p) ==
    /\ poller[p].stage = "fetched"
    /\ Waiting(p)
    /\ poller' = [poller EXCEPT ![p] = Off]
    /\ \/ offsetRow' = poller[p].next /\ UNCHANGED faults
       \/ Fault /\ UNCHANGED offsetRow
    /\ UNCHANGED <<rows, chatVars, work, gitVars, histVars>>

---------------------------------------------------------------------------
(* handle_memory_callback *)

UnderWay(p) == {work[q].of : q \in {r \in Pollers \ {p} : work[r].stage # "idle"}}

\* Seeded fault of Answered: the status of the row is not looked at.
AnsweredAnyway(u) == rows[u] # "none"

\* Seeded fault of Answered: only an approval counts as an answer.
AnsweredUnlessApproved(u) == rows[u] \in {"pending", "rejected"}

\* load_pending_memory_update and the status check; expires_at is not looked at.
Answered(u) == rows[u] = "pending"

\* Branches nobody works on.
FreeBranches ==
    {<<"postmortem", n>> : n \in 1..MaxBranches}
        \ ({work[p].branch : p \in Pollers} \cup {repo.head})

\* The week's branch, or one with the time in its name, which is always new.
BranchesFor(u) ==
    IF u \in Weeklies THEN {<<"weekly", 0>>}
    ELSE {b \in FreeBranches : \A c \in FreeBranches : b[2] <= c[2]}

\* Nobody looks at a branch with a time in its name once its handler is gone: the
\* model forgets what it held, and may give it again.
Forget(S) ==
    LET B == {b \in S : b[1] = "postmortem"}
    IN  /\ repo' = [repo EXCEPT !.refs = [b \in DOMAIN @ |->
                      IF b \in B \ {repo.head} THEN {} ELSE @[b]]]
        /\ remote' = [b \in Branches |-> IF b \in B THEN {} ELSE remote[b]]
        /\ openHeads' = openHeads \ B

\* A decision that is wanted begins.
Start(p, n, stage, branch) ==
    LET u == presses[n].of
    IN  /\ work' = [work EXCEPT ![p] = [stage |-> stage, press |-> n, of |-> u,
                                        branch |-> branch]]
        /\ overlaps' = overlaps \cup ({u} \X UnderWay(p))
        /\ UNCHANGED <<handled, faults>>

\* The first press of the batch.  The offset of the poller moves before the handler
\* runs.
Take(p) ==
    \E n \in poller[p].batch :
        LET u == presses[n].of
        IN  /\ \A m \in poller[p].batch : n <= m
            /\ work[p].stage = "idle"
            /\ poller' = [poller EXCEPT ![p].batch = @ \ {n}, ![p].next = n + 1]
            /\ \/ /\ Answered(u) /\ presses[n].action = "reject"
                  /\ Start(p, n, "reject", MainBranch)
               \/ /\ Answered(u) /\ presses[n].action = "approve"
                  /\ \E b \in BranchesFor(u) : Start(p, n, "prepare", b)
               \/ /\ ~Answered(u)
                  /\ handled' = handled \cup {n}
                  /\ UNCHANGED <<work, overlaps, faults>>
               \/ /\ Fault   \* the row cannot be read
                  /\ handled' = handled \cup {n}
                  /\ UNCHANGED <<work, overlaps>>
            /\ UNCHANGED <<rows, chatVars, offsetRow, gitVars, opened, refused, cut, spilled>>

Reject(p) ==
    LET u == work[p].of
    IN  /\ work[p].stage = "reject"
        /\ \/ SetRow(u, "rejected") /\ refused' = refused \cup {u}
           \/ Fault /\ UNCHANGED <<rows, refused>>
        /\ handled' = handled \cup {work[p].press}
        /\ work' = [work EXCEPT ![p] = NoWork]
        /\ UNCHANGED <<chatVars, offsetRow, poller, gitVars,
                       opened, cut, spilled, overlaps>>

Goto(p, stage) == work' = [work EXCEPT ![p].stage = stage]

---------------------------------------------------------------------------
(* MemoryWriter *)

Clean == repo.tree = repo.refs[repo.head]

\* git checkout -B: edits that were not committed are carried along, unless the
\* file differs between here and there.
CanCheckout == Clean \/ repo.refs[repo.head] = {}

\* Seeded fault of Switched: the branch is not reset to origin/main.
SwitchedInPlace(b) == [repo EXCEPT !.head = b, !.refs[b] = repo.refs[repo.head]]

Switched(b) ==
    [head |-> b, refs |-> [repo.refs EXCEPT ![b] = {}],
     tree |-> IF Clean THEN {} ELSE repo.tree]

\* _prepare_branch
Prepare(p) ==
    /\ work[p].stage = "prepare"
    /\ \/ CanCheckout /\ repo' = Switched(work[p].branch) /\ Goto(p, "edit") /\ UNCHANGED faults
       \/ ~CanCheckout /\ Goto(p, "failed") /\ UNCHANGED <<repo, faults>>
       \/ Fault /\ Goto(p, "failed") /\ UNCHANGED repo
    /\ UNCHANGED <<rows, chatVars, offsetRow, poller, remote,
                   openHeads, histVars>>

\* _append_if_new and _insert_under_header: an entry that is there is not repeated.
Edit(p) ==
    LET u == work[p].of
    IN  /\ work[p].stage = "edit"
        /\ IF u \in repo.tree THEN Goto(p, "failed") /\ UNCHANGED repo
           ELSE Goto(p, "commit") /\ repo' = [repo EXCEPT !.tree = @ \cup {u}]
        /\ UNCHANGED <<rows, chatVars, offsetRow, poller,
                       remote, openHeads, faults, histVars>>

\* git add and commit, on whatever branch is checked out by now.
Commit(p) ==
    /\ work[p].stage = "commit"
    /\ \/ /\ ~Clean
          /\ repo' = [repo EXCEPT !.refs[repo.head] = repo.tree]
          /\ Goto(p, "push")
          /\ UNCHANGED <<spilled, faults>>
       \/ /\ Clean   \* nothing staged
          /\ Goto(p, "failed")
          /\ UNCHANGED <<repo, spilled, faults>>
       \/ /\ Fault
          /\ spilled' = spilled \cup (repo.tree \ repo.refs[repo.head])
          /\ Goto(p, "failed")
          /\ UNCHANGED repo
    /\ UNCHANGED <<rows, chatVars, offsetRow, poller, remote,
                   openHeads, handled, opened, refused, cut, overlaps>>

\* _push_with_token: without a tracking branch the lease expects no branch there.
Push(p) ==
    LET b == work[p].branch
    IN  /\ work[p].stage = "push"
        /\ \/ /\ remote[b] \in {{}, repo.refs[b]}
              /\ remote' = [remote EXCEPT ![b] = repo.refs[b]]
              /\ Goto(p, "open")
              /\ UNCHANGED faults
           \/ /\ remote[b] \notin {{}, repo.refs[b]}
              /\ Goto(p, "failed")
              /\ UNCHANGED <<remote, faults>>
           \/ Fault /\ Goto(p, "failed") /\ UNCHANGED remote
        /\ UNCHANGED <<rows, chatVars, offsetRow, poller, repo,
                       openHeads, histVars>>

\* _open_pr and _find_existing_pr.  The answer of a request that created the
\* pull request may be lost.
OpenPr(p) ==
    LET u == work[p].of
        b == work[p].branch
        created == /\ openHeads' = openHeads \cup {b}
                   /\ opened' = [opened EXCEPT ![u] = @ + 1]
    IN  /\ work[p].stage = "open"
        /\ \/ b \in openHeads /\ Goto(p, "approved") /\ UNCHANGED <<openHeads, opened, cut, faults>>
           \/ /\ b \notin openHeads
              /\ \/ created /\ Goto(p, "approved") /\ UNCHANGED <<cut, faults>>
                 \/ created /\ Fault /\ cut' = cut \cup {u} /\ Goto(p, "failed")
           \/ Fault /\ Goto(p, "failed") /\ UNCHANGED <<openHeads, opened, cut>>
        /\ UNCHANGED <<rows, chatVars, offsetRow, poller, repo,
                       remote, handled, refused, spilled, overlaps>>

\* update_pending_memory_status at the end of the callback.
Finish(p) ==
    LET u == work[p].of
    IN  /\ work[p].stage \in {"approved", "failed"}
        /\ \/ SetRow(u, work[p].stage) /\ UNCHANGED cut
           \/ Fault /\ cut' = cut \cup {u} /\ UNCHANGED rows
        /\ handled' = handled \cup {work[p].press}
        /\ work' = [work EXCEPT ![p] = NoWork]
        /\ Forget({work[p].branch})
        /\ UNCHANGED <<chatVars, offsetRow, poller, opened, refused, spilled, overlaps>>

---------------------------------------------------------------------------
(* Expiry *)

\* sweep_expired, for one row that is past expires_at.
Sweep(u) ==
    /\ rows[u] = "pending"
    /\ SetRow(u, "expired")
    /\ UNCHANGED <<chatVars, offsetRow, poller, work, gitVars, histVars>>

\* The cloud routine: GET /memory/sweep, the messages, POST /memory/sweep.  Between
\* fetch and mark the row may be decided; the mark does not look at its status.
CloudSweep(u) ==
    /\ rows[u] \notin {"none", "expired"}
    /\ rows' = [rows EXCEPT ![u] = "expired"]
    /\ UNCHANGED <<chatVars, offsetRow, poller, work, gitVars, faults, histVars>>

\* The process with the pollers dies; the working tree stays as it is.
Crash ==
    /\ Fault
    /\ poller' = [p \in Pollers |-> Off]
    /\ work' = [p \in Pollers |-> NoWork]
    /\ cut' = cut \cup ({work[p].of : p \in Pollers} \ {0})
    /\ spilled' = spilled \cup (repo.tree \ repo.refs[repo.head])
    /\ Forget(Branches)
    /\ UNCHANGED <<rows, chatVars, offsetRow, handled, opened, refused, overlaps>>

---------------------------------------------------------------------------

Init ==
    /\ rows = [u \in Updates |-> "none"]
    /\ announced = {} /\ presses = <<>> /\ confirmed = 0
    /\ offsetRow = 0
    /\ poller = [p \in Pollers |-> Off]
    /\ work = [p \in Pollers |-> NoWork]
    /\ repo = [head |-> MainBranch, tree |-> {},
               refs |-> [b \in Branches \cup {MainBranch} |-> {}]]
    /\ remote = [b \in Branches |-> {}]
    /\ openHeads = {}
    /\ faults = 0
    /\ handled = {} /\ opened = [u \in Updates |-> 0]
    /\ refused = {} /\ cut = {} /\ spilled = {} /\ overlaps = {}

LoopStep(p) == FetchDaemon(p) \/ FetchPoll(p) \/ Take(p) \/ EndPoll(p)
WriterStep(p) == Prepare(p) \/ Edit(p) \/ Commit(p) \/ Push(p) \/ OpenPr(p)
HandlerStep(p) == Reject(p) \/ WriterStep(p) \/ Finish(p)

Next ==
    \/ \E order \in OrderIds : Enqueue(order)
    \/ WeeklyReview
    \/ \E u \in Updates : Sweep(u) \/ CloudSweep(u)
    \/ \E u \in announced, a \in {"approve", "reject"} : PressButton(u, a)
    \/ \E p \in Pollers : StartDaemon(p) \/ LoopStep(p) \/ HandlerStep(p)
    \/ Crash

Spec == Init /\ [][Next]_vars

\* A routine polls again and again and each request runs to its end, whatever the
\* daemons do.
FairSpec ==
    /\ Spec
    /\ \A p \in OneShots : WF_vars(LoopStep(p) \/ HandlerStep(p))

=============================================================================
