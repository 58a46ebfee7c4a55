# Verification of the trading engine

This directory is a TLA+ development of the trading bot: models of its stateful
components translated from the code, TLC configurations that check them on small
instances, and TLAPS proofs about them for every instance. Paths below are
relative to the repository root (PROJECT.json puts `src/` in front of them); line
numbers are those of the commit modelled.

## 1. The system

The bot scans a watchlist, scores candidate trades, asks the user (Telegram
buttons or the dashboard), executes what the user approves through a paper or a
live broker, and then watches the position until it is closed. One Python object,
`TradingEngine` (`src/main.py`), owns every other component. It is built in three
kinds of process: the scheduler (`start`, with a run loop), the dashboard, and the
Fly worker, whose tick thread keeps one engine while `trigger_api` builds a new one
for each scan and each poll. All share one database.

| Component | State | Operations | Properties that make it correct |
|---|---|---|---|
| Order manager (`src/execution/order_manager.py`) | none of its own | `execute_signal`, `close_position` | every fill is tracked; a refused order changes nothing; entry and exit rows of `trades` match the book |
| Portfolio (`src/risk/portfolio.py`) | positions, day's P&L, day; rows `position_state`, `app_state["portfolio_counters"]` | `add_position`, `close_position`, day reset, load | book agrees with the broker; the day's P&L survives restarts and midnights; a position leaves once and never comes back |
| Kill switch (`src/risk/kill_switch.py`) | day it was tripped for; its row | `check`, `force_trigger`, `reset`, load | a trip lasts until midnight, restarts included; no order after the loss |
| Guardrails and sizing (`src/risk/guardrails.py`, `position_sizing.py`) | none | `validate_order`, `calculate_position_size` | limits hold at the moment of the order; what remains of them under concurrency is bounded |
| Auto-sell manager (`src/execution/auto_sell.py`) | triggers; rows `auto_sell_trigger_state` | create, check, deactivate, trail, poll, reconcile | no live GTT without its position, and one per position but for those a failure or crash cuts loose, which are counted; stops only tighten; due positions leave; nothing is sold twice that the cycle could know to be sold |
| Brokers (`src/execution/paper_broker.py`, `live_broker.py`) | orders, GTTs on the exchange | place, modify, delete, status | their failures are not taken for facts |
| Approval queue (`src/main.py` 494-739) | `_pending_signals`; rows `pending_signals` | queue, approve, ignore, expire, load | a signal is executed at most once, never after expiry or after being ignored |
| Scan cycle (`src/main.py` `run_cycle`) | instruments, regime, dynamic universe and its date | macro, regime, news, strategies, agents, filters, queue | nothing is queued that nobody assessed; the best are queued |
| Agents and consensus (`src/agents/`), universe (`src/data/universe_selector.py`) | none, or a day's cache | score, filter, agree, dedupe, select | no signal against the majority; sector and output limits cut the weakest |
| Kite session (`cloudflare-worker/src/index.js`, `src/data/kite_client.py`, `scripts/kite_auth.py`, `routines/impl/morning_login_prompt.py`, `routines/impl/heartbeat.py`) | token and expiry in `app_state` of two databases; a token file | login, expiry, prompt, authenticate | a session called active is one; a trading day without a session is asked for one, or the failure to ask is reported before the market closes |
| Telegram notifier (`src/notifications/telegram.py`) | update offset of each poller | background polling, one-shot polling | no press is lost; a press is handled |
| Workers (`workers/`) | engines of one process, their memory copies | tick, scan, poll | the tick works with today's token; a poll stores what it has handled |
| Memory pipeline (`src/feedback/postmortem_pipeline.py`, `memory_writer.py`, weekly review, sweeps) | rows `pending_memory_updates`, working tree, branches | draft, approve, reject, expire, commit, push, open | one approval, one pull request with its own entry; a rejection is final |
| Kite rate limiter, strategies, indicators, regime model, dashboard, reports, configuration | none, or caches | arithmetic, I/O, formatting | see "Not modelled" |

**Interactions.** Every component is called directly; there is no lock anywhere in
the engine. Approvals arrive on the Telegram polling thread, on dashboard request
threads and from `trigger_api`; the run loop or the tick thread monitors and exits
at the same time. Components share the `Portfolio` object within a process and the
database between processes. Telegram, Kite, GitHub and the two Supabase databases
are reached by HTTP from the worker, the Cloudflare worker and the cloud routines,
none of which knows of the others. The database layer opens one transaction per method
and swallows every exception.

**What is hard.** Interleavings of calls between check and update; crashes between
two of the several transactions of an operation; writes lost silently; orders
reported as failed that the exchange completes; the exchange acting on its own
(GTT) while the application acts; restarts that rebuild memory from rows of
different ages; midnight passing in the middle of anything; presses fetched by two pollers,
or delivered again; tokens that end in the afternoon under a process that lives for
days. The full list, each at its line, is under `hazards` in PROJECT.json.

## 2. Modules

| Module | Models | Kind |
|---|---|---|
| `RiskRules` | sizing, the four guardrails, realized P&L | operators |
| `TradingCore` | order manager, portfolio, kill switch, their rows, the broker | state machine |
| `PositionLedger` | what portfolio and order manager promise together | abstract specification |
| `AutoSell` | auto-sell manager, monitor cycle, reconciliation, GTTs, exchange | state machine |
| `Approval` | approval queue, its rows, handlers, restarts | state machine |
| `MemoryUpdates` | memory pipeline, memory writer, both Telegram pollers, sweeps | state machine |
| `Session` | logins, the two token stores, expiry, the morning prompt, the heartbeat, the worker's token | state machine |
| `ScanRules` | universe, scores, filters, consensus | operators |
| `MarketScan` | the scan cycle around these rules | state machine |
| `<M>Props` | what module M guarantees | properties |
| `MC<M>` | small instances of M | TLC |
| `TradingCoreProofs`, `LedgerProofs`, `AutoSellProofs`, `ApprovalProofs`, `MemoryProofs`, `SessionProofs`, `ScanProofs` | theorems | proofs |
| `SumTheorems` | induction on numbers and finite sets; what a sum over a finite set obeys | lemmas |

`MarketScan` extends `ScanRules`, `TradingCore` extends `RiskRules`, and
`TradingCoreProps` instantiates `PositionLedger`. Otherwise the state machines share no
variables: where one component calls another, the caller's module reduces it to its
effects and another module has its steps. A signal that `MarketScan` queues is one of
the signals `Approval` asks about; an order `Approval` counts is a call of
`TradingCore` and an approval of `AutoSell`.

Operators whose comment starts with "Seeded fault of X" are variants of X with a
plausible bug. No specification uses them; putting one in the place of X must make
TLC find the property named for it in PROJECT.json, which shows that the property
depends on the code it is about.

### TradingCore

A call of the order manager is a record in `call[t]`, `t` the thread. Its `stage`
says where the call is, one stage per point at which another thread or a crash can
come between two effects:

| Stage | Action leaving it | Code |
|---|---|---|
| `idle` | `ExecuteSignal`, `ClosePosition` | kill switch, duplicate check, sizing, guardrails; for exits the lookup of the position |
| `send` / `exitSend` | `EntryFilled`, `EntryRefused`, `EntryUnconfirmed` and the exit forms | `broker.place_order` |
| `filled` | `AddPosition` | memory and position row |
| `tracked` | `PersistTrade` | trade row |
| `exitFilled` | `BookExit` | pop, P&L, removal of the row |
| `popped` | `SaveCounters` | counters row |
| `counted` | `UpdateTradeExit` | exit in the trade row, kill-switch evaluation |

`Crash` empties the memory and every call; `Start` is the constructor: it loads the
switch, the positions (dropping those whose trade row says closed, `StaleRow`) and
the counters, or rebuilds the day's P&L from the trades (`TodaysTradePnl`).
`NextDay` is midnight; nothing in the program notices it before `DayReset` in the
next call. Each database write chooses an outcome from `WriteOutcomes`: done or,
at most `MaxFaults` times, lost without a trace, as the `except` clauses of
`Database` do. `EntryUnconfirmed` is `LiveBroker.place_order` reporting failure
for an order the exchange keeps (`resting`), `LateFill` its later execution.

`torn`, `tornTrades`, `pnlTorn` and `closed` are history: they note which symbols,
trade rows and sums a crash, a lost write or an unconfirmed order may have separated
from the truth, so that properties can say exactly what is exempt and nothing more.

Not in this module: trade counts and the all-time P&L (nothing decides on them), the
cycle and approval code around the order manager, and what the dashboard shows.

### PositionLedger, and how TradingCore implements it

The ledger has no threads, calls, rows or crashes: a position is opened by an order of
its own in a symbol that has none (`Open`), leaves (`Close`), and its trade is settled
after it has left (`Settle`); orders may be forfeited (`Forfeit`). The refinement
mapping in `TradingCoreProps` is

| Ledger | TradingCore |
|---|---|
| `book` | `Book`: the memory while the engine runs, the rows while it is down |
| `past` | order ids given out, but for those of calls between fill and booking |
| `settled` | trades whose row is closed |

so `AddPosition` is `Open` or, for the second fill of a symbol, `Forfeit`; `BookExit` is
`Close` for the first closer and a stutter for the second; a crash forfeits the fills it
interrupts and leaves the book alone, as does `Start`. `LedgerSpec` is checked in
`core_threads` and proved as `ImplementsLedger`, both with `MaxFaults = 0`: a lost row
write lets a restart bring back an old position (that is what `ClosedStaysClosed` is
about).

### AutoSell

Two threads of one engine. The approval (`approval`) buys (`Approve`), places the
GTT with its retries (`PlaceGtt`) and installs the trigger (`InstallTrigger`). The
monitor (`mon`) goes through `_monitor_auto_sell_positions`: `Tick`, then one
`PollGtt` per watched symbol, `CheckAll` on the prices it could get, and for each
exit `BeginExit`, `SellFilled` or `SellRefused`, `BookSale`, `CancelGtt`; finally
`TrailStop` and `SaveStop` per remaining trigger. `GttExit` is
`_handle_gtt_triggered_exit` up to the call that raises. The exchange acts on its own:
`MarketMoves`, `GttFires`, `GttLost`.

A restart is `Crash`, `Start` and the two loops of `_reconcile_gtt_on_startup`
(`src/main.py:217-272`). `Reconcile` asks for the status of one order
(`reconcile_on_startup`): an order that is gone, or whose status cannot be read, is
dropped from the trigger, in memory only. `Replace` then takes one position without an
order at a time, `PlaceGtt` is the same retried placement as in an approval
(`src/execution/auto_sell.py:370-405`), and `KeepReplacement` sets the id and saves the row. So
the answer of a replacement can be lost and the placement repeated, and a crash can come
between the exchange's answer and the row; either leaves a second live GTT. The
constructor does all this before the process serves anything, so no approval and no tick
runs meanwhile.

`ReloadsTriggers` chooses between the scheduler's cycle and `tick_auto_sell`, which
clears and reloads the triggers first. `Priced` is the set of symbols that have an
instrument token: all that were loaded in the scheduler, none in the worker.
`StrategyExits` lets `_check_exits` close positions that have no active trigger.
`Overlaps` allows an approval of a symbol whose earlier trigger is still at work.
`FailureKinds` names what may go wrong, `MaxFailures` how often.

Abstractions: a position is one lot and `execute_signal` and `close_position` are
reduced to their effects (TradingCore has their steps); prices are a few levels and
the trailing stop an integer percentage, rounded down; the cooldown between stop
updates is a nondeterministic skip; the transient status "updating" is not seen by
any other step; row writes do not fail here (TradingCore has those); the kill
switch, which blocks the whole cycle, is left out; paper GTTs never fire and are not
modelled. Structure-break and confidence exits are absent because the monitor passes
neither volume ratios nor confidences to `check_all`.

`stray` collects the GTTs that a failed deletion, a lost answer, a failed status
request at start or a crash has cut loose, `abandoned` the positions whose exit was
refused or interrupted. The code has no way back to either; the properties exempt
exactly these. `SingleGtt` also bounds the exemption: of the orders that live on for a
symbol without the application's knowledge there are at most as many as there were
failures and crashes. `unpolled` collects the GTTs of which the current cycle cannot know that
they are executed: those executed since it asked for their status, and those a trigger took
up since (an order executed before its trigger was installed is not asked about until the
next cycle). `SoldTwiceOnlyInWindow` says that the application sells what the exchange has
sold for these only.

### Approval

Each engine has its own copy of the queue (`memory[e]`, the `_pending_signals` of
`TradingEngine`), all share the rows.

| Actions | Code |
|---|---|
| `BeginCycle`, `Expire`, `CleanUp` | `run_cycle` up to the end of `_expire_pending_signals`, one signal at a time |
| `Announce`, `Queue`, `SaveSignal`, `EndCycle` | `_queue_signal_for_approval`: message with buttons, memory, row |
| `Press` | `handle_signal_action` up to the checks |
| `Decide`, `SaveDecision`, `Execute` | the status after the request to Telegram, its row, the order |
| `Build` | `_load_pending_signals` |
| `Stop` | a crash, or the end of an engine built for one scan or poll |
| `TimePasses` | the clock: past the expiry time, then past the day of the clean-up |

A press names any signal whose message is out, at any time, and may be delivered
again: the chat keeps the buttons until they are removed, and two pollers can fetch
the same update. The outcome of the order is a choice (TradingCore decides it). A
failed row access leaves the signal in `unsaved`, which is history: the code logs the
failure and goes on, and the properties exempt exactly these signals.

Left out: the kill switch in front of the cycle, what the messages say, the removal
of the buttons, and the cycle's scan, of which only the signals it queues remain.
A change of the status in memory and of its row is one step in `Expire` and in the
expiry branch of `Press`; after a crash between the two the row is expired by the
next load, as if the crash had come before both.

### MemoryUpdates

| Actions | Code |
|---|---|
| `Enqueue`, `WeeklyReview` | `PostmortemPipeline.enqueue`, `WeeklyReviewAgent.run`: draft, row, message with buttons |
| `PressButton` | the user, at any time, any button, again and again |
| `StartDaemon`, `FetchDaemon` | `start_callback_polling`, `_poll_callbacks`: offset in memory, from 0 |
| `FetchPoll`, `EndPoll` | `trigger_poll` around `process_updates_once`: offset from and to `app_state` |
| `Take` | one update of the batch: the offset moves, then `handle_memory_callback` up to its first effect |
| `Reject`, `Finish` | the status at the end of the callback |
| `Prepare`, `Edit`, `Commit`, `Push`, `OpenPr` | `MemoryWriter.apply` and what it calls, one failure point each |
| `Sweep`, `CloudSweep` | `sweep_expired`; `GET` and `POST /memory/sweep` |
| `Crash` | the process with the pollers |

Telegram's side is `presses` (the update_id is the index) and `confirmed`: it drops what
is before an offset somebody asked for, and nothing else. The files of `memory/` are one
file whose text is a set of entries; `repo` is the working tree with the commits of each
branch, `remote` what was pushed. `git checkout -B` carries uncommitted edits along
(`Switched`), which is why `spilled` exists. `overlaps`, `cut` and `spilled` are history:
updates handled at the same time by two pollers, those whose handler was cut off or
misinformed, and entries a failed commit left behind. There is no lock around
`handle_memory_callback` and no cleaning of the tree, so the properties exempt these and
nothing more. `Room` bounds drafts and faults together (`MaxEvents`); branch names with a
time in them are recycled once their handler is gone (`Forget`), because the code never
looks at them again. One trade has at most one row here.

### Session

The clock has five slots a day: night, morning (the prompt comes at 08:55), trading,
the five minutes from 15:25 to 15:30, evening. `Login` is `generateSession`, `Upsert` the
four `supabaseUpsert` calls of `writeToken` one by one, of requests that may overlap;
`SetExpiry` lies between them, because the expiry is computed after the `await` of the
token (`cloudflare-worker/src/index.js:167-168`) and the clock may move on meanwhile.
`ConsoleLogin` is `scripts/kite_auth.py` with its file. The worker reads the token and
the expiry in two queries (`src/data/kite_session.py:46-47`): `ReadToken` is the first, `Tick` the
second and the rest of a tick of `run_loop` and `tick_auto_sell` with the re-authentication
at its start; a login may write between the two. `Restart` is the end of the worker's
machine, `MorningPrompt` and `Heartbeat` are the routines. `at` is not in the database: it
remembers for the properties when an expiry was computed. `Tock` does not let a
request or the start of a tick last longer than one slot; they take seconds, slots at
least five minutes.

The heartbeat's cron is `30 3-10` UTC: it comes every hour, and its first look while the
market is open is at 10:00 IST (not at 09:10, as `routines/morning-login-prompt.md:36-37`
has it). So `Heartbeat` is an action of the trading slot, and `NoSilentDay` gives it that
slot to speak.

Abstractions: a write that fails ends the request, as the worker's error page does; that a
PATCH of an absent row answers 204 and writes nothing is left out, the rows exist. The
model takes Python 3.11 or later: the routines parse the worker's "...Z" with
`datetime.fromisoformat` (`routines/impl/morning_login_prompt.py:49`, `heartbeat.py:40`,
`signal_scan.py:38`), which raises before 3.11, where every session would count as
unreadable; `pyproject.toml` allows 3.9. `kite_session.py:51` replaces the Z first.

### ScanRules and MarketScan

`ScanRules` has the arithmetic: `ComputeConfidence`, `ScoreSingle` and the regime's guard
of the orchestrator, the four filters, Stitch's majority, divergence, boost, sector
limit and cut, and the choice of the dynamic universe. Inputs are hundredths, scores
ten-thousandths, the four decimals the code rounds to. A list operation is defined by its
result, not by a loop: a filtered list is the elements at a set of places in their order
(`At`), Python's stable reverse sort puts every place at the rank its key and its number
give it (`Arranged`, `Descending`), and a limit per sector keeps what has fewer than the
limit of its sector before it (`Capped`), which is when the code's counter lets it pass.
This is what makes them open to proof. `MarketScan` is `run_cycle` around it, one action
per step that can come out differently: `BeginCycle` (macro, regime), `Research` (news, Researcher, universe),
`ScanSymbol` (one strategy on one symbol), `NoSignals` or `Evaluate` (Sentinel), then
`QueueSignals`. An agent's answer is a number, an answer without one, or a failure after
the retries (`Answers`), each with the default the code falls back to. `LoadInstruments`
is the job of 09:10, `Restart` a new process with or without session, `NewDay` the next
UTC day, which the universe's cache goes by.

## 3. Runs

| Run | Instance | Shows |
|---|---|---|
| `core_serial` | 2 symbols, 1 thread, 2 orders, 2 days, 1 crash, 1 unconfirmed order | book and broker agree, the day's P&L and the switch survive crash and midnight, no order after the daily loss, exposure overrun bounded by one order's slippage |
| `core_faults` | 1 symbol, 2 crashes, 1 lost write | a closed position never comes back, whichever single write was lost, unless a crash also kept its trade row from being written |
| `core_threads` | 3 symbols, 2 threads, 3 orders, 1 crash, limit 1 | the position limit is overshot by at most one per extra thread; every step is one of the ledger |
| `autosell_safety` | 1 symbol, 2 positions, 3 GTTs, 3 prices, 3 of up to 2 failures of 8 kinds and 2 crashes, or one of each and a second position | GTTs and positions match, the GTTs cut loose are counted, the position is watched, stops tighten, no phantom close, double sales only inside the polling window |
| `autosell_liveness` | 2 symbols, 2 positions, the first in one of them (`FirstInFirst`), 2 prices, 1 failure, strategy exits, fair cycles | due positions and positions with a fired GTT leave the book |
| `autosell_phantom` | the worker's cycle, no failure, no crash | finding: a trigger comes back and closes a new position |
| `autosell_resold` | 1 position, 1 GTT, 1 crash | finding: what the exchange sold while the process was down is sold again |
| `approval_single` | 1 engine with its Telegram thread, 2 signals, 3 presses, 1 crash, 1 failed row access, fair cycles | one order per signal, an ignored signal stays ignored, queue and rows agree through restarts, no signal waits for ever |
| `approval_twice` | 2 engines, 1 signal | finding: one signal, two orders |
| `memory_pipeline` | a postmortem and a weekly review, 2 presses, a daemon and a one-shot poller, 2 events | no press dropped unhandled, one approval one pull request with its own entry, a rejection none, every press handled while the routine polls |
| `session_days` | 3 days, the middle one a holiday, 2 overlapping requests, 2 logins, 2 failures | active sessions live, no trading day without a session passes in silence, ticks with a living token, a login reaches the running worker |
| `scan` | 2 watchlist symbols of one sector, 2 candidates, 2 strategies, 3 findings each, 2 days, risk on or off, every answer of the agents | nothing queued without the Sentinel or against the majority, nothing better left out |

**Why the bounds are enough.** Two symbols or two threads are needed for every
conflict the code can have, which is always between two; a third symbol in
`core_threads` lets the overshoot exceed one if it could. One crash can come at
every step and is followed by a whole life of the restarted process; the second one of
`core_faults` lets the entry of a position be interrupted and its exit be followed by a
restart; one fault can hit any write; two days bring one midnight before, between and after
calls (`NextDay` needs every call to be over; a call takes seconds, and one that straddles
midnight is not modelled).
Two positions of one symbol in AutoSell are what it takes for one's remains to harm
the next. Three failures or crashes around one position (`FewMishaps`) are what it takes
for the order to be lost, the process to start again, and the placement at start to lose
its answer and be repeated, or to be cut off before its row is saved; with a second
position there is one failure and one crash. Prices reach the stop and a trailing stop in
`autosell_safety`, the target in `autosell_liveness`; each run has a price at which nothing
is due. In `autosell_liveness` the first position is in one of the two symbols, which the
model treats alike, so that the other half of the behaviours are mirror images; a
placement is tried once there, so that a failure leaves a position without a GTT.
Three presses of two signals bring a repeated press and one of another button. In
`memory_pipeline` the one-shot poller and the daemon meet on two presses of one update or
one of each; the two events are the drafts of both updates, or a draft and a failure or
crash at any step. Three days in `session_days` bring an expiry over a night, over a
holiday, and a login in every slot; two overlapping requests interleave their eight
writes in every order; two failures let a prompt and a login's write fail, or a prompt
and the heartbeat after it. In `scan`, two symbols of one sector with limit one make every
cut happen, and two strategies an agreement, a tie and, on the least liquid candidate, a
divergence of confidences. Each action of the
modules fires in a passing run.

**Deadlock** is checked in every run but `session_days`: the market, the approval, the
restart, the user or the next poll can always move, or the run would report it. In
`session_days` the clock stops at `MaxDay`, after which nothing need happen.

**Fairness.** `autosell_liveness` states weak fairness of the monitor's steps and of
an approval under way. `TradingEngine.start` and `workers/auto_sell_tick.run_loop`
call the cycle at every interval and catch what it raises, and the thread of an
approval is not stopped; nothing is assumed of the market, the exchange, the user or
the clock. `approval_single` states weak fairness of the cycle, of the restart of a
stopped engine, of a handler under way, and of the clock; presses are not fair, so
`Settled` speaks of signals nobody answers. `memory_pipeline` assumes that the routine
polls again and again and that each request runs to its end (`WF` of the one-shot
pollers' loop and handler steps); nothing is assumed of the daemons, which may die or
take a press away at any time. `session_days` assumes that the worker ticks while the
market is open (`WF` of `ReadToken \/ Tick`), which `run_loop` does every minute. Each
`WF` is on the disjunction of an actor's steps, not on each step.

## 4. Proofs

Each theorem holds for any sets of symbols, threads, signals, presses or days, any prices,
limits and bounds, under the named `ASSUME`s of the modules, which TLC evaluates in every
run.

| Theorem | States | Assumes | Inductive invariant |
|---|---|---|---|
| `TradingCoreProofs!TypeCorrect` | `TypeOK` | nothing | `ShapeInv`: also, a call under way names a symbol; the day's P&L is an integer because a sum of integers is (`SumInt`) |
| `SwitchDurable` | `SwitchSurvivesRestart` | no lost write | `SwitchInv` adds that the dates of switch and row are not ahead of today, so that midnight clears both at once |
| `TripLasts` | `TrippedUntilTomorrow` | no lost write | `SwitchInv` and `MirrorInv`; an action property: each step that writes the row is looked at |
| `OvershootBound` | `PositionOvershootBounded` | no lost write | `OvershootInv`: open positions plus calls between check and booking stay within limit + threads - 1; a new call sees the positions and at most the others' calls |
| `SerialPositionLimit` | `PositionLimit` | no lost write, one thread | from `OvershootBound` |
| `BookAgrees` | `BookAgreesWithBroker` | no lost write, one thread | `SerialCore`, below |
| `CountersMatch` | `CountersMatchBroker` | no lost write, one thread | `SerialCore` and `CountersCore`, below |
| `LossLimitHonoured` | `DailyLossHonoured` | no lost write, one thread | `CountersCore` |
| `ExposureWithinLimit` | `ExposureBounded` | no lost write, one thread | `SerialCore` and `ExposureCore`, below |
| `LedgerProofs!ImplementsLedger` | `LedgerSpec`, a refinement | no lost write | `MirrorInv` and `LedgerCore`, below |
| `OpenTradesHeld` | `OpenTradesAreHeld` | no lost write, one thread | `LedgerCore` and `OpenTradesCore`, below |
| `ClosedPositionsStayClosed` | `ClosedStaysClosed` | one thread; any writes may be lost | `ClosedCore`, below |
| `AutoSellProofs!TypeInvariant` | `TypeOK` | nothing | `ShapeInv`: also, the monitor sells only what is in the book |
| `GttsHavePositions` | `LiveGttHasPosition` | `Undisturbed` | `GttInv`, below |
| `OneGttPerSymbol` | `SingleGtt` | `Undisturbed` | `GttInv` and `StrayInv`, below |
| `PositionsAreGuarded` | `HeldIsGuarded` | `Undisturbed` | `GttInv` |
| `NothingClosesUnsold` | `NoPhantomClose` | `Undisturbed` | `GttInv`; an action property: each step that empties a symbol of the book |
| `SoldTwiceOnlyAfterPoll` | `SoldTwiceOnlyInWindow` | `Undisturbed` | `GttInv` and `AskedInv`, below |
| `StopsOnlyTighten` | `StopOnlyTightens` | `Undisturbed` | `GttInv` and `StopInv`, below; an action property |
| `ApprovalProofs!TypeInvariant` | `TypeOK` | nothing | `ShapeInv` |
| `AtMostOnce` | `ExecutedOnce` | one handler | `OnceInv`, below |
| `ApprovalProofs!RejectionIsFinal` | `IgnoredIsFinal` | one handler | `OnceInv` |
| `QueueAgrees` | `QueueMatchesRows` | one engine | `QueueInv`, below |
| `MemoryProofs!TypeInvariant` | `TypeOK` | nothing | `ShapeInv` |
| `AtLeastOnce` | `DroppedWasHandled` | nothing | `LoopInv`, below |
| `OnePullRequest` | `AppliedOnce` | nothing | `DecisionInv`, below |
| `MemoryProofs!RejectionIsFinal` | `RejectedIsFinal` | nothing | `DecisionInv` |
| `PullRequestIsOwn` | `OwnEditsOnly` | nothing | `EditsInv`, below |
| `SessionProofs!TypeInvariant` | `TypeOK` | nothing | `SessionInv` |
| `SessionsLive`, `DaysNotSilent`, `TicksAuthenticated` | `ActiveMeansAlive`, `NoSilentDay`, `MonitorsWithLiveToken` | nothing | `SessionInv`, below |
| `ScanProofs!TypeInvariant` | `TypeOK` | nothing | `ScanInv`: also, the signals are such as strategies find, and a cycle that scores has asked the Sentinel |
| `NoSentinelNoTrade` | `NoTradeWithoutSentinel` | nothing | `ScanInv`; an action property |
| `MajorityWins` | `MajorityDirection` | nothing | `ScanInv`; `ConsensusOfAll`, below |
| `BestOnesQueued` | `BestAreQueued` | nothing | `ScanInv`; `CutForBetter`, below |

**The book.** `BookAgreesWithBroker` is not inductive: that the broker holds what the rows
say after a load needs that no held row is dropped (`RowsAreLive`: its trade row is not
closed), which needs that order ids are given once and name one position
(`OrdersDistinct`), which needs that the call under way and the rows say the same of
the position (`CallMatchesRows`), and that a late fill only hits symbols already
noted as torn (`RestingIsTorn`). `MirrorInv` says that rows and memory are equal as
long as no write is lost, so all of it can be said of the rows, which a crash leaves
alone. The proof of each step has one lemma for the actions outside a call, one for
each operation, and one conjunct at a time.

**The counters.** Three numbers are said to agree: the day's P&L in memory, the one in
`app_state`, and that of the exit fills. `CountersCore` says for each stage of a call what
is still missing from which (`Pending`, between the fill and the booking; the row, between
the booking and `SaveCounters`). The rebuilding at start sums the day's trade rows, and
needs that no such row exists when the saved counters are of an earlier day: the exit in
the trade row is the last of the writes, after the counters of that day. With this the loss
limit follows from the order of `execute_signal`: it reads the P&L in the step in which the
call begins, and with one thread no fill comes between.

**The exposure.** The bound does not survive a closing by itself: taking a position out
lowers the sum, but the slippage allowed is that of a position still held. The proof needs
that every slip is less than its position's price, so that closing the position that
slipped takes out more than it slipped by (`ExposureCore`). `SumTheorems` has what this
takes of sums: removing an element, equal summands, an upper bound.

**Rows left behind.** `OpenTradesHeld` is about the rows of `trades` that have no exit: each
belongs to a held position or to the call at work on it, but for those whose entry a crash
cut between the position row and the trade row. `ClosedPositionsStayClosed` is the theorem
about lost writes: it does not assume that writes succeed. A closed position is brought back
by `_load_from_db` only if its row was left (one lost write) and its trade row does not say
closed: a second lost write, or no trade row at all because a crash came before
`_persist_trade`, which `has_open_trade` takes for a trade that is open
(`src/storage/database.py:727`). `ClosedCore` counts these faults against `faults`
(`FaultsToRevive`). Both need one thread: two calls closing one position each write its
trade row.

**The ledger.** A step of TradingCore is mapped to a step or a stutter of
`PositionLedger` with an invariant that says which orders are still to come: the id of a
call between fill and booking is in nobody's book and in nobody's past, two such calls
have different ids, and a call that is about to close a trade no longer has its position
in the book. It needs no assumption on the number of threads: that is what makes it
stronger than `BookAgrees`, and it says less, nothing of the broker.

**The orders on the exchange.** The four theorems assume the scheduler without what
section 5 shows to break them: no reload of the triggers, no strategy exits, no approval
of a symbol whose last trigger is still at work (`Undisturbed`). Failures, crashes,
prices, symbols and numbers of orders are any. The properties relate a live order to the
book, which no step sees whole: the order is placed before its trigger exists, the
trigger is deactivated before the position is sold, the row outlives the process. So
`GttInv` says of each symbol, for every stage of approval, monitor and start, who knows
its live order: the approval or the start's placement, which then has the symbol to itself
(`BuyInv`), else the trigger at work and the active row, both by its id (`LiveInv`).
`WatchInv` ties trigger to row: an active trigger with an order has it in its row as well,
while the row may still name an order that the start has dropped in memory. It keeps both inactive
during an exit, so that a restart in the middle of one does not bring the trigger back.
`UntouchedSymbol` is the lemma for the other symbols of a step, `NewOrder` and
`DeactivateEffect` those for an order placed and one deleted.

**The orders cut loose.** That no two live orders of a symbol are both known follows from
`GttInv`. How many are unknown is a sum over steps: `StrayInv` says of each symbol that its
live stray orders are no more than the failures and crashes so far. A step that cuts an
order loose is one of these and cuts one at most (`Loosens`, `LooseningCounts`, `OneMore`); any other step
leaves the set as it is or makes it smaller, when one of them fires.

**Double sales.** What the cycle knows of an order is the status it was told
(`gst`) or, before it has asked, nothing; `AskedInv` says that once it has asked, an order
that is executed without its trigger saying so is in `unpolled`. An active trigger, in
memory or in its row, names an order that was placed, which is what lets a restart begin
with a poll.

**Stops.** `StopOnlyTightens` is about the orders on the exchange, but whether a step loosens
one is decided by what the trigger remembers: the stop it asked for last and the best price
seen. `StopInv` says that the order's stop is no better than the remembered one, or no
better than the one a new request would carry (a crash may come between the exchange's
change and the row), and that row and trigger track the same price. So a reloaded trigger
asks for nothing worse. An order that the start places stands at the signal's stop and its
trigger starts again from there. That `TrailingStop` grows with the best price is arithmetic with a
division, in lemmas of its own.

**The queue.** With one handler, a signal executed, or ignored, is pending neither in its
engine's memory nor in the rows, so that an engine built later does not load it, and one
the handler or a cycle still has in hand is untouched (`OnceInv`). With two
handlers this is false, which is what `approval_twice` shows, so the assumption is needed.
`QueueAgrees` needs one engine, because another one's copy is not told of a decision. Both
rest on `QueueInv`: a signal that was not announced is nowhere, one under way in a cycle
has no row and is known to no other engine, a decided one is not pending in the memory of
the engine that decided it.

**The pollers.** Every offset, in a loop or in `app_state`, has behind it only presses that
were handled or are in a handler's hands, and in a batch what is missing before a press was
(`LoopInv`). Offsets only move over presses of the batch in order (`OffsetStep`). It holds
for any number of pollers of both kinds.

**The decisions.** On an update that is not exempt one handler at a time has a hand in;
its pull request is the last thing before its row is decided, and a rejected one has none
(`DecisionInv`). A second press finds the row decided or its handler at work, and the
latter is an overlap, which is exempt.

**The entries.** All handlers share one working tree. `EditsInv` says whose entries are
where: an edit not committed is of a handler about to commit or was left by one that failed
(`LooseInv`); of two handlers at work the overlap is recorded (`PairInv`); a branch, here
and on GitHub, holds the entry of its handler, of one overlapping it, or one left behind
(`BranchInv`).

**The session.** Token and expiry are two writes, and requests overlap, so a row may hold
the token of one login and the expiry of another; and a slot may end between a token and
the expiry computed for it. The invariant is that the expiry was computed at most one slot
after the token was issued (`RowInv`), which needs the same of every request between its
two writes (`BetweenInv`), which holds because a request began in this slot or the one
before (`CallbackInv`). The arithmetic of the clock is in lemmas
(`ExpiryBeforeDeath`, `FreshLives`, `TodayLives`, `LivesOn`).

**The scan.** The proofs are about lists of any length. `ArrangedVisits` shows that the
ranks `Arranged` gives to the places are a permutation, in the order of the keys; from it
`AtPicks` and `DescendingSorts` say what a filtered and a sorted list hold. A queued signal
goes back through cut, sector limit and sorts to the consensus of its symbol, which more
than half of the group agree with (`ConsensusOfAll`, `MajorityIsMost`). For a signal that is
left out, `CutForBetter` finds the better ones: if its sector is full, the places the limit
kept are exactly as many as it allows and all stand before it (`SectorCap`); if one of these
was cut at the end, `MaxOutput` others stand before that one. No penalty of a failed or
garbled answer passes the filter (`AnswersAreNumbers`), and from no signals come none
(`NothingToQueue`).

**Model-checked only.** The liveness properties (`ExitsWhenDue`, `FiredGttIsBooked`,
`Settled`, `PressHandled`, `LoginReachesWorker`): the proof system does not reason about
fairness over these actions, nor about `ENABLED`. Every invariant and every action property
of a passing run is a theorem; those of AutoSell assume what
`autosell_safety` assumes (`Undisturbed`).
Induction over data is done with sets in place of predicates (`NumberInduction`,
`SubsetInduction` of `SumTheorems`), because the provers cannot instantiate the library's
theorems that take an operator. No `RECURSIVE` operator is used.

## 5. Findings

- `autosell_phantom`: `_handle_gtt_triggered_exit` calls
  `Database.update_trade_exit`, which does not exist. The trigger row stays active,
  comes back at the next reload and closes a later position in the book alone.
- `autosell_resold`: `reconcile_on_startup` notices a GTT that was executed while the
  process was down and only marks the trigger; the position stays in the book, and the
  next software exit sells shares that are gone.
- `approval_twice`: the answer "Signal already approved" is given from the copy of
  the queue an engine loaded when it was built. The worker's tick engine and the
  engine of a poll both execute the same signal.

**Further behaviours of the same models**, reached when a constant of a passing run is
changed: with `Overlaps = TRUE` a repeated approval loses its trigger and its GTT to
the clean-up of the earlier exit (`HeldIsGuarded`); with `StrategyExits = TRUE` a
GTT outlives its position (`LiveGttHasPosition`); with the answer "deleted" among
the failures, or with `Priced = {}` as in the worker, `ExitsWhenDue` fails; with two
handlers of one engine `ExecutedOnce` fails as it does with two engines, because the
status is checked before a request to Telegram and set after it.

**Behaviours the models contain** and the properties exempt or do not speak of:

- Two approvals of one symbol on two threads both fill; the second fill is in nobody's
  book (`src/execution/order_manager.py:81`; `Forfeit` in the ledger).
- A GTT that fires between its poll and its cancellation sells a position the
  application sells too, and so does one executed before its trigger is installed, if that
  is after the cycle's polls (`src/main.py:781`; `SoldTwiceOnlyInWindow`).
- At a start, a placement whose answer is lost is repeated, and one whose row was not saved
  before a crash is made again at the next start; a status request that fails at start makes
  the program place an order beside the one it could not ask about. Each leaves two live
  GTTs on one position, and the program knows one (`src/execution/auto_sell.py:370-405`,
  `src/main.py:241-272`; `stray`, `SingleGtt`).
- Of two threads that close one position, the second finds it popped and writes a P&L of 0
  over the first one's in the trade row (`src/execution/order_manager.py:192`); this is a
  stutter of the ledger, which knows no amounts.
- A crash between `add_position` and `_persist_trade` leaves a position without a trade row.
  If, after its exit, the removal of its own row is lost too, a restart takes the missing
  trade for an open one and brings the closed position back (`src/risk/portfolio.py:42`,
  `src/storage/database.py:727`; `FaultsToRevive`).
- `_check_exits` (`src/main.py:1138`) calls a method `check` that `AutoExitMonitor` does
  not have; `run_cycle` catches the exception, and positions after the first are not
  looked at in that cycle.
- The closing of a trade hands the id of the exit order to the memory pipeline
  (`src/main.py:910`), which looks trades up by the id of the entry order: `Enqueue` of
  such an id drafts nothing.
- The cloud sweep marks what it fetched as expired whatever it has become since;
  `handle_memory_callback` does not look at `expires_at`; a press delivered to two pollers
  opens two pull requests; after a failed commit the next branch carries its entry.
- After a login between 15:25 and 15:30 the stored session is called active until the
  next day's 15:25 with a token that is dead in minutes; the prompt of the next morning
  is skipped (`OfLateLogin` is the exemption). The same holds of a login whose answer
  arrives at 15:25 though its token was asked for before.
- A tick between whose two queries another login writes the row takes the old token with
  the new expiry, for one tick (`src/data/kite_session.py:46-47`).
- A prompt that cannot be sent is not tried again; only the heartbeat of 10:00 speaks for
  it (`NoSilentDay`), and if that fails too, and the ones after it, the day passes without a word.
- The orchestrator compares lower-case market labels (`src/agents/orchestrator.py:169`)
  with the upper-case ones of `src/data/macro_data.py`, so that every signal gets the
  penalty of a market against it; `MarketConfirmation` has it as the code has it.
- The engine asks its instruments for the index, which `load_instruments` never stores,
  so the regime stays unset; in `scan` `Index` is outside `Tokens` for this reason.
- The dynamic universe of a UTC day is computed by the first cycle, also without
  instruments or session, and is then empty until the next day. A cloud scan builds a
  fresh engine that never loads instruments, and finds nothing.
- Of diverging opinions Stitch keeps the one of least confidence
  (`src/agents/stitch.py:137`), where its heading (line 8) speaks of rejection.

## 6. Plan

1. *Done:* RiskRules, TradingCore, PositionLedger with their proofs; AutoSell, Approval,
   MemoryUpdates and Session with proofs; ScanRules and MarketScan.
2. Fleet: several engines on one database; portfolio copies of different ages, the
   tick engine's book that is never reloaded, last writer of the counters wins.
   It composes the core's portfolio operators with AutoSell's triggers.
3. Pure algorithms against reference definitions: ATR and Kelly sizing, the market
   calendar's holiday table.
4. Proofs: the theorems of AutoSell without `Undisturbed`, as far as they hold: with
   strategy exits and in the worker's cycle; the core's invariants for several threads.

## 7. Not modelled

Strategies and indicators are floating-point arithmetic over price series and enter
MarketScan as inputs; agents call language models, of which the numbers and the failures
remain; market, news and fundamental data and the notifications are I/O; the regime
detector is a library's hidden Markov model, of which the answer remains; reports format
text. Kite's rate limiter has no caller. `AutoExitMonitor` is called by one line, with a
method it does not have. The dashboard builds one engine and calls it: its approvals are
presses of Approval and threads of TradingCore; that stopping and starting its engine
thread within the loop's sleep leaves two loops is not modelled. Of the long-lived worker,
that its book of positions is never reloaded is not modelled either: it takes the
composition of point 2 above. The component list in PROJECT.json has the reason for each.
