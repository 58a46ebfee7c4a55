------------------------------ MODULE AutoSell ------------------------------
(***************************************************************************)
(* AutoSellManager, the monitor and the restart reconciliation that drive  *)
(* it (src/main.py), and the GTT orders they keep on the exchange.         *)
(*                                                                         *)
(* Two threads of one engine: an approval buys and then installs the       *)
(* trigger, the monitor polls the exchange, checks prices, exits and moves *)
(* the stop.  The order manager is reduced here to its effect (TradingCore *)
(* has its steps).  A position is one lot; its entry number stands for its *)
(* order id.  The exchange fires a GTT at any moment its price allows.     *)
(***************************************************************************)
EXTENDS Integers, FiniteSets

CONSTANTS
    Symbols,
    Signals,          \* approved signals: [dir, entry, stop, target]
    Prices,           \* market prices
    Priced,           \* symbols with an instrument token in the process
    TrailingPct,      \* trigger.trailing_stop_pct
    UpdateThresholdPct, \* auto_sell.gtt_update_threshold_pct
    GttMaxRetries,    \* auto_sell.gtt_max_retries
    ReloadsTriggers,  \* TRUE in tick_auto_sell (worker), FALSE in run_cycle
    StrategyExits,    \* TRUE: strategies may answer check_exit with an exit
    Overlaps,         \* TRUE: a symbol may be bought while its last trigger is at work
    FailureKinds,     \* what may go wrong, see Fails
    MaxFailures,      \* bound: things that go wrong
    MaxEntries,       \* bound: positions opened
    MaxGtts,          \* bound: GTT orders accepted by the exchange
    MaxCrashes        \* bound: process crashes

Buy == 1
Sell == -1

ASSUME AutoSellAssumption ==
    /\ IsFiniteSet(Symbols) /\ "none" \notin Symbols
    /\ Priced \subseteq Symbols
    /\ Signals \subseteq [dir: {Buy, Sell}, entry: Nat \ {0}, stop: Nat \ {0}, target: Nat \ {0}]
    /\ Prices \subseteq Nat \ {0}
    /\ TrailingPct \in 0..99
    /\ UpdateThresholdPct \in Nat
    /\ GttMaxRetries \in Nat \ {0}
    /\ ReloadsTriggers \in BOOLEAN
    /\ StrategyExits \in BOOLEAN
    /\ Overlaps \in BOOLEAN
    /\ {MaxFailures, MaxEntries, MaxGtts, MaxCrashes} \subseteq Nat

VARIABLES
    up,
    position,      \* Portfolio: entry number of the open position, 0 when none
    side,          \* direction of each entry
    triggers,      \* AutoSellManager._triggers
    approval,      \* the thread in _execute_approved_signal, or the start placing a GTT
    mon,           \* the thread in _monitor_auto_sell_positions
    dbPosition,    \* position_state rows
    dbTriggers,    \* auto_sell_trigger_state rows
    openTrades,    \* entries whose trades row has no exit
    held,          \* net lots at the broker
    gtts,          \* GTT orders on the exchange
    price,         \* last traded price
    aged,          \* entries held for max_hold_minutes
    nextEntry, nextGtt,
    crashes, failures,
    \* History, read by the properties only.
    stray,         \* GTTs a failed call or a crash has cut loose
    abandoned,     \* entries a refused exit or a crash has left unguarded
    unpolled       \* GTTs executed, or taken up by a trigger, since the running
                   \* cycle asked for their status

memVars == <<position, triggers, approval, mon>>
dbVars == <<dbPosition, dbTriggers, openTrades>>
exchangeVars == <<held, gtts, nextGtt>>
worldVars == <<price, aged>>
histVars == <<stray, abandoned>>
entryVars == <<nextEntry, side>>
vars == <<up, memVars, dbVars, exchangeVars, worldVars, entryVars, crashes, failures,
          histVars, unpolled>>

---------------------------------------------------------------------------
(* Records *)

Entries == 1..MaxEntries
GttIds == 1..MaxGtts

NoSignal == [dir |-> Buy, entry |-> 0, stop |-> 0, target |-> 0]

\* Seeded fault of GttGone: an unknown status is kept as it comes.
GoneOrUnknown == {"cancelled", "rejected", "expired", "deleted"}

GttGone == {"cancelled", "rejected", "expired"}
GttStatus == {"pending", "active", "triggered", "cancelled", "rejected", "expired"}

Trigger == [entry: Entries \cup {0}, sig: Signals \cup {NoSignal}, best: Nat, active: BOOLEAN,
            gid: GttIds \cup {0}, gst: GttStatus, gstop: Nat]
NoTrigger == [entry |-> 0, sig |-> NoSignal, best |-> 0, active |-> FALSE,
              gid |-> 0, gst |-> "pending", gstop |-> 0]

Gtt == [st: {"none", "active", "triggered", "deleted"} \cup GttGone, sym: Symbols \cup {"none"},
        entry: Entries \cup {0}, dir: {Buy, Sell}, stop: Nat, target: Nat]
NoGtt == [st |-> "none", sym |-> "none", entry |-> 0, dir |-> Buy, stop |-> 0, target |-> 0]

Approval == [stage: {"idle", "place", "install"}, sym: Symbols \cup {"none"},
             entry: Entries \cup {0}, sig: Signals \cup {NoSignal}, tries: Nat,
             gid: GttIds \cup {0}]
NoApproval == [stage |-> "idle", sym |-> "none", entry |-> 0, sig |-> NoSignal,
               tries |-> 0, gid |-> 0]

MonitorStages == {"idle", "reconcile", "replace", "poll", "exit", "sell", "sold", "cancel",
                  "trail", "modified"}

\* quoted: the symbols the cycle has a price of.
Monitor == [pc: MonitorStages, todo: SUBSET Symbols, sym: Symbols \cup {"none"},
            exits: SUBSET Symbols, quoted: SUBSET Symbols]
Resting == [pc |-> "idle", todo |-> {}, sym |-> "none", exits |-> {}, quoted |-> {}]

TypeOK ==
    /\ up \in BOOLEAN
    /\ position \in [Symbols -> Entries \cup {0}]
    /\ side \in [Entries -> {Buy, Sell}]
    /\ triggers \in [Symbols -> Trigger]
    /\ approval \in Approval
    /\ mon \in Monitor
    /\ dbPosition \in [Symbols -> Entries \cup {0}]
    /\ dbTriggers \in [Symbols -> Trigger]
    /\ openTrades \subseteq Entries
    /\ held \in [Symbols -> Int]
    /\ gtts \in [GttIds -> Gtt]
    /\ price \in [Symbols -> Prices]
    /\ aged \subseteq Entries
    /\ nextEntry \in 1..(MaxEntries + 1)
    /\ nextGtt \in 1..(MaxGtts + 1)
    /\ crashes \in 0..MaxCrashes
    /\ failures \in 0..MaxFailures
    /\ stray \subseteq GttIds
    /\ abandoned \subseteq Entries
    /\ unpolled \subseteq GttIds

---------------------------------------------------------------------------
(* Price levels.  Multiplying by the direction turns every comparison of a *)
(* short position into that of a long one.                                 *)

Better(dir, a, b) == dir * a > dir * b

BestOf(dir, a, b) == IF Better(dir, b, a) THEN b ELSE a

\* A percentage below the highest price, or above the lowest.
TrailingStop(t) == (t.best * (100 - t.sig.dir * TrailingPct)) \div 100

StopHit(t, p) == ~Better(t.sig.dir, p, t.sig.stop)

TargetHit(t, p) == ~Better(t.sig.dir, t.sig.target, p)

\* Only once the price has been better than the entry.
TrailingHit(t, p) ==
    /\ Better(t.sig.dir, t.best, t.sig.entry)
    /\ ~Better(t.sig.dir, p, TrailingStop(t))

\* Seeded fault of Due: the holding time is not looked at.
DueOnPrice(t, p) == StopHit(t, p) \/ TargetHit(t, p) \/ TrailingHit(t, p)

\* check_position: the monitor passes neither volume ratios nor confidences, so
\* the structure-break and confidence conditions are never evaluated.
Due(t, p) == StopHit(t, p) \/ TargetHit(t, p) \/ TrailingHit(t, p) \/ t.entry \in aged

WithPrice(t, p) == [t EXCEPT !.best = BestOf(t.sig.dir, t.best, p)]

\* update_gtt_trailing_stop: better than the stop on the exchange by the
\* threshold.
Improves(t) ==
    /\ \/ Better(t.sig.dir, TrailingStop(t), t.gstop)
       \/ t.gstop = 0
    /\ LET gap == t.sig.dir * (TrailingStop(t) - t.gstop)
       IN  t.gstop > 0 => gap * 100 >= UpdateThresholdPct * t.gstop

ActiveTriggers(trig) == {s \in Symbols : trig[s].active}

\* Something goes wrong.
Fails(kind) ==
    /\ kind \in FailureKinds
    /\ failures < MaxFailures
    /\ failures' = failures + 1

NoFailure == UNCHANGED failures

\* The symbol whose exit the monitor is in the middle of.
Busy(stages) == {s \in Symbols : s = mon.sym /\ mon.pc \in stages}

---------------------------------------------------------------------------
(* The exchange's GTT interface *)

NewGtt(s, e, sig) ==
    /\ nextGtt <= MaxGtts
    /\ gtts' = [gtts EXCEPT ![nextGtt] =
                  [st |-> "active", sym |-> s, entry |-> e, dir |-> sig.dir,
                   stop |-> sig.stop, target |-> sig.target]]
    /\ nextGtt' = nextGtt + 1

\* Seeded faults of GttAnswer: a vanished order counts as executed; an executed
\* one is taken for active.
GoneIsTriggered(g) == IF gtts[g].st \in GttGone THEN "triggered" ELSE gtts[g].st
TriggeredIsActive(g) == IF gtts[g].st = "triggered" THEN "active" ELSE gtts[g].st

\* get_gtt_status.
GttAnswer(g) == gtts[g].st

\* delete_gtt: its FALSE is ignored, and an order that is no longer active
\* cannot be deleted.
DeleteGtt(g) ==
    \/ /\ NoFailure
       /\ gtts' = IF gtts[g].st = "active" THEN [gtts EXCEPT ![g].st = "cancelled"] ELSE gtts
       /\ UNCHANGED stray
    \/ /\ Fails("deleteFailed")
       /\ stray' = stray \cup {g}
       /\ UNCHANGED gtts

\* Seeded fault of Deactivate: the GTT stays on the exchange.
DeactivateKeepsGtt(s) ==
    /\ triggers' = [triggers EXCEPT ![s].active = FALSE]
    /\ dbTriggers' = [dbTriggers EXCEPT ![s].active = FALSE, ![s].best = triggers[s].best]
    /\ NoFailure
    /\ UNCHANGED <<gtts, stray>>

\* AutoSellManager.deactivate of a trigger that exists.
Deactivate(s) ==
    LET t == triggers[s]
        cancels == t.gid # 0 /\ t.gst = "active"
    IN  /\ triggers' = [triggers EXCEPT ![s].active = FALSE,
                                        ![s].gst = IF cancels THEN "cancelled" ELSE @]
        /\ dbTriggers' = [dbTriggers EXCEPT ![s].active = FALSE, ![s].best = t.best]
        /\ IF cancels THEN DeleteGtt(t.gid) ELSE NoFailure /\ UNCHANGED <<gtts, stray>>

---------------------------------------------------------------------------
(* _execute_approved_signal with auto-sell *)

\* The trigger of an earlier position is active or its exit is under way.
AtWork(s) == triggers[s].active \/ s \in mon.exits \/ s = mon.sym

\* OrderManager.execute_signal succeeds.
Approve(s, sig) ==
    /\ up
    /\ mon.pc \notin {"reconcile", "replace"}
    /\ approval.stage = "idle"
    /\ position[s] = 0
    /\ Overlaps \/ ~AtWork(s)
    /\ nextEntry <= MaxEntries
    /\ nextEntry' = nextEntry + 1
    /\ side' = [side EXCEPT ![nextEntry] = sig.dir]
    /\ position' = [position EXCEPT ![s] = nextEntry]
    /\ dbPosition' = [dbPosition EXCEPT ![s] = nextEntry]
    /\ openTrades' = openTrades \cup {nextEntry}
    /\ held' = [held EXCEPT ![s] = @ + sig.dir]
    /\ approval' = [NoApproval EXCEPT !.stage = "place", !.sym = s,
                                      !.entry = nextEntry, !.sig = sig]
    /\ UNCHANGED <<up, triggers, mon, dbTriggers, gtts, nextGtt, worldVars, crashes,
                   failures, histVars>>

Retry == IF approval.tries + 1 < GttMaxRetries
           THEN [approval EXCEPT !.tries = @ + 1]
           ELSE [approval EXCEPT !.stage = "install"]

\* One attempt of _place_gtt_with_retry, for an approval or at start.  An exception
\* after the exchange has accepted the order counts as a failed attempt.
PlaceGtt ==
    /\ approval.stage = "place"
    /\ \/ /\ NoFailure
          /\ NewGtt(approval.sym, approval.entry, approval.sig)
          /\ approval' = [approval EXCEPT !.stage = "install", !.gid = nextGtt]
          /\ UNCHANGED stray
       \/ /\ Fails("placeFailed")
          /\ approval' = Retry
          /\ UNCHANGED <<gtts, nextGtt, stray>>
       \/ /\ Fails("placeLost")
          /\ NewGtt(approval.sym, approval.entry, approval.sig)
          /\ approval' = Retry
          /\ stray' = stray \cup {nextGtt}
    /\ UNCHANGED <<up, position, triggers, mon, dbVars, held, worldVars, entryVars, crashes,
                   abandoned>>

TriggerOf(a) ==
    [entry |-> a.entry, sig |-> a.sig, best |-> a.sig.entry, active |-> TRUE,
     gid |-> a.gid, gst |-> IF a.gid # 0 THEN "active" ELSE "rejected",
     gstop |-> IF a.gid # 0 THEN a.sig.stop ELSE 0]

\* Seeded fault of NewTrigger: an earlier trigger of the symbol is kept.
FirstTrigger(a) == IF triggers[a.sym].entry # 0 THEN triggers[a.sym] ELSE TriggerOf(a)

\* An earlier trigger of the symbol is replaced.
NewTrigger(a) == TriggerOf(a)

\* The rest of create_trigger.
InstallTrigger ==
    LET a == approval
        t == NewTrigger(a)
    IN  /\ a.stage = "install"
        /\ mon.pc # "replace"
        /\ triggers' = [triggers EXCEPT ![a.sym] = t]
        /\ dbTriggers' = [dbTriggers EXCEPT ![a.sym] = t]
        /\ approval' = NoApproval
        /\ UNCHANGED <<up, position, mon, dbPosition, openTrades, exchangeVars, worldVars,
                       entryVars, crashes, failures, histVars>>

---------------------------------------------------------------------------
(* The monitor cycle *)

\* AutoSellManager._load_from_db: active rows only.
Loaded == [s \in Symbols |-> IF dbTriggers[s].active THEN dbTriggers[s] ELSE NoTrigger]

Tick ==
    LET trig == IF ReloadsTriggers THEN Loaded ELSE triggers
        active == ActiveTriggers(trig)
    IN  /\ up
        /\ mon.pc = "idle"
        /\ active # {}
        /\ triggers' = trig
        /\ mon' = [mon EXCEPT !.pc = "poll", !.todo = active]
        /\ UNCHANGED <<up, position, approval, dbVars, exchangeVars, worldVars, entryVars,
                       crashes, failures, histVars>>

\* Seeded fault of GttExit: the trigger ends, the position stays in the book.
GttExitOfTrigger(s) ==
    /\ triggers' = [triggers EXCEPT ![s].active = FALSE, ![s].gst = "triggered"]
    /\ dbTriggers' = [dbTriggers EXCEPT ![s].active = FALSE]
    /\ mon' = Resting
    /\ UNCHANGED <<position, dbPosition>>

\* _handle_gtt_triggered_exit.  With a position the book is closed, then the
\* call of Database.update_trade_exit, which does not exist, raises: the trade
\* row and the trigger row are left as they were.  The cycle ends either way.
GttExit(s) ==
    /\ triggers' = [triggers EXCEPT ![s].active = FALSE, ![s].gst = "triggered"]
    /\ IF position[s] = 0
         THEN /\ dbTriggers' = [dbTriggers EXCEPT ![s].active = FALSE,
                                                  ![s].best = triggers[s].best]
              /\ UNCHANGED <<position, dbPosition>>
         ELSE /\ position' = [position EXCEPT ![s] = 0]
              /\ dbPosition' = [dbPosition EXCEPT ![s] = 0]
              /\ UNCHANGED dbTriggers
    /\ mon' = Resting

\* check_gtt_status on one symbol.  GTTStatus("deleted") is not a member of the
\* enumeration: the ValueError ends the cycle.
PollGtt(s) ==
    LET t == triggers[s]
        next == [mon EXCEPT !.todo = @ \ {s}]
        watched == t.active /\ t.gid # 0 /\ t.gst = "active"
        answer == GttAnswer(t.gid)
    IN  /\ mon.pc = "poll"
        /\ s \in mon.todo
        /\ \/ /\ watched /\ NoFailure
              /\ answer = "triggered"
              /\ GttExit(s)
           \/ /\ watched /\ NoFailure
              /\ answer \in GttGone
              /\ triggers' = [triggers EXCEPT ![s].gst = answer]
              /\ mon' = next
              /\ UNCHANGED <<position, dbPosition, dbTriggers>>
           \/ /\ watched /\ NoFailure
              /\ answer = "deleted"
              /\ mon' = Resting
              /\ UNCHANGED <<position, triggers, dbPosition, dbTriggers>>
           \/ /\ \/ ~watched /\ NoFailure
                 \/ watched /\ answer = "active" /\ NoFailure
                 \/ watched /\ Fails("statusError")
              /\ mon' = next
              /\ UNCHANGED <<position, triggers, dbPosition, dbTriggers>>
        /\ UNCHANGED <<up, approval, openTrades, exchangeVars, worldVars, entryVars, crashes,
                       histVars>>

\* Seeded fault of Persisted: the tracked prices are not saved.
PersistedFlags(active, after) ==
    [s \in Symbols |-> IF s \in active
                          THEN [dbTriggers[s] EXCEPT !.active = after[s].active]
                          ELSE dbTriggers[s]]

\* update_auto_sell_trigger_prices for every trigger the cycle looked at.
Persisted(active, after) ==
    [s \in Symbols |-> IF s \in active
                          THEN [dbTriggers[s] EXCEPT !.best = after[s].best,
                                                     !.active = after[s].active]
                          ELSE dbTriggers[s]]

\* The prices of the cycle, and check_all on them: triggers that are due are
\* deactivated, row included, before anything is sold; the tracked prices of
\* the others are persisted.
CheckAll ==
    LET active == ActiveTriggers(triggers)
    IN  /\ mon.pc = "poll"
        /\ mon.todo = {}
        /\ \E quoted \in SUBSET (active \cap Priced) :
             LET seen == [s \in Symbols |-> IF s \in quoted
                                              THEN WithPrice(triggers[s], price[s])
                                              ELSE triggers[s]]
                 due == {s \in quoted : Due(seen[s], price[s])}
                 after == [s \in Symbols |-> [seen[s] EXCEPT !.active = @ /\ s \notin due]]
             IN  /\ IF quoted = active \cap Priced THEN NoFailure ELSE Fails("quoteFailed")
                 /\ IF quoted = {}
                      THEN /\ mon' = Resting
                           /\ UNCHANGED <<triggers, dbTriggers>>
                      ELSE /\ triggers' = after
                           /\ dbTriggers' = Persisted(active, after)
                           /\ mon' = [mon EXCEPT !.pc = "exit", !.exits = due,
                                                   !.quoted = quoted]
        /\ UNCHANGED <<up, position, approval, dbPosition, openTrades, exchangeVars, worldVars,
                       entryVars, crashes, histVars>>

\* _execute_auto_sell_exit on the next symbol: with no position its trigger is
\* deactivated, otherwise an exit order is sent.
BeginExit(s) ==
    /\ mon.pc = "exit"
    /\ s \in mon.exits
    /\ IF position[s] = 0
         THEN /\ Deactivate(s)
              /\ mon' = [mon EXCEPT !.exits = @ \ {s}]
         ELSE /\ mon' = [mon EXCEPT !.pc = "sell", !.sym = s, !.exits = @ \ {s}]
              /\ NoFailure
              /\ UNCHANGED <<triggers, dbTriggers, gtts, stray>>
    /\ UNCHANGED <<up, position, approval, dbPosition, openTrades, held, nextGtt, worldVars,
                   entryVars, crashes, abandoned>>

SellFilled ==
    /\ mon.pc = "sell"
    /\ held' = [held EXCEPT ![mon.sym] = @ - side[position[mon.sym]]]
    /\ mon' = [mon EXCEPT !.pc = "sold"]
    /\ UNCHANGED <<up, position, triggers, approval, dbVars, gtts, nextGtt, worldVars,
                   entryVars, crashes, failures, histVars>>

\* The user is alerted; the trigger stays deactivated.
SellRefused ==
    /\ mon.pc = "sell"
    /\ Fails("exitRefused")
    /\ mon' = [mon EXCEPT !.pc = "exit", !.sym = "none"]
    /\ abandoned' = abandoned \cup {position[mon.sym]}
    /\ UNCHANGED <<up, position, triggers, approval, dbVars, exchangeVars, worldVars,
                   entryVars, crashes, stray>>

\* The rest of OrderManager.close_position.
BookSale ==
    LET s == mon.sym
    IN  /\ mon.pc = "sold"
        /\ position' = [position EXCEPT ![s] = 0]
        /\ dbPosition' = [dbPosition EXCEPT ![s] = 0]
        /\ openTrades' = openTrades \ {position[s]}
        /\ mon' = [mon EXCEPT !.pc = "cancel"]
        /\ UNCHANGED <<up, triggers, approval, dbTriggers, exchangeVars, worldVars, entryVars,
                       crashes, failures, histVars>>

CancelGtt ==
    /\ mon.pc = "cancel"
    /\ Deactivate(mon.sym)
    /\ mon' = [mon EXCEPT !.pc = "exit", !.sym = "none"]
    /\ UNCHANGED <<up, position, approval, dbPosition, openTrades, held, nextGtt, worldVars,
                   entryVars, crashes, abandoned>>

BeginTrailing ==
    /\ mon.pc = "exit"
    /\ mon.exits = {}
    /\ mon' = [mon EXCEPT !.pc = "trail", !.todo = ActiveTriggers(triggers) \cap mon.quoted]
    /\ UNCHANGED <<up, position, triggers, approval, dbVars, exchangeVars, worldVars, entryVars,
                   crashes, failures, histVars>>

\* One symbol of the trailing update: left alone (no improvement, or the
\* cooldown since the last one), modified on the exchange, or refused by it.
TrailStop(s) ==
    LET t == triggers[s]
        may == /\ position[s] # 0
               /\ t.active
               /\ t.gid # 0
               /\ t.gst = "active"
               /\ Improves(t)
        next == [mon EXCEPT !.todo = @ \ {s}]
    IN  /\ mon.pc = "trail"
        /\ s \in mon.todo
        /\ \/ /\ NoFailure
              /\ mon' = next
              /\ UNCHANGED gtts
           \/ /\ NoFailure
              /\ may
              /\ gtts[t.gid].st = "active"
              /\ gtts' = [gtts EXCEPT ![t.gid].stop = TrailingStop(t)]
              /\ mon' = [next EXCEPT !.pc = "modified", !.sym = s]
        /\ UNCHANGED <<up, position, triggers, approval, dbVars, held, nextGtt, worldVars,
                       entryVars, crashes, histVars>>

\* The broker answered: the new stop is remembered and the whole row saved.
SaveStop ==
    LET s == mon.sym
        t == [triggers[s] EXCEPT !.gstop = TrailingStop(triggers[s])]
    IN  /\ mon.pc = "modified"
        /\ triggers' = [triggers EXCEPT ![s] = t]
        /\ dbTriggers' = [dbTriggers EXCEPT ![s] = t]
        /\ mon' = [mon EXCEPT !.pc = "trail", !.sym = "none"]
        /\ UNCHANGED <<up, position, approval, dbPosition, openTrades, exchangeVars, worldVars,
                       entryVars, crashes, failures, histVars>>

EndCycle ==
    /\ mon.pc = "trail"
    /\ mon.todo = {}
    /\ mon' = Resting
    /\ UNCHANGED <<up, position, triggers, approval, dbVars, exchangeVars, worldVars, entryVars,
                   crashes, failures, histVars>>

\* _check_exits, later in run_cycle: a position without an active trigger is
\* taken for one the user manages, and its strategy may close it.
StrategyExit(s) ==
    LET e == position[s]
    IN  /\ StrategyExits
        /\ ~ReloadsTriggers
        /\ up
        /\ mon.pc = "idle"
        /\ e # 0
        /\ ~triggers[s].active
        /\ held' = [held EXCEPT ![s] = @ - side[e]]
        /\ position' = [position EXCEPT ![s] = 0]
        /\ dbPosition' = [dbPosition EXCEPT ![s] = 0]
        /\ openTrades' = openTrades \ {e}
        /\ UNCHANGED <<up, triggers, approval, mon, dbTriggers, gtts, nextGtt, worldVars,
                       entryVars, crashes, failures, histVars>>

---------------------------------------------------------------------------
(* Crash and restart *)

Crash ==
    /\ up
    /\ crashes < MaxCrashes
    /\ crashes' = crashes + 1
    /\ up' = FALSE
    /\ position' = [s \in Symbols |-> 0]
    /\ triggers' = [s \in Symbols |-> NoTrigger]
    /\ approval' = NoApproval
    /\ mon' = Resting
    /\ abandoned' = abandoned \cup
          (((IF mon.pc = "replace" THEN {} ELSE {approval.entry})
              \cup {position[s] : s \in mon.exits \cup Busy({"sell", "sold"})}) \ {0})
    /\ stray' = stray \cup
          (({approval.gid} \cup {triggers[s].gid : s \in Busy({"cancel"})}) \ {0})
    /\ UNCHANGED <<dbVars, exchangeVars, worldVars, entryVars, failures>>

Start ==
    /\ ~up
    /\ up' = TRUE
    /\ position' = dbPosition
    /\ triggers' = Loaded
    /\ mon' = [Resting EXCEPT !.pc = "reconcile", !.todo = ActiveTriggers(Loaded)]
    /\ UNCHANGED <<approval, dbVars, exchangeVars, worldVars, entryVars, crashes, failures,
                   histVars>>

\* Seeded fault of Standing: only an executed order is recognised.
OnlyTriggered == {"triggered"}

\* The answers that let reconcile_on_startup keep the GTT.
Standing == {"active", "triggered"}

\* reconcile_on_startup for one trigger.  An answer that is neither active nor
\* triggered counts as the loss of the GTT: its id is dropped, in memory only.
Reconcile(s) ==
    LET t == triggers[s]
        answer == GttAnswer(t.gid)
        Lost(st) == triggers' = [triggers EXCEPT ![s].gid = 0, ![s].gst = st]
    IN  /\ mon.pc = "reconcile"
        /\ s \in mon.todo
        /\ mon' = [mon EXCEPT !.todo = @ \ {s}]
        /\ \/ /\ t.gid = 0
              /\ NoFailure
              /\ UNCHANGED <<triggers, stray>>
           \/ /\ t.gid # 0 /\ answer \in Standing
              /\ triggers' = [triggers EXCEPT ![s].gst = answer]
              /\ NoFailure
              /\ UNCHANGED stray
           \/ /\ t.gid # 0 /\ answer \notin Standing
              /\ Lost(IF answer \in GttGone THEN answer ELSE "expired")
              /\ NoFailure
              /\ UNCHANGED stray
           \/ /\ t.gid # 0 /\ Fails("statusError")   \* a failed request, too
              /\ Lost("expired")
              /\ stray' = stray \cup {t.gid}
        /\ UNCHANGED <<up, position, approval, dbVars, exchangeVars, worldVars, entryVars,
                       crashes, abandoned>>

EndReconcile ==
    /\ mon.pc = "reconcile"
    /\ mon.todo = {}
    /\ mon' = [mon EXCEPT !.pc = "replace",
                         !.todo = {s \in ActiveTriggers(triggers) : triggers[s].gid = 0}]
    /\ UNCHANGED <<up, position, triggers, approval, dbVars, exchangeVars, worldVars, entryVars,
                   crashes, failures, histVars>>

\* _reconcile_gtt_on_startup on the next unprotected trigger: PlaceGtt is its turn, unless
\* there is no position or no last price.
Replace(s) ==
    /\ mon.pc = "replace"
    /\ approval.stage = "idle"
    /\ s \in mon.todo
    /\ mon' = [mon EXCEPT !.todo = @ \ {s}]
    /\ \/ /\ position[s] # 0
          /\ NoFailure
          /\ approval' = [NoApproval EXCEPT !.stage = "place", !.sym = s, !.entry = position[s],
                                           !.sig = triggers[s].sig]
       \/ /\ IF position[s] = 0 THEN NoFailure ELSE Fails("quoteFailed")
          /\ UNCHANGED approval
    /\ UNCHANGED <<up, position, triggers, dbVars, exchangeVars, worldVars, entryVars, crashes,
                   histVars>>

\* Its placement succeeded, then the trigger gets the order and its row is saved, or it
\* failed for good.
KeepReplacement ==
    LET s == approval.sym
        placed == [triggers[s] EXCEPT !.gid = approval.gid, !.gst = "active",
                                     !.gstop = triggers[s].sig.stop]
    IN  /\ mon.pc = "replace"
        /\ approval.stage = "install"
        /\ IF approval.gid # 0
             THEN /\ triggers' = [triggers EXCEPT ![s] = placed]
                  /\ dbTriggers' = [dbTriggers EXCEPT ![s] = placed]
             ELSE UNCHANGED <<triggers, dbTriggers>>
        /\ approval' = NoApproval
        /\ UNCHANGED <<up, position, mon, dbPosition, openTrades, exchangeVars, worldVars,
                       entryVars, crashes, failures, histVars>>

EndReplace ==
    /\ mon.pc = "replace"
    /\ approval.stage = "idle"
    /\ mon.todo = {}
    /\ mon' = Resting
    /\ UNCHANGED <<up, position, triggers, approval, dbVars, exchangeVars, worldVars, entryVars,
                   crashes, failures, histVars>>

---------------------------------------------------------------------------
(* The market and the exchange *)

MarketMoves(s, p) ==
    /\ p # price[s]
    /\ price' = [price EXCEPT ![s] = p]
    /\ UNCHANGED <<up, memVars, dbVars, exchangeVars, aged, entryVars, crashes, failures,
                   histVars>>

\* Only the time of a trigger at work matters.
HoldTimeElapses(e) ==
    /\ \E s \in Symbols : triggers[s].active /\ triggers[s].entry = e
    /\ e \notin aged
    /\ aged' = aged \cup {e}
    /\ UNCHANGED <<up, memVars, dbVars, exchangeVars, price, entryVars, crashes, failures,
                   histVars>>

GttFires(g) ==
    LET o == gtts[g]
    IN  /\ o.st = "active"
        /\ \/ ~Better(o.dir, price[o.sym], o.stop)
           \/ ~Better(o.dir, o.target, price[o.sym])
        /\ gtts' = [gtts EXCEPT ![g].st = "triggered"]
        /\ held' = [held EXCEPT ![o.sym] = @ - o.dir]
        /\ UNCHANGED <<up, memVars, dbVars, nextGtt, worldVars, entryVars, crashes, failures,
                       histVars>>

\* The exchange drops an order, or the user deletes it in the broker's app.
GttLost(g, st) ==
    /\ gtts[g].st = "active"
    /\ Fails(st)
    /\ gtts' = [gtts EXCEPT ![g].st = st]
    /\ UNCHANGED <<up, memVars, dbVars, held, nextGtt, worldVars, entryVars, crashes, histVars>>

---------------------------------------------------------------------------

Init ==
    /\ up = TRUE
    /\ position = [s \in Symbols |-> 0]
    /\ side = [e \in Entries |-> Buy]
    /\ triggers = [s \in Symbols |-> NoTrigger]
    /\ approval = NoApproval
    /\ mon = Resting
    /\ dbPosition = [s \in Symbols |-> 0]
    /\ dbTriggers = [s \in Symbols |-> NoTrigger]
    /\ openTrades = {}
    /\ held = [s \in Symbols |-> 0]
    /\ gtts = [g \in GttIds |-> NoGtt]
    /\ price \in [Symbols -> Prices]
    /\ aged = {}
    /\ nextEntry = 1
    /\ nextGtt = 1
    /\ crashes = 0
    /\ failures = 0
    /\ stray = {}
    /\ abandoned = {}
    /\ unpolled = {}

\* The history of a step: orders it executes, orders a new trigger takes up, and
\* orders whose status it asks for.
Track ==
    LET executed == {g \in GttIds : gtts[g].st # "triggered" /\ gtts'[g].st = "triggered"}
        taken == IF approval.stage = "install" /\ approval'.stage = "idle"
                   THEN {approval.gid} \ {0} ELSE {}
        asked == IF mon.pc = "poll" THEN {triggers[s].gid : s \in mon.todo \ mon'.todo} \ {0}
                                    ELSE {}
    IN  unpolled' = IF mon'.pc = "idle" THEN {}
                    ELSE IF failures' # failures THEN unpolled \cup asked
                    ELSE (unpolled \ asked) \cup executed \cup taken

ApprovalStep == PlaceGtt \/ InstallTrigger

MonitorStep ==
    \/ Tick
    \/ \E s \in Symbols : PollGtt(s)
    \/ CheckAll
    \/ \E s \in Symbols : BeginExit(s)
    \/ SellFilled
    \/ SellRefused
    \/ BookSale
    \/ CancelGtt
    \/ BeginTrailing
    \/ \E s \in Symbols : TrailStop(s)
    \/ SaveStop
    \/ EndCycle
    \/ \E s \in Symbols : Reconcile(s)
    \/ EndReconcile
    \/ \E s \in Symbols : Replace(s)
    \/ KeepReplacement
    \/ EndReplace

WorldStep ==
    \/ \E s \in Symbols, p \in Prices : MarketMoves(s, p)
    \/ \E e \in Entries : HoldTimeElapses(e)
    \/ \E g \in GttIds : GttFires(g)
    \/ \E g \in GttIds, st \in GttGone \cup {"deleted"} : GttLost(g, st)

Next ==
    /\ \/ \E s \in Symbols, sig \in Signals : Approve(s, sig)
       \/ ApprovalStep
       \/ MonitorStep
       \/ \E s \in Symbols : StrategyExit(s)
       \/ Crash
       \/ Start
       \/ WorldStep
    /\ Track

Spec == Init /\ [][Next]_vars

\* The scheduler runs the cycle every interval and the worker every 60 seconds,
\* whatever the last one ended with, and the thread of an approval runs on.
FairSpec == Spec /\ WF_vars(MonitorStep /\ Track) /\ WF_vars(ApprovalStep /\ Track)

=============================================================================
