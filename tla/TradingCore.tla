---------------------------- MODULE TradingCore ----------------------------
(***************************************************************************)
(* One trading engine: OrderManager, Portfolio, KillSwitch, the rows they  *)
(* keep in the database, and the broker they trade through.                *)
(*                                                                         *)
(* A call of OrderManager.execute_signal or close_position is a sequence   *)
(* of steps; the engine takes no lock, so calls made by different threads  *)
(* (the Telegram poller, the dashboard, the scan loop) interleave between  *)
(* any two steps, and the process may crash there.                         *)
(***************************************************************************)
EXTENDS RiskRules, FiniteSets, FiniteSetsExt

CONSTANTS
    Symbols,      \* what can be traded
    Threads,      \* threads that call the order manager
    Offers,       \* signals' price levels: [dir, entry, stop]
    Slips,        \* fill price of an entry minus the price of the order
    ExitPrices,   \* fill prices of exit orders
    MaxUnconfirmed, \* bound: orders reported failed though accepted; 0 with PaperBroker
    MaxOrders,    \* bound: entry orders filled
    MaxDay,       \* bound: trading days
    MaxCrashes,   \* bound: process crashes
    MaxFaults     \* bound: database writes that fail

ASSUME CoreAssumption ==
    /\ IsFiniteSet(Symbols)
    /\ IsFiniteSet(Threads)
    /\ Threads # {}
    /\ Offers \subseteq [dir: Directions, entry: Nat \ {0}, stop: Nat]
    /\ Slips \subseteq Int
    /\ \A o \in Offers, d \in Slips : o.entry + d > 0
    /\ ExitPrices \subseteq Nat \ {0}
    /\ {MaxUnconfirmed, MaxOrders, MaxDay, MaxCrashes, MaxFaults} \subseteq Nat
    /\ MaxDay > 0

NoSymbol == "none"
ASSUME NoSymbolAssumption == NoSymbol \notin Symbols

VARIABLES
    up,            \* the process runs
    positions,     \* Portfolio._positions
    pnlToday,      \* Portfolio._realized_pnl_today
    currentDate,   \* Portfolio._current_date
    tripped,       \* KillSwitch: day it was triggered for, 0 when not
    call,          \* the order manager call each thread is in
    dbPositions,   \* position_state rows
    dbCounters,    \* app_state["portfolio_counters"]
    dbTripped,     \* app_state["kill_switch"]
    trades,        \* trades rows by entry order id
    holding,       \* net shares held at the broker
    resting,       \* orders the exchange has, reported as failed to the engine
    nextOrder,     \* next order id
    today,         \* date.today()
    crashes, faults, unconfirmed,
    \* History, read by the properties only.
    bookedPnl,     \* P&L of the exit fills of the day, as the broker has it
    torn,          \* symbols whose record a crash, a fault or an
                   \* unconfirmed order may have separated from the broker
    tornTrades,    \* order ids whose trade row they may have left behind
    pnlTorn,       \* TRUE when they may have changed the day's P&L unseen
    closed,        \* order ids of positions a finished call has closed
    unrecorded     \* order ids whose trade row a crash kept from being written

memVars == <<positions, pnlToday, currentDate, tripped>>
dbVars == <<dbPositions, dbCounters, dbTripped, trades>>
brokerVars == <<holding, resting, nextOrder, unconfirmed>>
histVars == <<bookedPnl, torn, tornTrades, pnlTorn, closed, unrecorded>>
envVars == <<today, crashes, faults, up>>
vars == <<memVars, call, dbVars, brokerVars, histVars, envVars>>

---------------------------------------------------------------------------
(* Records *)

Days == 1..MaxDay
OrderIds == 1..MaxOrders

Position == [dir: Directions, qty: Nat, entry: Int, order: OrderIds \cup {0}]
NoPosition == [dir |-> Buy, qty |-> 0, entry |-> 0, order |-> 0]

Stages == {"idle", "send", "filled", "tracked",
           "exitSend", "exitFilled", "popped", "counted"}

\* pos: the position being opened, or the snapshot the closing call took.
Call == [stage: Stages, sym: Symbols \cup {NoSymbol}, pos: Position,
         price: Nat, pnl: Int]
Idle == [stage |-> "idle", sym |-> NoSymbol, pos |-> NoPosition,
         price |-> 0, pnl |-> 0]

NoTrade == [st |-> "none", pnl |-> 0, day |-> 0]
Trade == [st: {"none", "open", "closed"}, pnl: Int, day: Nat]

NoCounters == [pnl |-> 0, day |-> 0]

RestingOrder == [sym: Symbols, delta: Int, id: Nat]

ShapeOK ==
    /\ up \in BOOLEAN
    /\ positions \in [Symbols -> Position]
    /\ currentDate \in Days
    /\ tripped \in Days \cup {0}
    /\ call \in [Threads -> Call]
    /\ dbPositions \in [Symbols -> Position]
    /\ dbTripped \in Days \cup {0}
    /\ trades \in [OrderIds -> Trade]
    /\ holding \in [Symbols -> Int]
    /\ resting \subseteq RestingOrder
    /\ nextOrder \in 1..(MaxOrders + 1)
    /\ today \in Days
    /\ crashes \in Nat
    /\ faults \in Nat
    /\ unconfirmed \in Nat
    /\ bookedPnl \in Int
    /\ torn \subseteq Symbols
    /\ tornTrades \subseteq OrderIds \cup {0}
    /\ pnlTorn \in BOOLEAN
    /\ closed \subseteq OrderIds \cup {0}
    /\ unrecorded \subseteq OrderIds \cup {0}

TypeOK ==
    /\ ShapeOK
    /\ pnlToday \in Int
    /\ dbCounters \in [pnl: Int, day: Days \cup {0}]

---------------------------------------------------------------------------
(* What the portfolio and the kill switch answer *)

Held(book) == {s \in Symbols : book[s] # NoPosition}

HasPosition(s) == positions[s] # NoPosition

CapitalIn(book) ==
    SumFunctionOnSet([s \in Symbols |-> book[s].entry * book[s].qty], Held(book))

DeployedCapital == CapitalIn(positions)

\* Reading the day's P&L rolls it over first (Portfolio._check_day_reset).
RolledPnl == IF today = currentDate THEN pnlToday ELSE 0

KillActive == tripped = today

LossBreached == RolledPnl <= -MaxDailyLoss

\* Every Database method swallows its exception: a write is either done or
\* silently skipped.  The writes of one step share their fate.
WriteOutcomes == IF faults < MaxFaults THEN BOOLEAN ELSE {TRUE}

CountFault(ok) == faults' = IF ok THEN faults ELSE faults + 1

DayReset(ok) ==
    /\ pnlToday' = RolledPnl
    /\ currentDate' = today
    /\ dbCounters' = IF ok /\ today # currentDate THEN [pnl |-> 0, day |-> today]
                                                  ELSE dbCounters

\* Fault seeded for TLC: no early return when the switch is already on.
KillCheckRecomputes(ok) ==
    /\ DayReset(ok)
    /\ tripped' = IF LossBreached THEN today ELSE 0
    /\ dbTripped' = IF ok THEN tripped' ELSE dbTripped

\* Fault seeded for TLC: a trip by loss is not persisted.
KillCheckUnsaved(ok) ==
    IF KillActive
        THEN UNCHANGED <<pnlToday, currentDate, dbCounters, tripped, dbTripped>>
        ELSE /\ DayReset(ok)
             /\ tripped' = IF LossBreached THEN today ELSE 0
             /\ dbTripped' = IF ok /\ ~LossBreached THEN 0 ELSE dbTripped

\* Fault seeded for TLC: the switch is set for the day after.
KillCheckWrongDay(ok) ==
    /\ DayReset(ok)
    /\ tripped' = IF LossBreached THEN today + 1 ELSE 0
    /\ dbTripped' = IF ok THEN tripped' ELSE dbTripped

\* KillSwitch.check: a switch left from an earlier day is cleared, then the
\* day's P&L decides.
KillCheck(ok) ==
    IF KillActive
        THEN UNCHANGED <<pnlToday, currentDate, dbCounters, tripped, dbTripped>>
        ELSE /\ DayReset(ok)
             /\ tripped' = IF LossBreached THEN today ELSE 0
             /\ dbTripped' = IF ok /\ (LossBreached \/ tripped # 0) THEN tripped'
                                                                    ELSE dbTripped

---------------------------------------------------------------------------
(* OrderManager.execute_signal *)

Accepts(s, o) ==
    LET qty == CalculatePositionSize(o.entry, o.stop)
    IN  /\ ~KillActive
        /\ ~LossBreached
        /\ ~HasPosition(s)
        /\ qty > 0
        /\ ValidateOrder(qty, o.entry, DeployedCapital, RolledPnl,
                         Cardinality(Held(positions)))

\* Kill switch, duplicate check, sizing and guardrails, up to the broker call.
ExecuteSignal(t, s, o) ==
    /\ up
    /\ call[t].stage = "idle"
    /\ \E ok \in WriteOutcomes : KillCheck(ok) /\ CountFault(ok)
    /\ call' = IF Accepts(s, o)
                 THEN [call EXCEPT ![t] =
                         [Idle EXCEPT !.stage = "send", !.sym = s,
                            !.pos = [dir |-> o.dir, entry |-> o.entry, order |-> 0,
                                     qty |-> CalculatePositionSize(o.entry, o.stop)]]]
                 ELSE call
    /\ UNCHANGED <<up, positions, dbPositions, trades, brokerVars, histVars, today, crashes>>

\* The order fills, possibly away from the expected price.
EntryFilled(t, d) ==
    LET c == call[t]
    IN  /\ c.stage = "send"
        /\ nextOrder <= MaxOrders
        /\ call' = [call EXCEPT ![t].stage = "filled",
                                ![t].pos.entry = c.pos.entry + d,
                                ![t].pos.order = nextOrder]
        /\ holding' = [holding EXCEPT ![c.sym] = @ + c.pos.dir * c.pos.qty]
        /\ nextOrder' = nextOrder + 1
        /\ UNCHANGED <<resting, unconfirmed, memVars, dbVars, histVars, envVars>>

\* Rejected, or no last traded price in paper mode: the call returns a failed
\* result and nothing is tracked.
EntryRefused(t) ==
    /\ call[t].stage = "send"
    /\ call' = [call EXCEPT ![t] = Idle]
    /\ UNCHANGED <<memVars, dbVars, brokerVars, histVars, envVars>>

\* LiveBroker.place_order reports failure although the exchange took the
\* order: it is not COMPLETE yet, or order_history raised.
Unconfirmed(t, stage, delta) ==
    LET o == [sym |-> call[t].sym, delta |-> delta, id |-> unconfirmed + 1]
    IN  /\ call[t].stage = stage
        /\ unconfirmed < MaxUnconfirmed
        /\ unconfirmed' = unconfirmed + 1
        /\ resting' = resting \cup {o}
        /\ torn' = torn \cup {call[t].sym}
        /\ call' = [call EXCEPT ![t] = Idle]
        /\ UNCHANGED <<holding, nextOrder, memVars, dbVars, bookedPnl, tornTrades,
                       closed, unrecorded, envVars>>

EntryUnconfirmed(t) ==
    /\ Unconfirmed(t, "send", call[t].pos.dir * call[t].pos.qty)
    /\ UNCHANGED pnlTorn

\* Fault seeded for TLC: the position is not persisted.
AddPositionUnsaved(t) ==
    /\ call[t].stage = "filled"
    /\ positions' = IF HasPosition(call[t].sym) THEN positions
                      ELSE [positions EXCEPT ![call[t].sym] = call[t].pos]
    /\ call' = [call EXCEPT ![t].stage = "tracked"]
    /\ UNCHANGED <<pnlToday, currentDate, tripped, dbVars, brokerVars, histVars, envVars>>

\* Fault seeded for TLC: a second fill of the symbol replaces the first.
AddPositionReplaces(t) ==
    LET c == call[t]
    IN  /\ c.stage = "filled"
        /\ positions' = [positions EXCEPT ![c.sym] = c.pos]
        /\ dbPositions' = [dbPositions EXCEPT ![c.sym] = c.pos]
        /\ call' = [call EXCEPT ![t].stage = "tracked"]
        /\ UNCHANGED <<pnlToday, currentDate, tripped, dbCounters, dbTripped, trades,
                       brokerVars, histVars, envVars>>

\* Portfolio.add_position: a symbol already held is refused with a warning.
AddPosition(t) ==
    LET c == call[t]
    IN  /\ c.stage = "filled"
        /\ IF HasPosition(c.sym)
             THEN UNCHANGED <<positions, dbPositions, faults>>
             ELSE /\ positions' = [positions EXCEPT ![c.sym] = c.pos]
                  /\ \E ok \in WriteOutcomes :
                        /\ dbPositions' = IF ok THEN [dbPositions EXCEPT ![c.sym] = c.pos]
                                                ELSE dbPositions
                        /\ CountFault(ok)
        /\ call' = [call EXCEPT ![t].stage = "tracked"]
        /\ UNCHANGED <<pnlToday, currentDate, tripped, dbCounters, dbTripped, trades,
                       brokerVars, histVars, up, today, crashes>>

\* OrderManager._persist_trade, then the call returns.
PersistTrade(t) ==
    LET c == call[t]
    IN  /\ c.stage = "tracked"
        /\ \E ok \in WriteOutcomes :
              /\ trades' = IF ok THEN [trades EXCEPT ![c.pos.order].st = "open"] ELSE trades
              /\ tornTrades' = IF ok THEN tornTrades ELSE tornTrades \cup {c.pos.order}
              /\ CountFault(ok)
        /\ call' = [call EXCEPT ![t] = Idle]
        /\ UNCHANGED <<memVars, dbPositions, dbCounters, dbTripped, brokerVars,
                       bookedPnl, torn, pnlTorn, closed, unrecorded, up, today, crashes>>

---------------------------------------------------------------------------
(* OrderManager.close_position *)

ClosePosition(t, s) ==
    /\ up
    /\ call[t].stage = "idle"
    /\ HasPosition(s)
    /\ call' = [call EXCEPT ![t] = [Idle EXCEPT !.stage = "exitSend", !.sym = s,
                                                !.pos = positions[s]]]
    /\ UNCHANGED <<memVars, dbVars, brokerVars, histVars, envVars>>

ExitFilled(t, x) ==
    LET c == call[t]
        pnl == RealizedPnl(c.pos.dir, c.pos.qty, c.pos.entry, x)
    IN  /\ c.stage = "exitSend"
        /\ call' = [call EXCEPT ![t].stage = "exitFilled", ![t].price = x, ![t].pnl = pnl]
        /\ holding' = [holding EXCEPT ![c.sym] = @ - c.pos.dir * c.pos.qty]
        /\ bookedPnl' = bookedPnl + pnl
        /\ UNCHANGED <<resting, nextOrder, unconfirmed, memVars, dbVars, torn, tornTrades, pnlTorn,
                       closed, unrecorded, envVars>>

ExitRefused(t) ==
    /\ call[t].stage = "exitSend"
    /\ call' = [call EXCEPT ![t] = Idle]
    /\ UNCHANGED <<memVars, dbVars, brokerVars, histVars, envVars>>

ExitUnconfirmed(t) ==
    /\ Unconfirmed(t, "exitSend", -call[t].pos.dir * call[t].pos.qty)
    /\ pnlTorn' = TRUE

\* Portfolio.close_position up to remove_position.  A symbol another call has
\* already closed books nothing; otherwise the P&L is that of the position
\* found now.
BookExit(t) ==
    LET c == call[t]
        found == positions[c.sym]
        pnl == RealizedPnl(found.dir, found.qty, found.entry, c.price)
    IN  /\ c.stage = "exitFilled"
        /\ \E ok \in WriteOutcomes :
              /\ CountFault(ok)
              /\ IF HasPosition(c.sym)
                   THEN /\ positions' = [positions EXCEPT ![c.sym] = NoPosition]
                        /\ pnlToday' = RolledPnl + pnl
                        /\ currentDate' = today
                        /\ dbCounters' = IF ok /\ today # currentDate
                                           THEN [pnl |-> 0, day |-> today] ELSE dbCounters
                        /\ dbPositions' = IF ok THEN [dbPositions EXCEPT ![c.sym] = NoPosition]
                                                ELSE dbPositions
                        /\ call' = [call EXCEPT ![t].stage = "popped", ![t].pnl = pnl]
                   ELSE /\ DayReset(ok)
                        /\ call' = [call EXCEPT ![t].stage = "counted", ![t].pnl = 0]
                        /\ UNCHANGED <<positions, dbPositions>>
        /\ UNCHANGED <<tripped, dbTripped, trades, brokerVars, histVars, up, today, crashes>>

\* Fault seeded for TLC: the counters are not saved after an exit.
SaveCountersSkipped(t) ==
    /\ call[t].stage = "popped"
    /\ call' = [call EXCEPT ![t].stage = "counted"]
    /\ UNCHANGED <<memVars, dbVars, brokerVars, histVars, envVars>>

\* Portfolio._save_counters.
SaveCounters(t) ==
    /\ call[t].stage = "popped"
    /\ \E ok \in WriteOutcomes :
          /\ dbCounters' = IF ok THEN [pnl |-> pnlToday, day |-> currentDate] ELSE dbCounters
          /\ CountFault(ok)
    /\ call' = [call EXCEPT ![t].stage = "counted"]
    /\ UNCHANGED <<memVars, dbPositions, dbTripped, trades, brokerVars, histVars,
                   up, today, crashes>>

\* OrderManager._update_trade_exit (a missing row is skipped), the kill switch
\* re-check, and the call returns.
UpdateTradeExit(t) ==
    LET c == call[t]
        id == c.pos.order
    IN  /\ c.stage = "counted"
        /\ \E ok \in WriteOutcomes :
              /\ trades' = IF ok /\ id # 0 /\ trades[id].st # "none"
                             THEN [trades EXCEPT ![id] = [st |-> "closed", pnl |-> c.pnl,
                                                          day |-> today]]
                             ELSE trades
              /\ tornTrades' = IF ok THEN tornTrades ELSE tornTrades \cup {id}
              /\ KillCheck(ok)
              /\ CountFault(ok)
        /\ closed' = closed \cup {id}
        /\ call' = [call EXCEPT ![t] = Idle]
        /\ UNCHANGED <<positions, dbPositions, brokerVars, bookedPnl, torn, pnlTorn,
                       unrecorded, up, today, crashes>>

---------------------------------------------------------------------------
(* Kill switch operations of an operator *)

ForceTrigger ==
    /\ up
    /\ tripped' = today
    /\ \E ok \in WriteOutcomes :
          /\ dbTripped' = IF ok THEN today ELSE dbTripped
          /\ CountFault(ok)
    /\ UNCHANGED <<positions, pnlToday, currentDate, call, dbPositions, dbCounters, trades,
                   brokerVars, histVars, up, today, crashes>>

ResetSwitch ==
    /\ up
    /\ tripped' = 0
    /\ \E ok \in WriteOutcomes :
          /\ dbTripped' = IF ok THEN 0 ELSE dbTripped
          /\ CountFault(ok)
    /\ UNCHANGED <<positions, pnlToday, currentDate, call, dbPositions, dbCounters, trades,
                   brokerVars, histVars, up, today, crashes>>

\* The checks made outside a call: run_cycle evaluates the switch first, and
\* the daily report and the dashboard read the day's P&L.
CheckSwitch ==
    /\ up
    /\ \E ok \in WriteOutcomes : KillCheck(ok) /\ CountFault(ok)
    /\ UNCHANGED <<positions, call, dbPositions, trades, brokerVars, histVars,
                   up, today, crashes>>

ReadStats ==
    /\ up
    /\ \E ok \in WriteOutcomes : DayReset(ok) /\ CountFault(ok)
    /\ UNCHANGED <<positions, tripped, call, dbPositions, dbTripped, trades, brokerVars,
                   histVars, up, today, crashes>>

---------------------------------------------------------------------------
(* The process and its surroundings *)

Cut(stages) == {t \in Threads : call[t].stage \in stages}

\* The process dies; what it held in memory is gone.
Crash ==
    /\ up
    /\ crashes < MaxCrashes
    /\ crashes' = crashes + 1
    /\ up' = FALSE
    /\ positions' = [s \in Symbols |-> NoPosition]
    /\ pnlToday' = 0
    /\ currentDate' = today
    /\ tripped' = 0
    /\ call' = [t \in Threads |-> Idle]
    /\ torn' = torn \cup {call[t].sym : t \in Cut({"filled", "exitFilled"})}
    /\ tornTrades' = tornTrades \cup
          {call[t].pos.order : t \in Cut({"tracked", "popped", "counted"})}
    /\ unrecorded' = unrecorded \cup {call[t].pos.order : t \in Cut({"tracked"})}
    /\ pnlTorn' = (pnlTorn \/ Cut({"exitFilled", "popped"}) # {})
    /\ UNCHANGED <<dbVars, brokerVars, bookedPnl, closed, today, faults>>

\* Faults seeded for TLC: rows are not compared with the trades table, and the
\* answer of has_open_trade is read the wrong way round.
StaleRowKept(s) == FALSE

StaleRowFlipped(s) ==
    /\ dbPositions[s].order # 0
    /\ trades[dbPositions[s].order].st = "open"

\* A row whose trade is already closed is dropped at load.
StaleRow(s) ==
    /\ dbPositions[s].order # 0
    /\ trades[dbPositions[s].order].st = "closed"

TradePnl(ids) == SumFunctionOnSet([i \in OrderIds |-> trades[i].pnl], ids)

\* Fault seeded for TLC: the P&L rebuilt from the trades is not that of today.
AllTradePnl == TradePnl({i \in OrderIds : trades[i].st = "closed"})

TodaysTradePnl ==
    TradePnl({i \in OrderIds : trades[i].st = "closed" /\ trades[i].day = today})

\* TradingEngine.__init__: Portfolio._load_from_db and KillSwitch._load_from_db.
Start ==
    LET kept == [s \in Symbols |-> IF StaleRow(s) THEN NoPosition ELSE dbPositions[s]]
    IN  /\ ~up
        /\ up' = TRUE
        /\ positions' = kept
        /\ \E ok \in WriteOutcomes :
              /\ dbPositions' = IF ok THEN kept ELSE dbPositions
              /\ CountFault(ok)
        /\ pnlToday' = IF dbCounters.day = today THEN dbCounters.pnl ELSE TodaysTradePnl
        /\ currentDate' = today
        /\ tripped' = IF dbTripped = today THEN today ELSE 0
        /\ UNCHANGED <<call, dbCounters, dbTripped, trades, brokerVars, histVars, today, crashes>>

\* The exchange completes an order the engine has given up on.
LateFill(o) ==
    /\ o \in resting
    /\ resting' = resting \ {o}
    /\ holding' = [holding EXCEPT ![o.sym] = @ + o.delta]
    /\ UNCHANGED <<nextOrder, unconfirmed, memVars, call, dbVars, histVars, envVars>>

\* Overnight: the market is shut, so no call is under way, and day orders
\* that have not filled lapse.
NextDay ==
    /\ today < MaxDay
    /\ \A t \in Threads : call[t].stage = "idle"
    /\ today' = today + 1
    /\ resting' = {}
    /\ bookedPnl' = 0
    /\ pnlTorn' = FALSE
    /\ UNCHANGED <<holding, nextOrder, unconfirmed, memVars, call, dbVars, torn, tornTrades, closed,
                   unrecorded, crashes, faults, up>>

---------------------------------------------------------------------------

Init ==
    /\ up = TRUE
    /\ positions = [s \in Symbols |-> NoPosition]
    /\ pnlToday = 0
    /\ currentDate = 1
    /\ tripped = 0
    /\ call = [t \in Threads |-> Idle]
    /\ dbPositions = [s \in Symbols |-> NoPosition]
    /\ dbCounters = NoCounters
    /\ dbTripped = 0
    /\ trades = [i \in OrderIds |-> NoTrade]
    /\ holding = [s \in Symbols |-> 0]
    /\ resting = {}
    /\ nextOrder = 1
    /\ today = 1
    /\ crashes = 0
    /\ faults = 0
    /\ unconfirmed = 0
    /\ bookedPnl = 0
    /\ torn = {}
    /\ tornTrades = {}
    /\ pnlTorn = FALSE
    /\ closed = {}
    /\ unrecorded = {}

EntryStep(t) ==
    \/ \E s \in Symbols, o \in Offers : ExecuteSignal(t, s, o)
    \/ \E d \in Slips : EntryFilled(t, d)
    \/ EntryRefused(t)
    \/ EntryUnconfirmed(t)
    \/ AddPosition(t)
    \/ PersistTrade(t)

ExitStep(t) ==
    \/ \E s \in Symbols : ClosePosition(t, s)
    \/ \E x \in ExitPrices : ExitFilled(t, x)
    \/ ExitRefused(t)
    \/ ExitUnconfirmed(t)
    \/ BookExit(t)
    \/ SaveCounters(t)
    \/ UpdateTradeExit(t)

Next ==
    \/ \E t \in Threads : EntryStep(t) \/ ExitStep(t)
    \/ ForceTrigger
    \/ ResetSwitch
    \/ CheckSwitch
    \/ ReadStats
    \/ Crash
    \/ Start
    \/ \E o \in resting : LateFill(o)
    \/ NextDay

Spec == Init /\ [][Next]_vars

=============================================================================
