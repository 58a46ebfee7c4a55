------------------------- MODULE TradingCoreProofs -------------------------
(***************************************************************************)
(* Proofs about TradingCore, for every value of its constants.             *)
(*                                                                         *)
(* ShapeInv types the state.  SwitchInv adds the dates that make the kill  *)
(* switch survive a restart.  MirrorInv says that the rows are the memory  *)
(* as long as no write fails, and OvershootInv counts positions and orders *)
(* under way together.  SerialCore ties the portfolio's rows, the call     *)
(* under way, the order ids and the broker together when one thread makes  *)
(* the calls.                                                              *)
(***************************************************************************)
EXTENDS TradingCoreProps, SumTheorems

---------------------------------------------------------------------------
(* Inductive invariants *)

ShapeInv ==
    /\ ShapeOK
    /\ \A t \in Threads : call[t].stage = "idle" \/ call[t].sym \in Symbols

SwitchInv ==
    /\ ShapeInv
    /\ faults = 0
    /\ tripped <= today
    /\ dbTripped <= today
    /\ SwitchSurvivesRestart

\* No write fails: the rows are the memory, and a call survives no crash.
MirrorInv ==
    /\ ShapeInv
    /\ faults = 0
    /\ up => positions = dbPositions
    /\ ~up => \A t \in Threads : call[t].stage = "idle"

OvershootInv ==
    /\ MirrorInv
    /\ Cardinality(Held(dbPositions)) + Cardinality(Cut({"send", "filled"}))
          <= MaxOpenPositions + Cardinality(Threads) - 1

\* What the one call under way and the rows say of each other.
CallMatchesRows ==
    \A t \in Threads :
        /\ call[t].stage \in {"send", "filled", "popped", "counted"} =>
               dbPositions[call[t].sym] = NoPosition
        /\ call[t].stage \in {"exitSend", "exitFilled", "tracked"} =>
               dbPositions[call[t].sym] = call[t].pos
        /\ call[t].stage \in {"exitSend", "exitFilled"} => call[t].pos # NoPosition
        /\ call[t].stage \in {"filled", "tracked"} => call[t].pos.order # 0

\* Order ids are new when they are given, and name one position each.
OrdersDistinct ==
    /\ \A s \in Symbols : dbPositions[s].order < nextOrder
    /\ \A t \in Threads : call[t].pos.order < nextOrder
    /\ \A s \in Symbols : dbPositions[s] # NoPosition => dbPositions[s].order # 0
    /\ \A s, r \in Symbols :
           (dbPositions[s].order = dbPositions[r].order /\ s # r) =>
               dbPositions[s].order = 0
    /\ \A t \in Threads, s \in Symbols :
           (call[t].stage \in {"filled", "popped", "counted"}
              /\ dbPositions[s].order = call[t].pos.order) =>
               dbPositions[s].order = 0

\* The row of a held position is not that of a closed trade, so no position is
\* dropped at load.
RowsAreLive ==
    /\ \A i \in OrderIds : i >= nextOrder => trades[i].st # "closed"
    /\ \A s \in Symbols : ~StaleRow(s)
    /\ \A t \in Threads :
           call[t].stage = "filled" => trades[call[t].pos.order].st # "closed"

RestingIsTorn == \A o \in resting : o.sym \in torn

\* BookAgreesWithBroker on the rows, for the call of the only thread.
RowsAgree ==
    \A s \in Symbols \ torn, t \in Threads :
        \/ /\ ~(call[t].sym = s /\ call[t].stage \in {"filled", "exitFilled"})
           /\ holding[s] = Signed(dbPositions[s])
        \/ /\ call[t].sym = s /\ call[t].stage = "filled"
           /\ holding[s] = Signed(call[t].pos)
        \/ /\ call[t].sym = s /\ call[t].stage = "exitFilled"
           /\ holding[s] = 0

SerialCore ==
    /\ CallMatchesRows
    /\ OrdersDistinct
    /\ RowsAreLive
    /\ RestingIsTorn
    /\ RowsAgree

\* The exit fill a call has received and not yet booked.
Pending(t) == IF call[t].stage = "exitFilled" THEN call[t].pnl ELSE 0

\* The day's P&L a restart would read.
SavedPnl == IF dbCounters.day = today THEN dbCounters.pnl ELSE 0

\* No date lies ahead, and counters of an earlier day mean that no exit was
\* recorded today.
DatesPast ==
    /\ currentDate <= today
    /\ dbCounters.day <= today
    /\ \A i \in OrderIds : trades[i].day <= today
    /\ dbCounters.day # today =>
           \A i \in OrderIds : ~(trades[i].st = "closed" /\ trades[i].day = today)

\* CountersMatchBroker and DailyLossHonoured for the call of the only thread,
\* in memory and in the row a restart reads.
CountersCore ==
    /\ DatesPast
    /\ \A t \in Threads :
           /\ up /\ ~pnlTorn => RolledPnl = bookedPnl - Pending(t)
           /\ call[t].stage # "popped" /\ ~pnlTorn => SavedPnl = bookedPnl - Pending(t)
           /\ call[t].stage = "popped" => currentDate = today
           /\ call[t].stage = "counted" => dbCounters.day = today
           /\ call[t].stage = "exitFilled" =>
                  call[t].pnl = RealizedPnl(call[t].pos.dir, call[t].pos.qty,
                                            call[t].pos.entry, call[t].price)
           /\ call[t].stage = "send" /\ ~pnlTorn => bookedPnl > -MaxDailyLoss

\* The capital of the held positions, with what the order under way will add to
\* it at most.
ExposureCore ==
    /\ ~up => Held(positions) = {}
    /\ \A s \in Held(dbPositions) : dbPositions[s].entry > 0
    /\ \A t \in Threads :
           /\ call[t].stage = "send" =>
                  \E o \in Offers :
                      /\ call[t].pos.entry = o.entry
                      /\ CapitalIn(dbPositions) + call[t].pos.qty * o.entry
                             <= MaxCapitalDeployed
           /\ call[t].stage = "filled" =>
                  \E o \in Offers, d \in Slips :
                      /\ call[t].pos.entry = o.entry + d
                      /\ CapitalIn(dbPositions) + call[t].pos.qty * o.entry
                             <= MaxCapitalDeployed
    /\ \/ CapitalIn(dbPositions) <= MaxCapitalDeployed
       \/ \E s \in Held(dbPositions), d \in Slips :
              /\ d < dbPositions[s].entry
              /\ CapitalIn(dbPositions) <= MaxCapitalDeployed + d * dbPositions[s].qty

---------------------------------------------------------------------------
(* Typing *)

\* The null records are records of their sets.
LEMMA NullRecords ==
    /\ NoPosition \in Position
    /\ Idle \in Call
    /\ NoTrade \in Trade
BY CoreAssumption DEF NoPosition, Position, Idle, Call, Stages, NoTrade, Trade,
    Directions, Buy

\* A quotient of naturals is a natural.
LEMMA QuotientNat ==
    ASSUME NEW a \in Nat, NEW b \in Nat \ {0}
    PROVE  a \div b \in Nat
OBVIOUS

\* A signal is never sized below zero (calculate_position_size).
LEMMA SizeNat ==
    ASSUME NEW o \in Offers
    PROVE  CalculatePositionSize(o.entry, o.stop) \in Nat
<1>1. o.entry \in Nat \ {0} /\ o.stop \in Nat
    BY CoreAssumption
<1>2. MaxCapitalPerTrade \div o.entry \in Nat
    BY <1>1, QuotientNat, LimitsAssumption
<1>3. FixedPercentageSize(o.entry, o.stop) \in Nat
    <2>1. CASE o.entry = o.stop
        BY <2>1 DEF FixedPercentageSize
    <2>2. CASE o.entry # o.stop
        <3>1. Distance(o.entry, o.stop) \in Nat \ {0}
            BY <1>1, <2>2 DEF Distance
        <3> QED
            BY <2>2, <3>1, QuotientNat, LimitsAssumption DEF FixedPercentageSize
    <2> QED
        BY <2>1, <2>2
<1> QED
    BY <1>1, <1>2, <1>3 DEF CalculatePositionSize, Smaller

\* P&L of whole shares at whole prices is whole.
LEMMA PnlInt ==
    ASSUME NEW p \in Position, NEW x \in Int
    PROVE  RealizedPnl(p.dir, p.qty, p.entry, x) \in Int
BY DEF RealizedPnl, Position, Directions, Buy, Sell

\* A fill completes the record of a position.
LEMMA FillPosition ==
    ASSUME NEW p \in Position, NEW e \in Int, NEW i \in OrderIds
    PROVE  [p EXCEPT !.entry = e, !.order = i] \in Position
BY DEF Position

\* Two parts of a call's record change together.
LEMMA FillCall ==
    ASSUME NEW c \in Call, NEW p \in Position
    PROVE  [c EXCEPT !.stage = "filled", !.pos = p] \in Call
BY DEF Call, Stages

\* The bounds are naturals, and there is at least one day.
LEMMA BoundsNat ==
    /\ MaxUnconfirmed \in Nat
    /\ MaxOrders \in Nat
    /\ MaxDay \in Nat \ {0}
    /\ MaxCrashes \in Nat
    /\ MaxFaults \in Nat
<1>1. \A n \in {MaxUnconfirmed, MaxOrders, MaxDay, MaxCrashes, MaxFaults} : n \in Nat
    BY CoreAssumption
<1> QED
    BY <1>1, CoreAssumption

\* The variables start with their shapes.
LEMMA ShapeInit == Init => ShapeInv
<1> SUFFICES ASSUME Init PROVE ShapeInv
    OBVIOUS
<1>1. 1 \in Days /\ 1 \in 1..(MaxOrders + 1)
    BY BoundsNat DEF Days
<1>2. /\ positions \in [Symbols -> Position]
      /\ dbPositions \in [Symbols -> Position]
      /\ call \in [Threads -> Call]
      /\ trades \in [OrderIds -> Trade]
      /\ holding \in [Symbols -> Int]
    BY NullRecords DEF Init
<1>3. \A t \in Threads : call[t].stage = "idle"
    BY DEF Init, Idle
<1>4. up \in BOOLEAN /\ pnlTorn \in BOOLEAN
    BY Zenon DEF Init
<1> QED
    BY <1>1, <1>2, <1>3, <1>4 DEF Init, ShapeInv, ShapeOK

\* Every step keeps the shapes.
LEMMA ShapeStep ==
    ASSUME ShapeInv, [Next]_vars
    PROVE  ShapeInv'
<1> USE DEF ShapeInv, ShapeOK
<1>1. ASSUME NEW t \in Threads, NEW s \in Symbols, NEW o \in Offers, ExecuteSignal(t, s, o)
      PROVE  ShapeInv'
    <2>1. [dir |-> o.dir, entry |-> o.entry, order |-> 0,
           qty |-> CalculatePositionSize(o.entry, o.stop)] \in Position
        BY SizeNat, CoreAssumption DEF Position
    <2>2. call' \in [Threads -> Call]
        BY <1>1, <2>1, NullRecords DEF ExecuteSignal, Call, Stages, Idle
    <2>3. tripped' \in Days \cup {0} /\ dbTripped' \in Days \cup {0}
        BY <1>1 DEF ExecuteSignal, KillCheck
    <2>4. currentDate' \in Days
        BY <1>1 DEF ExecuteSignal, KillCheck, DayReset
    <2>5. faults' \in Nat
        BY <1>1 DEF ExecuteSignal, CountFault
    <2>6. \A u \in Threads : call'[u].stage = "idle" \/ call'[u].sym \in Symbols
        BY <1>1 DEF ExecuteSignal, Idle
    <2> QED
        BY <1>1, <2>2, <2>3, <2>4, <2>5, <2>6 DEF ExecuteSignal, brokerVars, histVars
<1>2. ASSUME NEW t \in Threads, NEW d \in Slips, EntryFilled(t, d)
      PROVE  ShapeInv'
    <2>1. nextOrder \in OrderIds /\ nextOrder' \in 1..(MaxOrders + 1)
        BY <1>2, BoundsNat DEF EntryFilled, OrderIds
    <2>2. call' \in [Threads -> Call]
        <3> DEFINE p == [call[t].pos EXCEPT !.entry = call[t].pos.entry + d,
                                            !.order = nextOrder]
        <3>1. call[t] \in Call /\ call[t].pos \in Position /\ call[t].pos.entry + d \in Int
            BY CoreAssumption DEF Call, Position
        <3>2. p \in Position
            BY <2>1, <3>1, FillPosition
        <3>3. [call[t] EXCEPT !.stage = "filled", !.pos = p] \in Call
            BY <3>1, <3>2, FillCall
        <3>4. call' = [call EXCEPT ![t] = [call[t] EXCEPT !.stage = "filled", !.pos = p]]
            BY <1>2, <3>1 DEF EntryFilled, Call, Position
        <3> QED
            BY <3>3, <3>4
    <2>3. holding' \in [Symbols -> Int]
        BY <1>2 DEF EntryFilled, Call, Position, Directions, Buy, Sell
    <2>4. \A u \in Threads : call'[u].stage = "idle" \/ call'[u].sym \in Symbols
        BY <1>2 DEF EntryFilled, Call
    <2> QED
        BY <1>2, <2>1, <2>2, <2>3, <2>4 DEF EntryFilled, memVars, dbVars, histVars, envVars
<1>3. ASSUME NEW t \in Threads, EntryRefused(t) \/ ExitRefused(t)
      PROVE  ShapeInv'
    BY <1>3, NullRecords DEF EntryRefused, ExitRefused, Idle, memVars, dbVars,
        brokerVars, histVars, envVars
<1>4. ASSUME NEW t \in Threads, EntryUnconfirmed(t) \/ ExitUnconfirmed(t)
      PROVE  ShapeInv'
    <2>1. call[t].sym \in Symbols /\ call[t].pos.dir * call[t].pos.qty \in Int
        BY <1>4 DEF EntryUnconfirmed, ExitUnconfirmed, Unconfirmed, Call, Position,
            Directions, Buy, Sell
    <2>2. resting' \subseteq RestingOrder
        BY <1>4, <2>1 DEF EntryUnconfirmed, ExitUnconfirmed, Unconfirmed, RestingOrder
    <2>3. call' \in [Threads -> Call]
        BY <1>4, NullRecords DEF EntryUnconfirmed, ExitUnconfirmed, Unconfirmed
    <2>4. \A u \in Threads : call'[u].stage = "idle" \/ call'[u].sym \in Symbols
        BY <1>4 DEF EntryUnconfirmed, ExitUnconfirmed, Unconfirmed, Idle
    <2>5. torn' \subseteq Symbols /\ unconfirmed' \in Nat
        BY <1>4, <2>1 DEF EntryUnconfirmed, ExitUnconfirmed, Unconfirmed
    <2>6. pnlTorn' \in BOOLEAN
        BY <1>4, Zenon DEF EntryUnconfirmed, ExitUnconfirmed
    <2> QED
        BY <1>4, <2>2, <2>3, <2>4, <2>5, <2>6 DEF EntryUnconfirmed, ExitUnconfirmed, Unconfirmed,
            memVars, dbVars, envVars
<1>5. ASSUME NEW t \in Threads, AddPosition(t)
      PROVE  ShapeInv'
    <2>1. positions' \in [Symbols -> Position] /\ dbPositions' \in [Symbols -> Position]
        BY <1>5 DEF AddPosition, Call
    <2>2. call' \in [Threads -> Call]
        BY <1>5 DEF AddPosition, Call, Stages
    <2>3. \A u \in Threads : call'[u].stage = "idle" \/ call'[u].sym \in Symbols
        BY <1>5 DEF AddPosition, Call
    <2>4. faults' \in Nat
        BY <1>5 DEF AddPosition, CountFault
    <2> QED
        BY <1>5, <2>1, <2>2, <2>3, <2>4 DEF AddPosition, brokerVars, histVars
<1>6. ASSUME NEW t \in Threads, PersistTrade(t)
      PROVE  ShapeInv'
    <2>1. trades' \in [OrderIds -> Trade]
        <3>1. CASE trades' = trades
            BY <3>1
        <3>2. CASE trades' = [trades EXCEPT ![call[t].pos.order].st = "open"]
            <4>1. ASSUME NEW o \in OrderIds
                  PROVE  [trades[o] EXCEPT !.st = "open"] \in Trade
                BY DEF Trade
            <4> QED
                BY <3>2, <4>1
        <3> QED
            BY <1>6, <3>1, <3>2 DEF PersistTrade
    <2>2. tornTrades' \subseteq OrderIds \cup {0}
        BY <1>6 DEF PersistTrade, Call, Position
    <2>3. /\ call' \in [Threads -> Call]
          /\ \A u \in Threads : call'[u].stage = "idle" \/ call'[u].sym \in Symbols
        BY <1>6, NullRecords DEF PersistTrade, Idle
    <2>4. faults' \in Nat
        BY <1>6 DEF PersistTrade, CountFault
    <2> QED
        BY <1>6, <2>1, <2>2, <2>3, <2>4 DEF PersistTrade, memVars, brokerVars
<1>7. ASSUME NEW t \in Threads, NEW s \in Symbols, ClosePosition(t, s)
      PROVE  ShapeInv'
    BY <1>7, NullRecords DEF ClosePosition, Idle, Call, Stages, memVars, dbVars,
        brokerVars, histVars, envVars
<1>8. ASSUME NEW t \in Threads, NEW x \in ExitPrices, ExitFilled(t, x)
      PROVE  ShapeInv'
    <2>1. x \in Nat /\ call[t].pos \in Position
        BY CoreAssumption DEF Call
    <2>2. RealizedPnl(call[t].pos.dir, call[t].pos.qty, call[t].pos.entry, x) \in Int
        BY <2>1, PnlInt
    <2>3. call' \in [Threads -> Call]
        <3>1. call'[t] \in Call
            BY <1>8, <2>1, <2>2, ZenonT(30) DEF ExitFilled, Call, Stages
        <3>2. call' = [call EXCEPT ![t] = call'[t]]
            BY <1>8 DEF ExitFilled
        <3> QED
            BY <3>1, <3>2
    <2>4. holding' \in [Symbols -> Int] /\ bookedPnl' \in Int
        BY <1>8, <2>1, <2>2 DEF ExitFilled, Position, Directions, Buy, Sell
    <2>5. \A u \in Threads : call'[u].stage = "idle" \/ call'[u].sym \in Symbols
        BY <1>8 DEF ExitFilled, Call
    <2> QED
        BY <1>8, <2>3, <2>4, <2>5 DEF ExitFilled, memVars, dbVars, envVars
<1>9. ASSUME NEW t \in Threads, BookExit(t)
      PROVE  ShapeInv'
    <2>1. call[t].sym \in Symbols /\ positions[call[t].sym] \in Position /\ call[t].price \in Int
        BY <1>9 DEF BookExit, Call
    <2>2. RealizedPnl(positions[call[t].sym].dir, positions[call[t].sym].qty,
                      positions[call[t].sym].entry, call[t].price) \in Int
        BY <2>1, PnlInt
    <2>3. call' \in [Threads -> Call]
        BY <1>9, <2>2 DEF BookExit, Call, Stages
    <2>4. positions' \in [Symbols -> Position] /\ dbPositions' \in [Symbols -> Position]
        BY <1>9, NullRecords DEF BookExit
    <2>5. currentDate' \in Days /\ faults' \in Nat
        BY <1>9 DEF BookExit, DayReset, CountFault
    <2>6. \A u \in Threads : call'[u].stage = "idle" \/ call'[u].sym \in Symbols
        BY <1>9 DEF BookExit, Call
    <2> QED
        BY <1>9, <2>3, <2>4, <2>5, <2>6 DEF BookExit, brokerVars, histVars
<1>10. ASSUME NEW t \in Threads, SaveCounters(t)
       PROVE  ShapeInv'
    BY <1>10 DEF SaveCounters, CountFault, Call, Stages, memVars, brokerVars, histVars
<1>11. ASSUME NEW t \in Threads, UpdateTradeExit(t)
       PROVE  ShapeInv'
    <2>1. call[t].pos.order \in OrderIds \cup {0} /\ call[t].pnl \in Int
        BY DEF Call, Position
    <2>2. trades' \in [OrderIds -> Trade]
        BY <1>11, <2>1 DEF UpdateTradeExit, Trade, Days
    <2>3. tornTrades' \subseteq OrderIds \cup {0} /\ closed' \subseteq OrderIds \cup {0}
        BY <1>11, <2>1 DEF UpdateTradeExit
    <2>4. /\ tripped' \in Days \cup {0}
          /\ dbTripped' \in Days \cup {0}
          /\ currentDate' \in Days
          /\ faults' \in Nat
        BY <1>11 DEF UpdateTradeExit, KillCheck, DayReset, CountFault
    <2>5. /\ call' \in [Threads -> Call]
          /\ \A u \in Threads : call'[u].stage = "idle" \/ call'[u].sym \in Symbols
        BY <1>11, NullRecords DEF UpdateTradeExit, Idle
    <2> QED
        BY <1>11, <2>2, <2>3, <2>4, <2>5 DEF UpdateTradeExit, brokerVars
<1>12. CASE ForceTrigger \/ ResetSwitch
    BY <1>12 DEF ForceTrigger, ResetSwitch, CountFault, brokerVars, histVars
<1>13. CASE Crash
    <2>1. /\ positions' \in [Symbols -> Position]
          /\ call' \in [Threads -> Call]
          /\ \A u \in Threads : call'[u].stage = "idle"
        BY <1>13, NullRecords DEF Crash, Idle
    <2>2. torn' \subseteq Symbols
        BY <1>13 DEF Crash, Cut
    <2>3. tornTrades' \subseteq OrderIds \cup {0} /\ unrecorded' \subseteq OrderIds \cup {0}
        BY <1>13 DEF Crash, Cut, Call, Position
    <2>4. pnlTorn' \in BOOLEAN
        BY <1>13 DEF Crash
    <2>5. up' \in BOOLEAN
        BY <1>13, Zenon DEF Crash
    <2>6. currentDate' \in Days /\ tripped' \in Days \cup {0} /\ crashes' \in Nat
        BY <1>13 DEF Crash
    <2> QED
        BY <1>13, <2>1, <2>2, <2>3, <2>4, <2>5, <2>6 DEF Crash, dbVars, brokerVars
<1>14. CASE Start
    <2>1. positions' \in [Symbols -> Position] /\ dbPositions' \in [Symbols -> Position]
        BY <1>14, NullRecords DEF Start
    <2>2. currentDate' \in Days /\ tripped' \in Days \cup {0} /\ faults' \in Nat
        BY <1>14 DEF Start, CountFault
    <2> QED
        BY <1>14, <2>1, <2>2 DEF Start, brokerVars, histVars
<1>15. ASSUME NEW o \in resting, LateFill(o)
       PROVE  ShapeInv'
    BY <1>15 DEF LateFill, RestingOrder, memVars, dbVars, histVars, envVars
<1>16. CASE NextDay
    <2>1. today' \in Days
        BY <1>16, BoundsNat DEF NextDay, Days
    <2>2. pnlTorn' \in BOOLEAN
        BY <1>16, Zenon DEF NextDay
    <2> QED
        BY <1>16, <2>1, <2>2 DEF NextDay, memVars, dbVars
<1>17. CASE CheckSwitch \/ ReadStats
    <2>1. /\ tripped' \in Days \cup {0}
          /\ dbTripped' \in Days \cup {0}
          /\ currentDate' \in Days
          /\ faults' \in Nat
        BY <1>17 DEF CheckSwitch, ReadStats, KillCheck, DayReset, CountFault
    <2> QED
        BY <1>17, <2>1 DEF CheckSwitch, ReadStats, brokerVars, histVars
<1>18. CASE UNCHANGED vars
    BY <1>18 DEF vars, memVars, dbVars, brokerVars, histVars, envVars
<1> QED
    BY <1>1, <1>2, <1>3, <1>4, <1>5, <1>6, <1>7, <1>8, <1>9, <1>10, <1>11, <1>12, <1>13,
       <1>14, <1>15, <1>16, <1>17, <1>18 DEF Next, EntryStep, ExitStep

\* The P&L rebuilt from the trades is whole (get_today_realized_pnl).
LEMMA TradePnlInt == ShapeOK => TodaysTradePnl \in Int
<1> SUFFICES ASSUME ShapeOK PROVE TodaysTradePnl \in Int
    OBVIOUS
<1> DEFINE f == [i \in OrderIds |-> trades[i].pnl]
           S == {i \in OrderIds : trades[i].st = "closed" /\ trades[i].day = today}
<1>1. IsFiniteSet(OrderIds)
    BY FS_Interval, BoundsNat DEF OrderIds
<1>2. IsFiniteSet(S)
    BY <1>1, FS_Subset
<1>3. \A i \in S : f[i] \in Int
    BY DEF ShapeOK, Trade
<1>4. SumFunctionOnSet(f, S) \in Int
    <2> HIDE DEF f, S
    <2> QED
        BY <1>2, <1>3, SumInt
<1> QED
    BY <1>4 DEF TodaysTradePnl, TradePnl

\* The day's P&L and its saved copy start whole.
LEMMA TypeInit == Init => TypeOK
<1>1. Init => pnlToday \in Int /\ dbCounters \in [pnl: Int, day: Days \cup {0}]
    BY DEF Init, NoCounters
<1> QED
    BY <1>1, ShapeInit DEF ShapeInv, TypeOK

\* Every step keeps the day's P&L and its saved copy whole.
LEMMA TypeStep ==
    ASSUME ShapeInv, TypeOK, [Next]_vars
    PROVE  TypeOK'
<1> DEFINE Counters == pnlToday' \in Int /\ dbCounters' \in [pnl: Int, day: Days \cup {0}]
<1>1. ShapeOK /\ ShapeOK'
    BY ShapeStep DEF ShapeInv
<1> SUFFICES Counters
    BY <1>1 DEF TypeOK
<1>2. /\ pnlToday \in Int /\ RolledPnl \in Int
      /\ dbCounters \in [pnl: Int, day: Days \cup {0}]
      /\ today \in Days /\ currentDate \in Days
    BY DEF TypeOK, ShapeOK, RolledPnl
<1>3. ASSUME NEW ok, DayReset(ok)
      PROVE  Counters
    BY <1>2, <1>3 DEF DayReset
<1>4. ASSUME NEW ok, KillCheck(ok)
      PROVE  Counters
    BY <1>2, <1>3, <1>4 DEF KillCheck
<1>5. ASSUME NEW t \in Threads, BookExit(t)
      PROVE  Counters
    <2>1. call[t].sym \in Symbols /\ positions[call[t].sym] \in Position /\ call[t].price \in Int
        BY <1>1, <1>5 DEF BookExit, Call, ShapeInv, ShapeOK
    <2>2. RealizedPnl(positions[call[t].sym].dir, positions[call[t].sym].qty,
                      positions[call[t].sym].entry, call[t].price) \in Int
        BY <2>1, PnlInt
    <2>3. CASE HasPosition(call[t].sym)
        BY <1>2, <1>5, <2>2, <2>3 DEF BookExit
    <2>4. CASE ~HasPosition(call[t].sym)
        BY <1>3, <1>5, <2>4 DEF BookExit
    <2> QED
        BY <2>3, <2>4
<1>6. ASSUME NEW t \in Threads, SaveCounters(t)
      PROVE  Counters
    BY <1>2, <1>6 DEF SaveCounters, memVars
<1>7. CASE Start
    BY <1>1, <1>2, <1>7, TradePnlInt DEF Start
<1>8. CASE Crash
    BY <1>2, <1>8 DEF Crash, dbVars
<1>9. CASE UNCHANGED <<pnlToday, dbCounters>>
    BY <1>2, <1>9
<1>10. CASE (\E t \in Threads : UpdateTradeExit(t)) \/ CheckSwitch \/ ReadStats
    BY <1>3, <1>4, <1>10 DEF UpdateTradeExit, CheckSwitch, ReadStats
<1>11. ASSUME NEW t \in Threads, NEW s \in Symbols, NEW o \in Offers, ExecuteSignal(t, s, o)
       PROVE  Counters
    BY <1>4, <1>11 DEF ExecuteSignal
<1> QED
    BY <1>5, <1>6, <1>7, <1>8, <1>9, <1>10, <1>11, ZenonT(30)
        DEF Next, EntryStep, EntryFilled, EntryRefused, EntryUnconfirmed, Unconfirmed,
            AddPosition, PersistTrade, ExitStep, ClosePosition, ExitFilled, ExitRefused,
            ExitUnconfirmed, ForceTrigger, ResetSwitch, LateFill, NextDay, vars, memVars,
            dbVars

\* The state keeps its type: every position, call and row is a record of the
\* model's sets, every date is a trading day, and the day's P&L stays a number
\* through bookings, midnights and the rebuilding at start.
THEOREM TypeCorrect == Spec => []TypeOK
<1>1. Init => ShapeInv /\ TypeOK
    BY ShapeInit, TypeInit
<1>2. ShapeInv /\ TypeOK /\ [Next]_vars => (ShapeInv /\ TypeOK)'
    BY ShapeStep, TypeStep
<1> QED
    BY <1>1, <1>2, PTL DEF Spec

---------------------------------------------------------------------------
(* The kill switch survives a restart *)

\* When no database write fails every write is done.
LEMMA NoFault ==
    ASSUME MaxFaults = 0, faults = 0, NEW ok \in WriteOutcomes, CountFault(ok)
    PROVE  ok = TRUE /\ faults' = 0
BY DEF WriteOutcomes, CountFault

\* Every step keeps the switch and its row in agreement when no write fails.
LEMMA SwitchStep ==
    ASSUME MaxFaults = 0, SwitchInv, [Next]_vars
    PROVE  SwitchInv'
<1>1. ShapeInv /\ ShapeInv'
    BY ShapeStep DEF SwitchInv
<1>2. today \in Nat \ {0} /\ tripped \in Nat /\ dbTripped \in Nat
    BY <1>1, BoundsNat DEF ShapeInv, ShapeOK, Days
<1> DEFINE Switched == /\ faults' = 0
                       /\ tripped' <= today'
                       /\ dbTripped' <= today'
                       /\ SwitchSurvivesRestart'
<1> USE DEF SwitchInv, SwitchSurvivesRestart
<1>3. ASSUME UNCHANGED <<tripped, dbTripped, today, up, faults>>
      PROVE  Switched
    BY <1>3
<1>4. ASSUME NEW ok \in WriteOutcomes, KillCheck(ok), CountFault(ok), UNCHANGED <<today, up>>
      PROVE  Switched
    <2>1. ok = TRUE /\ faults' = 0
        BY <1>4, NoFault
    <2>2. CASE KillActive
        BY <1>2, <1>4, <2>1, <2>2 DEF KillCheck
    <2>3. CASE ~KillActive
        <3>1. tripped' = IF LossBreached THEN today ELSE 0
            BY <1>4, <2>3 DEF KillCheck
        <3>2. dbTripped' = IF LossBreached \/ tripped # 0 THEN tripped' ELSE dbTripped
            BY <1>4, <2>1, <2>3 DEF KillCheck
        <3> QED
            BY <1>2, <1>4, <2>1, <2>3, <3>1, <3>2 DEF KillActive
    <2> QED
        BY <2>2, <2>3
<1>5. ASSUME NEW ok \in WriteOutcomes, CountFault(ok),
             UNCHANGED <<tripped, dbTripped, today, up>>
      PROVE  Switched
    BY <1>5, NoFault
<1>6. ASSUME NEW t \in Threads, EntryStep(t)
      PROVE  Switched
    BY <1>3, <1>4, <1>5, <1>6 DEF EntryStep, ExecuteSignal, EntryFilled, EntryRefused,
        EntryUnconfirmed, Unconfirmed, AddPosition, PersistTrade, memVars, dbVars, envVars
<1>7. ASSUME NEW t \in Threads, ExitStep(t)
      PROVE  Switched
    BY <1>3, <1>4, <1>5, <1>7 DEF ExitStep, ClosePosition, ExitFilled, ExitRefused,
        ExitUnconfirmed, Unconfirmed, BookExit, SaveCounters, UpdateTradeExit,
        memVars, dbVars, envVars
<1>8. CASE ForceTrigger \/ ResetSwitch
    <2>1. PICK ok \in WriteOutcomes :
              /\ CountFault(ok)
              /\ dbTripped' = IF ok THEN tripped' ELSE dbTripped
        BY <1>8 DEF ForceTrigger, ResetSwitch
    <2>2. ok = TRUE /\ faults' = 0
        BY <2>1, NoFault
    <2>3. dbTripped' = tripped'
        BY <2>1, <2>2
    <2>4. today' = today /\ tripped' \in {0, today}
        BY <1>8 DEF ForceTrigger, ResetSwitch
    <2> QED
        BY <1>1, <1>2, <2>2, <2>3, <2>4
<1>9. CASE CheckSwitch \/ ReadStats
    BY <1>1, <1>4, <1>5, <1>9 DEF CheckSwitch, ReadStats
<1>10. CASE Crash
    BY <1>1, <1>2, <1>10 DEF Crash, dbVars
<1>11. CASE Start
    <2>1. faults' = 0
        BY <1>11, NoFault DEF Start
    <2>2. /\ today' = today
          /\ dbTripped' = dbTripped
          /\ tripped' = IF dbTripped = today THEN today ELSE 0
        BY <1>11 DEF Start
    <2> QED
        BY <1>1, <1>2, <2>1, <2>2
<1>12. CASE NextDay
    BY <1>1, <1>2, <1>12 DEF NextDay, memVars, dbVars
<1>13. ASSUME NEW o \in resting, LateFill(o)
       PROVE  Switched
    BY <1>3, <1>13 DEF LateFill, memVars, dbVars, envVars
<1>14. CASE UNCHANGED vars
    BY <1>1, <1>3, <1>14 DEF vars, memVars, dbVars, envVars
<1> QED
    BY <1>1, <1>6, <1>7, <1>8, <1>9, <1>10, <1>11, <1>12, <1>13, <1>14 DEF Next

\* The switch in memory and its row agree about today (KillSwitch._persist,
\* _load_from_db, is_triggered), whatever is interleaved, as long as no write
\* fails.  The dates of both never lie ahead, so midnight clears both at once.
THEOREM SwitchDurable ==
    ASSUME MaxFaults = 0
    PROVE  Spec => []SwitchSurvivesRestart
<1>1. Init => SwitchInv
    BY ShapeInit DEF Init, SwitchInv, SwitchSurvivesRestart
<1>2. SwitchInv /\ [Next]_vars => SwitchInv'
    BY SwitchStep
<1>3. SwitchInv => SwitchSurvivesRestart
    BY DEF SwitchInv
<1> QED
    BY <1>1, <1>2, <1>3, PTL DEF Spec

---------------------------------------------------------------------------
(* The rows mirror the memory *)

\* Memory and position rows start empty, hence equal.
LEMMA MirrorInit == Init => MirrorInv
BY ShapeInit DEF Init, MirrorInv, Idle

\* Every step writes a position to memory and to its row, or to neither.
LEMMA MirrorStep ==
    ASSUME MaxFaults = 0, MirrorInv, [Next]_vars
    PROVE  MirrorInv'
<1>1. ShapeInv /\ ShapeInv'
    BY ShapeStep DEF MirrorInv
<1> DEFINE Mirrored == /\ faults' = 0
                       /\ up' => positions' = dbPositions'
                       /\ ~up' => \A u \in Threads : call'[u].stage = "idle"
<1> USE DEF MirrorInv
<1>2. \A ok \in WriteOutcomes : CountFault(ok) => ok = TRUE /\ faults' = 0
    BY NoFault
<1>3. ASSUME NEW t \in Threads, EntryStep(t)
      PROVE  Mirrored
    <2>1. up /\ up'
        <3>1. up \/ call[t].stage # "idle"
            BY <1>3 DEF EntryStep, ExecuteSignal, EntryFilled, EntryRefused,
                EntryUnconfirmed, Unconfirmed, AddPosition, PersistTrade
        <3>2. up' = up
            BY <1>3 DEF EntryStep, ExecuteSignal, EntryFilled, EntryRefused,
                EntryUnconfirmed, Unconfirmed, AddPosition, PersistTrade, envVars
        <3> QED
            BY <3>1, <3>2
    <2>2. CASE AddPosition(t)
        <3>1. CASE HasPosition(call[t].sym)
            BY <2>1, <2>2, <3>1 DEF AddPosition
        <3>2. CASE ~HasPosition(call[t].sym)
            <4>1. PICK ok \in WriteOutcomes :
                      /\ CountFault(ok)
                      /\ positions' = [positions EXCEPT ![call[t].sym] = call[t].pos]
                      /\ dbPositions' = IF ok THEN [dbPositions EXCEPT ![call[t].sym] = call[t].pos]
                                              ELSE dbPositions
                BY <2>2, <3>2 DEF AddPosition
            <4> QED
                BY <1>2, <2>1, <4>1
        <3> QED
            BY <3>1, <3>2
    <2>3. CASE ~AddPosition(t)
        BY <1>2, <1>3, <2>1, <2>3 DEF EntryStep, ExecuteSignal, EntryFilled, EntryRefused,
            EntryUnconfirmed, Unconfirmed, PersistTrade, memVars, dbVars, envVars
    <2> QED
        BY <2>2, <2>3
<1>4. ASSUME NEW t \in Threads, ExitStep(t)
      PROVE  Mirrored
    <2>1. up /\ up'
        <3>1. up \/ call[t].stage # "idle"
            BY <1>4 DEF ExitStep, ClosePosition, ExitFilled, ExitRefused, ExitUnconfirmed,
                Unconfirmed, BookExit, SaveCounters, UpdateTradeExit
        <3>2. up' = up
            BY <1>4 DEF ExitStep, ClosePosition, ExitFilled, ExitRefused, ExitUnconfirmed,
                Unconfirmed, BookExit, SaveCounters, UpdateTradeExit, envVars
        <3> QED
            BY <3>1, <3>2
    <2>2. CASE BookExit(t)
        <3>1. PICK ok \in WriteOutcomes :
                  /\ CountFault(ok)
                  /\ \/ /\ positions' = [positions EXCEPT ![call[t].sym] = NoPosition]
                        /\ dbPositions' = IF ok THEN [dbPositions EXCEPT ![call[t].sym] = NoPosition]
                                                ELSE dbPositions
                     \/ UNCHANGED <<positions, dbPositions>>
            BY <2>2 DEF BookExit
        <3> QED
            BY <1>2, <2>1, <3>1
    <2>3. CASE ~BookExit(t)
        BY <1>2, <1>4, <2>1, <2>3 DEF ExitStep, ClosePosition, ExitFilled, ExitRefused,
            ExitUnconfirmed, Unconfirmed, SaveCounters, UpdateTradeExit,
            memVars, dbVars, envVars
    <2> QED
        BY <2>2, <2>3
<1>5. CASE ForceTrigger \/ ResetSwitch \/ CheckSwitch \/ ReadStats
    BY <1>1, <1>2, <1>5 DEF ForceTrigger, ResetSwitch, CheckSwitch, ReadStats
<1>6. CASE Crash
    BY <1>1, <1>6 DEF Crash, Idle
<1>7. CASE Start
    BY <1>1, <1>2, <1>7 DEF Start
<1>8. ASSUME NEW o \in resting, LateFill(o)
      PROVE  Mirrored
    BY <1>8 DEF LateFill, memVars, dbVars, envVars
<1>9. CASE NextDay
    BY <1>1, <1>9 DEF NextDay, memVars, dbVars
<1>10. CASE UNCHANGED vars
    BY <1>1, <1>10 DEF vars, memVars, dbVars, envVars
<1> QED
    BY <1>1, <1>3, <1>4, <1>5, <1>6, <1>7, <1>8, <1>9, <1>10 DEF Next

\* A trip outlasts everything but the operator's reset and midnight, crashes
\* and restarts included, as long as no write fails (KillSwitch.check).
THEOREM TripLasts ==
    ASSUME MaxFaults = 0
    PROVE  Spec => TrippedUntilTomorrow
<1> DEFINE Lasts == (dbTripped = today /\ today' = today /\ ~ResetSwitch) => dbTripped' = today
<1>1. Init => SwitchInv /\ MirrorInv
    BY ShapeInit, MirrorInit DEF Init, SwitchInv, SwitchSurvivesRestart
<1>2. SwitchInv /\ MirrorInv /\ [Next]_vars => (SwitchInv /\ MirrorInv)'
    BY SwitchStep, MirrorStep
<1>3. SwitchInv /\ MirrorInv /\ [Next]_vars => Lasts
    <2> SUFFICES ASSUME SwitchInv, MirrorInv, [Next]_vars,
                        dbTripped = today, today' = today, ~ResetSwitch
                 PROVE  dbTripped' = today
        OBVIOUS
    <2>1. up => KillActive
        BY DEF SwitchInv, SwitchSurvivesRestart, KillActive
    <2>2. ASSUME NEW ok \in WriteOutcomes, KillCheck(ok), up
          PROVE  dbTripped' = today
        BY <2>1, <2>2 DEF KillCheck
    <2>3. ASSUME NEW t \in Threads, UpdateTradeExit(t)
          PROVE  dbTripped' = today
        BY <2>2, <2>3 DEF UpdateTradeExit, MirrorInv
    <2>4. ASSUME NEW t \in Threads, NEW s \in Symbols, NEW o \in Offers, ExecuteSignal(t, s, o)
          PROVE  dbTripped' = today
        BY <2>2, <2>4 DEF ExecuteSignal
    <2>5. CASE CheckSwitch
        BY <2>2, <2>5 DEF CheckSwitch
    <2>6. CASE ForceTrigger
        BY <2>6 DEF ForceTrigger
    <2>7. ASSUME UNCHANGED dbTripped
          PROVE  dbTripped' = today
        BY <2>7
    <2> QED
        BY <2>3, <2>4, <2>5, <2>6, <2>7, ZenonT(30) DEF Next, EntryStep, EntryFilled, EntryRefused,
            EntryUnconfirmed, Unconfirmed, AddPosition, PersistTrade, ExitStep,
            ClosePosition, ExitFilled, ExitRefused, ExitUnconfirmed, BookExit, SaveCounters,
            ReadStats, Crash, Start, LateFill, NextDay, vars, dbVars
<1>4. SwitchInv /\ MirrorInv /\ [Next]_vars => [Lasts]_vars
    BY <1>3
<1> QED
    BY <1>1, <1>2, <1>4, PTL DEF Spec, TrippedUntilTomorrow

---------------------------------------------------------------------------
(* Concurrent approvals *)

\* Only finitely many threads can be at a given stage.
LEMMA CutFinite ==
    ASSUME NEW S
    PROVE  /\ IsFiniteSet(Cut(S))
           /\ Cardinality(Cut(S)) \in Nat
           /\ Cardinality(Cut(S)) <= Cardinality(Threads)
<1>1. Cut(S) \subseteq Threads
    BY DEF Cut
<1> QED
    BY <1>1, FS_Subset, FS_CardinalityType, CoreAssumption

\* A book holds finitely many symbols.
LEMMA HeldFinite ==
    ASSUME NEW b
    PROVE  IsFiniteSet(Held(b)) /\ Cardinality(Held(b)) \in Nat
<1>1. Held(b) \subseteq Symbols
    BY DEF Held
<1> QED
    BY <1>1, FS_Subset, FS_CardinalityType, CoreAssumption

\* A step of a thread moves only its own call, along the stages of the two
\* operations.
StageMoves ==
    {<<"idle", "idle">>, <<"idle", "send">>, <<"send", "filled">>, <<"send", "idle">>,
     <<"filled", "tracked">>, <<"tracked", "idle">>,
     <<"idle", "exitSend">>, <<"exitSend", "exitFilled">>, <<"exitSend", "idle">>,
     <<"exitFilled", "popped">>, <<"exitFilled", "counted">>, <<"popped", "counted">>,
     <<"counted", "idle">>}

\* A step of one thread leaves the other calls alone and moves its own to a next stage.
LEMMA OwnCall ==
    ASSUME ShapeOK, NEW t \in Threads, EntryStep(t) \/ ExitStep(t)
    PROVE  /\ \A u \in Threads \ {t} : call'[u] = call[u]
           /\ <<call[t].stage, call'[t].stage>> \in StageMoves
<1> DEFINE Own == /\ \A u \in Threads \ {t} : call'[u] = call[u]
                  /\ <<call[t].stage, call'[t].stage>> \in StageMoves
<1> USE DEF ShapeOK, StageMoves, Call, Idle
<1>1. ASSUME NEW s \in Symbols, NEW o \in Offers, ExecuteSignal(t, s, o)
      PROVE  Own
    BY <1>1 DEF ExecuteSignal
<1>2. ASSUME NEW d \in Slips, EntryFilled(t, d)
      PROVE  Own
    <2>1. call[t].stage = "send" /\ call'[t].stage = "filled"
        BY <1>2 DEF EntryFilled
    <2>2. \A u \in Threads \ {t} : call'[u] = call[u]
        BY <1>2 DEF EntryFilled
    <2> QED
        BY <2>1, <2>2
<1>3. ASSUME EntryRefused(t) \/ ExitRefused(t)
      PROVE  Own
    BY <1>3 DEF EntryRefused, ExitRefused
<1>4. ASSUME EntryUnconfirmed(t) \/ ExitUnconfirmed(t)
      PROVE  Own
    BY <1>4 DEF EntryUnconfirmed, ExitUnconfirmed, Unconfirmed
<1>5. ASSUME AddPosition(t)
      PROVE  Own
    BY <1>5 DEF AddPosition
<1>6. ASSUME PersistTrade(t) \/ UpdateTradeExit(t)
      PROVE  Own
    BY <1>6 DEF PersistTrade, UpdateTradeExit
<1>7. ASSUME NEW s \in Symbols, ClosePosition(t, s)
      PROVE  Own
    BY <1>7 DEF ClosePosition
<1>8. ASSUME NEW x \in ExitPrices, ExitFilled(t, x)
      PROVE  Own
    <2>1. call[t].stage = "exitSend" /\ call'[t].stage = "exitFilled"
        BY <1>8 DEF ExitFilled
    <2>2. \A u \in Threads \ {t} : call'[u] = call[u]
        BY <1>8 DEF ExitFilled
    <2> QED
        BY <2>1, <2>2
<1>9. ASSUME BookExit(t)
      PROVE  Own
    <2>1. call[t].stage = "exitFilled" /\ call'[t].stage \in {"popped", "counted"}
        BY <1>9 DEF BookExit
    <2>2. \A u \in Threads \ {t} : call'[u] = call[u]
        BY <1>9 DEF BookExit
    <2> QED
        BY <2>1, <2>2
<1>10. ASSUME SaveCounters(t)
       PROVE  Own
    BY <1>10 DEF SaveCounters
<1> QED
    BY <1>1, <1>2, <1>3, <1>4, <1>5, <1>6, <1>7, <1>8, <1>9, <1>10 DEF EntryStep, ExitStep

\* Positions held and orders on their way never outnumber the limit by more than
\* the threads beyond the first: a call is admitted on a count below the limit,
\* and each other thread has at most one order that count did not see.
LEMMA OvershootStep ==
    ASSUME MaxFaults = 0, OvershootInv, [Next]_vars
    PROVE  OvershootInv'
<1> DEFINE H == Held(dbPositions)
           C == Cut({"send", "filled"})
           Bounded == Cardinality(H') + Cardinality(C')
                          <= MaxOpenPositions + Cardinality(Threads) - 1
<1>1. MirrorInv /\ MirrorInv' /\ ShapeInv /\ ShapeOK
    BY MirrorStep DEF OvershootInv, MirrorInv, ShapeInv
<1>2. /\ IsFiniteSet(H) /\ Cardinality(H) \in Nat
      /\ IsFiniteSet(C) /\ Cardinality(C) \in Nat
    BY HeldFinite, CutFinite
<1>3. /\ Cardinality(H') \in Nat
      /\ IsFiniteSet(C') /\ Cardinality(C') \in Nat
      /\ Cardinality(C') <= Cardinality(Threads)
    <2>1. H' \subseteq Symbols /\ C' \subseteq Threads
        BY DEF Held, Cut
    <2> QED
        BY <2>1, FS_Subset, FS_CardinalityType, CoreAssumption
<1>4. /\ MaxOpenPositions \in Nat /\ Cardinality(Threads) \in Nat
      /\ Cardinality(H) + Cardinality(C) <= MaxOpenPositions + Cardinality(Threads) - 1
    BY FS_CardinalityType, LimitsAssumption, CoreAssumption DEF OvershootInv
<1> SUFFICES Bounded
    BY <1>1 DEF OvershootInv
<1>5. ASSUME H' \subseteq H, C' \subseteq C
      PROVE  Bounded
    <2>1. Cardinality(H') <= Cardinality(H) /\ Cardinality(C') <= Cardinality(C)
        BY <1>2, <1>5, FS_Subset
    <2> HIDE DEF H, C
    <2> QED
        BY <1>2, <1>3, <1>4, <2>1
<1>6. ASSUME NEW t \in Threads, NEW s \in Symbols, NEW o \in Offers, ExecuteSignal(t, s, o)
      PROVE  Bounded
    <2>1. H' = H
        BY <1>6 DEF ExecuteSignal, Held
    <2>2. CASE Accepts(s, o)
        <3>1. Cardinality(H) < MaxOpenPositions
            BY <1>1, <1>6, <2>2 DEF ExecuteSignal, Accepts, ValidateOrder, MirrorInv
        <3> HIDE DEF H, C
        <3> QED
            BY <1>2, <1>3, <1>4, <2>1, <3>1
    <2>3. CASE ~Accepts(s, o)
        BY <1>5, <1>6, <2>1, <2>3 DEF ExecuteSignal, Cut
    <2> QED
        BY <2>2, <2>3
<1>7. ASSUME NEW t \in Threads, AddPosition(t)
      PROVE  Bounded
    <2>1. H' \subseteq H \cup {call[t].sym}
        BY <1>1, <1>7 DEF AddPosition, Held, ShapeOK
    <2>2. t \in C /\ C' = C \ {t}
        BY <1>1, <1>7 DEF AddPosition, Cut, ShapeOK, Call
    <2>3. Cardinality(C') = Cardinality(C) - 1
        BY <1>2, <2>2, FS_RemoveElement
    <2>4. Cardinality(H') <= Cardinality(H) + 1
        <3>1. /\ IsFiniteSet(H \cup {call[t].sym})
              /\ Cardinality(H \cup {call[t].sym}) <= Cardinality(H) + 1
            BY <1>2, FS_AddElement
        <3>2. Cardinality(H') <= Cardinality(H \cup {call[t].sym})
            BY <2>1, <3>1, FS_Subset
        <3>3. Cardinality(H \cup {call[t].sym}) \in Nat
            BY <3>1, FS_CardinalityType
        <3> HIDE DEF H, C
        <3> QED
            BY <1>2, <1>3, <3>1, <3>2, <3>3
    <2> HIDE DEF H, C
    <2> QED
        BY <1>2, <1>3, <1>4, <2>3, <2>4
<1>8. ASSUME NEW t \in Threads,
             \/ \E d \in Slips : EntryFilled(t, d)
             \/ EntryRefused(t) \/ EntryUnconfirmed(t) \/ PersistTrade(t)
      PROVE  Bounded
    <2>1. H' = H
        BY <1>8 DEF EntryFilled, EntryRefused, EntryUnconfirmed, Unconfirmed, PersistTrade,
            Held, dbVars
    <2>2. C' \subseteq C
        <3>1. /\ \A u \in Threads \ {t} : call'[u] = call[u]
              /\ <<call[t].stage, call'[t].stage>> \in StageMoves
            BY <1>1, <1>8, OwnCall DEF EntryStep
        <3>2. call[t].stage \in {"send", "tracked"}
            BY <1>8 DEF EntryFilled, EntryRefused, EntryUnconfirmed, Unconfirmed, PersistTrade
        <3> QED
            BY <3>1, <3>2 DEF Cut, StageMoves
    <2> QED
        BY <1>5, <2>1, <2>2
<1>9. ASSUME NEW t \in Threads, ExitStep(t)
      PROVE  Bounded
    <2>1. H' \subseteq H
        BY <1>1, <1>9 DEF ExitStep, ClosePosition, ExitFilled, ExitRefused, ExitUnconfirmed,
            Unconfirmed, BookExit, SaveCounters, UpdateTradeExit, Held, dbVars, ShapeOK
    <2>2. C' \subseteq C
        <3>1. /\ \A u \in Threads \ {t} : call'[u] = call[u]
              /\ <<call[t].stage, call'[t].stage>> \in StageMoves
            BY <1>1, <1>9, OwnCall
        <3>2. call[t].stage \in {"exitSend", "exitFilled", "popped", "counted"}
                  \/ (call[t].stage = "idle" /\ call'[t].stage = "exitSend")
            <4>1. ASSUME NEW s \in Symbols, ClosePosition(t, s)
                  PROVE  call[t].stage = "idle" /\ call'[t].stage = "exitSend"
                BY <1>1, <4>1 DEF ClosePosition, ShapeOK, Idle
            <4> QED
                BY <1>9, <4>1 DEF ExitStep, ExitFilled, ExitRefused, ExitUnconfirmed,
                    Unconfirmed, BookExit, SaveCounters, UpdateTradeExit
        <3> QED
            BY <3>1, <3>2 DEF Cut, StageMoves
    <2> QED
        BY <1>5, <2>1, <2>2
<1>10. CASE ForceTrigger \/ ResetSwitch \/ CheckSwitch \/ ReadStats
    BY <1>5, <1>10 DEF ForceTrigger, ResetSwitch, CheckSwitch, ReadStats, Held, Cut
<1>11. CASE Crash
    BY <1>5, <1>11 DEF Crash, Held, Cut, Idle, dbVars
<1>12. CASE Start
    BY <1>5, <1>12 DEF Start, Held, Cut
<1>13. CASE NextDay \/ (\E o \in resting : LateFill(o))
    BY <1>5, <1>13 DEF NextDay, LateFill, Held, Cut, dbVars
<1>14. CASE UNCHANGED vars
    BY <1>5, <1>14 DEF vars, Held, Cut, dbVars
<1> QED
    BY <1>6, <1>7, <1>8, <1>9, <1>10, <1>11, <1>12, <1>13, <1>14 DEF Next, EntryStep

\* Nothing is held and nothing is under way at the start.
LEMMA OvershootInit == Init => OvershootInv
<1> SUFFICES ASSUME Init PROVE OvershootInv
    OBVIOUS
<1>1. Held(dbPositions) = {} /\ Cut({"send", "filled"}) = {}
    BY DEF Init, Held, Cut, Idle
<1>2. Cardinality(Threads) \in Nat /\ Cardinality(Threads) # 0
    BY FS_CardinalityType, FS_EmptySet, CoreAssumption
<1> QED
    BY <1>1, <1>2, MirrorInit, FS_EmptySet, LimitsAssumption DEF OvershootInv

\* The bound on open positions under concurrent approvals: check 4 can be
\* outrun by one position for each thread beyond the first, never more.
THEOREM OvershootBound ==
    ASSUME MaxFaults = 0
    PROVE  Spec => []PositionOvershootBounded
<1>1. Init => OvershootInv
    BY OvershootInit
<1>2. OvershootInv /\ [Next]_vars => OvershootInv'
    BY OvershootStep
<1>3. OvershootInv => PositionOvershootBounded
    <2> SUFFICES ASSUME OvershootInv PROVE PositionOvershootBounded
        OBVIOUS
    <2>1. Book = dbPositions
        BY DEF OvershootInv, MirrorInv, Book
    <2>2. /\ Cardinality(Held(dbPositions)) \in Nat
          /\ Cardinality(Cut({"send", "filled"})) \in Nat
          /\ Cardinality(Threads) \in Nat
        BY HeldFinite, CutFinite, FS_CardinalityType, CoreAssumption
    <2> QED
        BY <2>1, <2>2, LimitsAssumption DEF OvershootInv, PositionOvershootBounded
<1> QED
    BY <1>1, <1>2, <1>3, PTL DEF Spec

\* With one caller at a time check 4 is exact: max_open_positions holds.
THEOREM SerialPositionLimit ==
    ASSUME MaxFaults = 0, Cardinality(Threads) = 1
    PROVE  Spec => []PositionLimit
<1>1. PositionOvershootBounded => PositionLimit
    BY LimitsAssumption DEF PositionOvershootBounded, PositionLimit
<1> QED
    BY <1>1, OvershootBound, PTL

---------------------------------------------------------------------------
(* The book agrees with the broker *)

\* The steps that are not part of a call leave the serial invariant alone.
LEMMA SerialQuiet ==
    ASSUME SerialCore,
           UNCHANGED <<call, dbPositions, trades, nextOrder, holding, torn>>,
           resting' \subseteq resting
    PROVE  SerialCore'
<1> USE DEF SerialCore
<1>1. CallMatchesRows'
    BY DEF CallMatchesRows
<1>2. OrdersDistinct'
    BY DEF OrdersDistinct
<1>3. RowsAreLive'
    BY DEF RowsAreLive, StaleRow
<1>4. RestingIsTorn'
    BY DEF RestingIsTorn
<1>5. RowsAgree'
    BY DEF RowsAgree
<1> QED
    BY <1>1, <1>2, <1>3, <1>4, <1>5

\* A call that ends without a fill in hand leaves nothing to agree on.
LEMMA SerialEnd ==
    ASSUME ShapeInv, SerialCore, NEW w, Threads = {w},
           call' = [call EXCEPT ![w] = Idle],
           UNCHANGED <<dbPositions, nextOrder, holding>>,
           torn \subseteq torn',
           \A o \in resting' : o \in resting \/ o.sym \in torn',
           trades' = trades \/ \E i : trades' = [trades EXCEPT ![i].st = "open"],
           call[w].stage \in {"filled", "exitFilled"} => call[w].sym \in torn'
    PROVE  SerialCore'
<1> USE DEF SerialCore
<1>0. call'[w] = Idle /\ call[w] \in Call
    BY DEF ShapeInv, ShapeOK
<1>1. CallMatchesRows'
    BY <1>0 DEF CallMatchesRows, Idle
<1>2. OrdersDistinct'
    BY <1>0, BoundsNat DEF OrdersDistinct, Idle, NoPosition, ShapeInv, ShapeOK
<1>3. RowsAreLive'
    <2>1. \A i \in OrderIds : trades'[i].st = "closed" => trades[i].st = "closed"
        BY DEF ShapeInv, ShapeOK, Trade
    <2>2. \A s \in Symbols : dbPositions[s].order \in OrderIds \cup {0}
        BY DEF ShapeInv, ShapeOK, Position
    <2> QED
        BY <1>0, <2>1, <2>2 DEF RowsAreLive, StaleRow, Idle
<1>4. RestingIsTorn'
    BY DEF RestingIsTorn
<1>5. RowsAgree'
    BY <1>0 DEF RowsAgree, Idle
<1> QED
    BY <1>1, <1>2, <1>3, <1>4, <1>5

\* The steps of execute_signal keep the serial invariant.
LEMMA SerialEntry ==
    ASSUME MaxFaults = 0, MirrorInv, SerialCore, NEW w, Threads = {w}, EntryStep(w)
    PROVE  SerialCore'
<1> DEFINE c == call[w]
<1>1. ShapeInv /\ ShapeOK /\ c \in Call /\ faults = 0
    BY DEF MirrorInv, ShapeInv, ShapeOK
<1>2. dbPositions \in [Symbols -> Position] /\ nextOrder \in Nat \ {0}
    BY <1>1 DEF ShapeOK
<1> USE DEF SerialCore
<1>3. ASSUME NEW s \in Symbols, NEW o \in Offers, ExecuteSignal(w, s, o)
      PROVE  SerialCore'
    <2>1. CASE Accepts(s, o)
        <3> DEFINE p == [dir |-> o.dir, entry |-> o.entry, order |-> 0,
                         qty |-> CalculatePositionSize(o.entry, o.stop)]
        <3>1. /\ call' = [call EXCEPT ![w] = [Idle EXCEPT !.stage = "send", !.sym = s, !.pos = p]]
              /\ UNCHANGED <<dbPositions, trades, nextOrder, holding, torn, resting>>
              /\ c.stage = "idle"
            BY <1>3, <2>1 DEF ExecuteSignal, brokerVars, histVars
        <3>2. /\ call'[w].stage = "send" /\ call'[w].sym = s /\ call'[w].pos.order = 0
            BY <1>1, <3>1 DEF Idle, ShapeOK
        <3>3. dbPositions[s] = NoPosition
            BY <1>3, <2>1 DEF ExecuteSignal, Accepts, HasPosition, MirrorInv
        <3>4. CallMatchesRows'
            BY <3>1, <3>2, <3>3 DEF CallMatchesRows
        <3>5. OrdersDistinct'
            BY <1>2, <3>1, <3>2 DEF OrdersDistinct
        <3>6. RowsAreLive'
            BY <3>1, <3>2 DEF RowsAreLive, StaleRow
        <3>7. RestingIsTorn'
            BY <3>1 DEF RestingIsTorn
        <3>8. RowsAgree'
            BY <3>1, <3>2 DEF RowsAgree
        <3> QED
            BY <3>4, <3>5, <3>6, <3>7, <3>8
    <2>2. CASE ~Accepts(s, o)
        BY <1>3, <2>2, SerialQuiet DEF ExecuteSignal, brokerVars, histVars
    <2> QED
        BY <2>1, <2>2
<1>4. ASSUME NEW d \in Slips, EntryFilled(w, d)
      PROVE  SerialCore'
    <2> DEFINE p == [c.pos EXCEPT !.entry = c.pos.entry + d, !.order = nextOrder]
    <2>1. /\ call' = [call EXCEPT ![w] = [c EXCEPT !.stage = "filled", !.pos = p]]
          /\ UNCHANGED <<dbPositions, trades, torn, resting>>
          /\ nextOrder' = nextOrder + 1
          /\ nextOrder \in OrderIds
          /\ holding' = [holding EXCEPT ![c.sym] = @ + c.pos.dir * c.pos.qty]
          /\ c.stage = "send"
        <3>1. c.stage = "send" /\ nextOrder \in OrderIds
            BY <1>2, <1>4, BoundsNat DEF EntryFilled, OrderIds
        <3>2. call' = [call EXCEPT ![w] = [c EXCEPT !.stage = "filled", !.pos = p]]
            BY <1>1, <1>4 DEF EntryFilled, Call, Position
        <3> QED
            BY <1>4, <3>1, <3>2 DEF EntryFilled, dbVars, histVars
    <2>2. /\ call'[w].stage = "filled" /\ call'[w].sym = c.sym /\ call'[w].pos.order = nextOrder
          /\ call'[w].pos.dir = c.pos.dir /\ call'[w].pos.qty = c.pos.qty
          /\ c.sym \in Symbols
        BY <1>1, <2>1 DEF ShapeInv, ShapeOK, Call, Position
    <2>3. CallMatchesRows'
        BY <1>2, <2>1, <2>2 DEF CallMatchesRows
    <2>4. OrdersDistinct'
        <3>1. \A s \in Symbols : dbPositions[s].order \in Nat
            BY <1>2 DEF Position, OrderIds
        <3> QED
            BY <1>2, <2>1, <2>2, <3>1 DEF OrdersDistinct
    <2>5. RowsAreLive'
        BY <1>2, <2>1, <2>2 DEF RowsAreLive, StaleRow, OrderIds
    <2>6. RestingIsTorn'
        BY <2>1 DEF RestingIsTorn
    <2>7. RowsAgree'
        <3>1. c.sym \notin torn => holding[c.sym] = 0
            BY <2>1, <2>2 DEF RowsAgree, CallMatchesRows, NoPosition, Signed, Buy
        <3>2. c.sym \notin torn => holding'[c.sym] = Signed(call'[w].pos)
            BY <1>1, <2>1, <2>2, <3>1
                DEF Signed, ShapeOK, Call, Position, Directions, Buy, Sell
        <3> QED
            BY <1>1, <2>1, <2>2, <3>2 DEF RowsAgree, ShapeOK
    <2> QED
        BY <2>3, <2>4, <2>5, <2>6, <2>7
<1>5. ASSUME EntryRefused(w)
      PROVE  SerialCore'
    BY <1>1, <1>5, SerialEnd DEF EntryRefused, dbVars, brokerVars, histVars
<1>6. ASSUME EntryUnconfirmed(w)
      PROVE  SerialCore'
    <2>1. /\ call' = [call EXCEPT ![w] = Idle]
          /\ UNCHANGED <<dbPositions, trades, nextOrder, holding>>
          /\ c.stage = "send"
          /\ torn \subseteq torn'
        BY <1>6 DEF EntryUnconfirmed, Unconfirmed, dbVars
    <2>2. \A o \in resting' : o \in resting \/ o.sym \in torn'
        BY <1>6 DEF EntryUnconfirmed, Unconfirmed
    <2> QED
        BY <1>1, <2>1, <2>2, SerialEnd
<1>7. ASSUME AddPosition(w)
      PROVE  SerialCore'
    <2>1. c.stage = "filled" /\ c.sym \in Symbols /\ dbPositions[c.sym] = NoPosition
          /\ c.pos.order # 0
        BY <1>7 DEF AddPosition, MirrorInv, ShapeInv, CallMatchesRows
    <2>2. dbPositions' = [dbPositions EXCEPT ![c.sym] = c.pos]
        <3>1. ~HasPosition(c.sym)
            BY <1>7, <2>1 DEF AddPosition, MirrorInv, HasPosition
        <3>2. PICK ok \in WriteOutcomes :
                  /\ CountFault(ok)
                  /\ dbPositions' = IF ok THEN [dbPositions EXCEPT ![c.sym] = c.pos]
                                          ELSE dbPositions
            BY <1>7, <3>1 DEF AddPosition
        <3> QED
            BY <1>1, <3>2, NoFault
    <2>3. /\ call' = [call EXCEPT ![w].stage = "tracked"]
          /\ UNCHANGED <<trades, nextOrder, holding, torn, resting>>
        BY <1>7 DEF AddPosition, brokerVars, histVars
    <2>4. call'[w].stage = "tracked" /\ call'[w].sym = c.sym /\ call'[w].pos = c.pos
        BY <1>1, <2>3 DEF ShapeOK, Call
    <2>5. /\ dbPositions'[c.sym] = c.pos
          /\ \A s \in Symbols \ {c.sym} : dbPositions'[s] = dbPositions[s]
        BY <1>2, <2>1, <2>2
    <2>6. CallMatchesRows'
        BY <2>1, <2>4, <2>5 DEF CallMatchesRows
    <2>7. OrdersDistinct'
        BY <2>1, <2>3, <2>4, <2>5 DEF OrdersDistinct
    <2>8. RowsAreLive'
        BY <2>1, <2>3, <2>4, <2>5 DEF RowsAreLive, StaleRow
    <2>9. RestingIsTorn'
        BY <2>3 DEF RestingIsTorn
    <2>10. RowsAgree'
        BY <2>1, <2>3, <2>4, <2>5 DEF RowsAgree
    <2> QED
        BY <2>6, <2>7, <2>8, <2>9, <2>10
<1>8. ASSUME PersistTrade(w)
      PROVE  SerialCore'
    <2>1. trades' = trades \/ \E i : trades' = [trades EXCEPT ![i].st = "open"]
        BY <1>8 DEF PersistTrade
    <2> QED
        BY <1>1, <1>8, <2>1, SerialEnd DEF PersistTrade, brokerVars
<1> QED
    BY <1>3, <1>4, <1>5, <1>6, <1>7, <1>8 DEF EntryStep

\* The steps of close_position keep the serial invariant.
LEMMA SerialExit ==
    ASSUME MaxFaults = 0, MirrorInv, SerialCore, NEW w, Threads = {w}, ExitStep(w)
    PROVE  SerialCore'
<1> DEFINE c == call[w]
<1>1. ShapeInv /\ ShapeOK /\ c \in Call /\ c.pos \in Position /\ faults = 0
    BY DEF MirrorInv, ShapeInv, ShapeOK, Call
<1>2. dbPositions \in [Symbols -> Position] /\ nextOrder \in Nat \ {0}
    BY <1>1 DEF ShapeOK
<1> USE DEF SerialCore
<1>3. ASSUME NEW s \in Symbols, ClosePosition(w, s)
      PROVE  SerialCore'
    <2>1. /\ call' = [call EXCEPT ![w] = [Idle EXCEPT !.stage = "exitSend", !.sym = s,
                                                     !.pos = positions[s]]]
          /\ UNCHANGED <<dbPositions, trades, nextOrder, holding, torn, resting>>
          /\ c.stage = "idle"
        BY <1>3 DEF ClosePosition, dbVars, brokerVars, histVars
    <2>2. /\ call'[w].stage = "exitSend" /\ call'[w].sym = s
          /\ call'[w].pos = dbPositions[s] /\ dbPositions[s] # NoPosition
        BY <1>1, <1>3, <2>1 DEF ClosePosition, Idle, ShapeOK, MirrorInv, HasPosition
    <2>3. CallMatchesRows'
        BY <2>1, <2>2 DEF CallMatchesRows
    <2>4. OrdersDistinct'
        BY <1>2, <2>1, <2>2 DEF OrdersDistinct
    <2>5. RowsAreLive'
        BY <2>1, <2>2 DEF RowsAreLive, StaleRow
    <2>6. RestingIsTorn'
        BY <2>1 DEF RestingIsTorn
    <2>7. RowsAgree'
        BY <2>1, <2>2 DEF RowsAgree
    <2> QED
        BY <2>3, <2>4, <2>5, <2>6, <2>7
<1>4. ASSUME NEW x \in ExitPrices, ExitFilled(w, x)
      PROVE  SerialCore'
    <2>1. /\ c.stage = "exitSend"
          /\ holding' = [holding EXCEPT ![c.sym] = @ - c.pos.dir * c.pos.qty]
          /\ UNCHANGED <<dbPositions, trades, nextOrder, torn, resting>>
        BY <1>4 DEF ExitFilled, dbVars
    <2>2. call'[w].stage = "exitFilled" /\ call'[w].sym = c.sym /\ call'[w].pos = c.pos
        BY <1>1, <1>4 DEF ExitFilled, ShapeOK, Call
    <2>3. c.sym \in Symbols /\ dbPositions[c.sym] = c.pos /\ c.pos # NoPosition
        BY <1>1, <2>1 DEF ShapeInv, CallMatchesRows
    <2>4. CallMatchesRows'
        BY <2>1, <2>2, <2>3 DEF CallMatchesRows
    <2>5. OrdersDistinct'
        BY <2>1, <2>2 DEF OrdersDistinct
    <2>6. RowsAreLive'
        BY <2>1, <2>2 DEF RowsAreLive, StaleRow
    <2>7. RestingIsTorn'
        BY <2>1 DEF RestingIsTorn
    <2>8. RowsAgree'
        <3>1. c.sym \notin torn => holding[c.sym] = Signed(c.pos)
            BY <2>1, <2>3 DEF RowsAgree
        <3>2. c.sym \notin torn => holding'[c.sym] = 0
            BY <1>1, <2>1, <2>3, <3>1 DEF Signed, ShapeOK, Position, Directions, Buy, Sell
        <3> QED
            BY <1>1, <2>1, <2>2, <2>3, <3>2 DEF RowsAgree, ShapeOK
    <2> QED
        BY <2>4, <2>5, <2>6, <2>7, <2>8
<1>5. ASSUME ExitRefused(w)
      PROVE  SerialCore'
    BY <1>1, <1>5, SerialEnd DEF ExitRefused, dbVars, brokerVars, histVars
<1>6. ASSUME ExitUnconfirmed(w)
      PROVE  SerialCore'
    <2>1. /\ call' = [call EXCEPT ![w] = Idle]
          /\ UNCHANGED <<dbPositions, trades, nextOrder, holding>>
          /\ c.stage = "exitSend"
          /\ torn \subseteq torn'
        BY <1>6 DEF ExitUnconfirmed, Unconfirmed, dbVars
    <2>2. \A o \in resting' : o \in resting \/ o.sym \in torn'
        BY <1>6 DEF ExitUnconfirmed, Unconfirmed
    <2> QED
        BY <1>1, <2>1, <2>2, SerialEnd
<1>7. ASSUME BookExit(w)
      PROVE  SerialCore'
    <2>1. /\ c.stage = "exitFilled" /\ c.sym \in Symbols
          /\ dbPositions[c.sym] = c.pos /\ c.pos # NoPosition
        BY <1>1, <1>7 DEF BookExit, ShapeInv, CallMatchesRows
    <2>2. HasPosition(c.sym) /\ positions = dbPositions
        BY <1>1, <2>1 DEF MirrorInv, HasPosition
    <2>3. dbPositions' = [dbPositions EXCEPT ![c.sym] = NoPosition]
        <3>1. PICK ok \in WriteOutcomes :
                  /\ CountFault(ok)
                  /\ dbPositions' = IF ok THEN [dbPositions EXCEPT ![c.sym] = NoPosition]
                                          ELSE dbPositions
            BY <1>7, <2>2 DEF BookExit
        <3> QED
            BY <1>1, <3>1, NoFault
    <2>4. /\ call'[w].stage = "popped" /\ call'[w].sym = c.sym /\ call'[w].pos = c.pos
          /\ UNCHANGED <<trades, nextOrder, holding, torn, resting>>
        BY <1>1, <1>7, <2>2 DEF BookExit, ShapeOK, Call, brokerVars, histVars
    <2>5. /\ dbPositions'[c.sym] = NoPosition
          /\ \A s \in Symbols \ {c.sym} : dbPositions'[s] = dbPositions[s]
        BY <1>2, <2>1, <2>3
    <2>6. CallMatchesRows'
        BY <2>4, <2>5 DEF CallMatchesRows
    <2>7. OrdersDistinct'
        BY <1>2, <2>1, <2>4, <2>5 DEF OrdersDistinct, NoPosition
    <2>8. RowsAreLive'
        BY <2>4, <2>5 DEF RowsAreLive, StaleRow, NoPosition
    <2>9. RestingIsTorn'
        BY <2>4 DEF RestingIsTorn
    <2>10. RowsAgree'
        BY <2>1, <2>4, <2>5 DEF RowsAgree, Signed, NoPosition, Buy
    <2> QED
        BY <2>6, <2>7, <2>8, <2>9, <2>10
<1>8. ASSUME SaveCounters(w)
      PROVE  SerialCore'
    <2>1. /\ c.stage = "popped"
          /\ call'[w].stage = "counted" /\ call'[w].sym = c.sym /\ call'[w].pos = c.pos
          /\ UNCHANGED <<dbPositions, trades, nextOrder, holding, torn, resting>>
        BY <1>1, <1>8 DEF SaveCounters, ShapeOK, Call, brokerVars, histVars
    <2> QED
        BY <2>1 DEF CallMatchesRows, OrdersDistinct, RowsAreLive, StaleRow, RestingIsTorn,
            RowsAgree
<1>9. ASSUME UpdateTradeExit(w)
      PROVE  SerialCore'
    <2>1. /\ c.stage = "counted"
          /\ call' = [call EXCEPT ![w] = Idle]
          /\ UNCHANGED <<dbPositions, nextOrder, holding, torn, resting>>
        BY <1>9 DEF UpdateTradeExit, brokerVars
    <2>2. call'[w] = Idle
        BY <1>1, <2>1 DEF ShapeOK
    <2>3. \A i \in OrderIds : trades'[i].st = "closed" => trades[i].st = "closed" \/ i = c.pos.order
        BY <1>1, <1>9 DEF UpdateTradeExit, ShapeOK
    <2>4. CallMatchesRows'
        BY <2>1, <2>2 DEF CallMatchesRows, Idle
    <2>5. OrdersDistinct'
        BY <1>2, <2>1, <2>2 DEF OrdersDistinct, Idle, NoPosition
    <2>6. RowsAreLive'
        <3>1. \A s \in Symbols : dbPositions[s].order \in OrderIds \cup {0}
            BY <1>2 DEF Position
        <3>2. c.pos.order < nextOrder /\ c.pos.order \in Nat
            BY <1>1 DEF OrdersDistinct, Position, OrderIds
        <3> QED
            BY <1>2, <2>1, <2>2, <2>3, <3>1, <3>2
                DEF RowsAreLive, StaleRow, OrdersDistinct, Idle, OrderIds
    <2>7. RestingIsTorn'
        BY <2>1 DEF RestingIsTorn
    <2>8. RowsAgree'
        BY <2>1, <2>2 DEF RowsAgree, Idle
    <2> QED
        BY <2>4, <2>5, <2>6, <2>7, <2>8
<1> QED
    BY <1>3, <1>4, <1>5, <1>6, <1>7, <1>8, <1>9 DEF ExitStep

\* Every step keeps the serial invariant.
LEMMA SerialStep ==
    ASSUME MaxFaults = 0, NEW w, Threads = {w}, MirrorInv, SerialCore, [Next]_vars
    PROVE  SerialCore'
<1>1. ShapeInv /\ ShapeOK
    BY DEF MirrorInv, ShapeInv
<1>2. ASSUME NEW t \in Threads, EntryStep(t) \/ ExitStep(t)
      PROVE  SerialCore'
    BY <1>2, SerialEntry, SerialExit
<1>3. CASE ForceTrigger \/ ResetSwitch \/ CheckSwitch \/ ReadStats
    BY <1>3, SerialQuiet DEF ForceTrigger, ResetSwitch, CheckSwitch, ReadStats,
        brokerVars, histVars
<1>4. CASE Crash
    <2>1. /\ call' = [call EXCEPT ![w] = Idle]
          /\ UNCHANGED <<dbPositions, trades, nextOrder, holding, resting>>
          /\ torn \subseteq torn'
        BY <1>1, <1>4 DEF Crash, dbVars, brokerVars, ShapeOK
    <2>2. call[w].stage \in {"filled", "exitFilled"} => call[w].sym \in torn'
        BY <1>4 DEF Crash, Cut
    <2> QED
        BY <1>1, <2>1, <2>2, SerialEnd
<1>5. CASE Start
    <2>1. dbPositions' = dbPositions
        <3>1. \A s \in Symbols : ~StaleRow(s)
            BY DEF SerialCore, RowsAreLive
        <3>2. [s \in Symbols |-> IF StaleRow(s) THEN NoPosition ELSE dbPositions[s]] = dbPositions
            BY <1>1, <3>1 DEF ShapeOK
        <3> QED
            BY <1>5, <3>2 DEF Start
    <2> QED
        BY <1>5, <2>1, SerialQuiet DEF Start, brokerVars, histVars
<1>6. ASSUME NEW o \in resting, LateFill(o)
      PROVE  SerialCore'
    <2>1. /\ UNCHANGED <<call, dbPositions, trades, nextOrder, torn>>
          /\ resting' \subseteq resting
          /\ \A s \in Symbols \ {o.sym} : holding'[s] = holding[s]
        BY <1>1, <1>6 DEF LateFill, dbVars, histVars, ShapeOK
    <2>2. o.sym \in torn
        BY DEF SerialCore, RestingIsTorn
    <2> QED
        BY <2>1, <2>2 DEF SerialCore, CallMatchesRows, OrdersDistinct, RowsAreLive, StaleRow,
            RestingIsTorn, RowsAgree
<1>7. CASE NextDay
    BY <1>7, SerialQuiet DEF NextDay, dbVars
<1>8. CASE UNCHANGED vars
    BY <1>8, SerialQuiet DEF vars, dbVars, brokerVars, histVars
<1> QED
    BY <1>2, <1>3, <1>4, <1>5, <1>6, <1>7, <1>8 DEF Next

\* It holds at the start: nothing is held, resting or under way.
LEMMA SerialInit == Init => SerialCore
<1>1. OrderIds \subseteq Nat \ {0}
    BY BoundsNat DEF OrderIds
<1> QED
    BY <1>1 DEF Init, SerialCore, CallMatchesRows, OrdersDistinct, RowsAreLive, StaleRow,
        RestingIsTorn, RowsAgree, Idle, NoPosition, NoTrade, Signed, Buy

\* With one caller at a time the book and the broker agree in every state, the
\* windows between a fill and its record included (execute_signal,
\* close_position, add_position, _load_from_db); only orders reported failed
\* though accepted, and crashes inside those windows, can part them.
THEOREM BookAgrees ==
    ASSUME MaxFaults = 0, NEW w, Threads = {w}
    PROVE  Spec => []BookAgreesWithBroker
<1>1. Init => MirrorInv /\ SerialCore
    BY MirrorInit, SerialInit
<1>2. MirrorInv /\ SerialCore /\ [Next]_vars => (MirrorInv /\ SerialCore)'
    BY MirrorStep, SerialStep
<1>3. MirrorInv /\ SerialCore => BookAgreesWithBroker
    <2> SUFFICES ASSUME MirrorInv, SerialCore, NEW s \in Symbols \ torn
                 PROVE  \/ /\ InFlight(s) = {}
                           /\ holding[s] = Signed(Book[s])
                        \/ \E t \in At(s, "filled") :
                              /\ Book[s] = NoPosition
                              /\ holding[s] = Signed(call[t].pos)
                        \/ \E t \in At(s, "exitFilled") :
                              /\ Book[s] = call[t].pos
                              /\ holding[s] = 0
        BY DEF BookAgreesWithBroker
    <2>1. Book = dbPositions
        BY DEF MirrorInv, Book
    <2> QED
        BY <2>1 DEF SerialCore, RowsAgree, CallMatchesRows, InFlight, At
<1> QED
    BY <1>1, <1>2, <1>3, PTL DEF Spec

---------------------------------------------------------------------------
(* The day's P&L *)

\* A step after which the day's P&L reads the same: at most it has been rolled
\* over to today, and a roll-over is saved.
Rolls ==
    /\ UNCHANGED <<up, today, bookedPnl, pnlTorn>>
    /\ RolledPnl' = RolledPnl
    /\ currentDate' \in {currentDate, today}
    /\ \/ dbCounters' = dbCounters
       \/ up /\ currentDate # today /\ dbCounters' = [pnl |-> 0, day |-> today]

\* Reading the day's P&L, and evaluating the switch, roll it over at most.
LEMMA CheckRolls ==
    ASSUME MaxFaults = 0, faults = 0, up, UNCHANGED <<up, today, bookedPnl, pnlTorn>>,
           NEW ok \in WriteOutcomes, CountFault(ok), DayReset(ok) \/ KillCheck(ok)
    PROVE  Rolls
<1>1. ok = TRUE
    BY NoFault
<1>2. DayReset(ok) => Rolls
    BY <1>1 DEF DayReset, Rolls, RolledPnl
<1>3. KillCheck(ok) /\ ~DayReset(ok) => UNCHANGED <<pnlToday, currentDate, dbCounters>>
    BY DEF KillCheck
<1>4. UNCHANGED <<pnlToday, currentDate, dbCounters>> => Rolls
    BY DEF Rolls, RolledPnl
<1> QED
    BY <1>2, <1>3, <1>4

\* A step that only rolls the P&L over, closes no trade and leaves a call short
\* of its exit fill keeps CountersCore; an order goes to the broker only when
\* the P&L allows it.
LEMMA CountersQuiet ==
    ASSUME TypeOK, NEW w, Threads = {w}, CountersCore, Rolls,
           \A i \in OrderIds : /\ trades'[i].day = trades[i].day
                               /\ trades'[i].st = "closed" => trades[i].st = "closed",
           \/ call' = call
           \/ /\ call[w].stage \notin {"exitFilled", "popped"}
              /\ call'[w].stage \notin {"exitFilled", "popped", "counted", "send"}
           \/ /\ call[w].stage = "idle" /\ up
              /\ call'[w].stage = "send"
              /\ RolledPnl > -MaxDailyLoss
    PROVE  CountersCore'
<1>1. /\ today \in Nat /\ currentDate \in Nat /\ dbCounters.day \in Nat
      /\ bookedPnl \in Int /\ RolledPnl \in Int /\ dbCounters.pnl \in Int
      /\ \A i \in OrderIds : trades[i].day \in Nat
    BY BoundsNat DEF TypeOK, ShapeOK, Days, RolledPnl, Trade
<1>2. call[w] \in Call /\ Pending(w) \in Int
    BY DEF TypeOK, ShapeOK, Call, Pending
<1>3. DatesPast'
    BY <1>1 DEF CountersCore, DatesPast, Rolls
<1>4. Pending(w)' = Pending(w)
    BY DEF Pending
<1>5. (up /\ ~pnlTorn)' => RolledPnl' = bookedPnl' - Pending(w)'
    BY <1>4 DEF CountersCore, Rolls
<1>6. (call[w].stage # "popped" /\ ~pnlTorn)' => SavedPnl' = bookedPnl' - Pending(w)'
    <2>1. CASE dbCounters' = dbCounters
        BY <1>4, <2>1 DEF CountersCore, Rolls, SavedPnl
    <2>2. CASE up /\ currentDate # today /\ dbCounters' = [pnl |-> 0, day |-> today]
        <3>1. SavedPnl' = 0 /\ RolledPnl = 0
            BY <2>2 DEF Rolls, SavedPnl, RolledPnl
        <3> QED
            BY <1>4, <2>2, <3>1 DEF CountersCore, Rolls
    <2> QED
        BY <2>1, <2>2 DEF Rolls
<1>7. /\ (call[w].stage = "popped")' => currentDate' = today'
      /\ (call[w].stage = "counted")' => dbCounters'.day = today'
    BY DEF CountersCore, Rolls
<1>8. (call[w].stage = "exitFilled")' =>
          call'[w].pnl = RealizedPnl(call'[w].pos.dir, call'[w].pos.qty,
                                     call'[w].pos.entry, call'[w].price)
    BY DEF CountersCore
<1>9. (call[w].stage = "send" /\ ~pnlTorn)' => bookedPnl' > -MaxDailyLoss
    <2>1. CASE call' = call
        BY <2>1 DEF CountersCore, Rolls
    <2>2. CASE call[w].stage = "idle" /\ up /\ RolledPnl > -MaxDailyLoss
        <3>1. Pending(w) = 0
            BY <2>2 DEF Pending
        <3> QED
            BY <1>1, <2>2, <3>1 DEF CountersCore, Rolls
    <2>3. CASE call'[w].stage \notin {"exitFilled", "popped", "counted", "send"}
        BY <2>3
    <2> QED
        BY <2>1, <2>2, <2>3
<1> QED
    BY <1>3, <1>5, <1>6, <1>7, <1>8, <1>9 DEF CountersCore

\* The steps of execute_signal keep the P&L and the loss limit.
LEMMA CountersEntry ==
    ASSUME MaxFaults = 0, TypeOK, MirrorInv, CountersCore, NEW w, Threads = {w}, EntryStep(w)
    PROVE  CountersCore'
<1>1. ShapeInv /\ ShapeOK /\ faults = 0 /\ call[w] \in Call
    BY DEF MirrorInv, ShapeInv, ShapeOK
<1>2. UNCHANGED <<memVars, dbCounters, up, today, bookedPnl, pnlTorn>> => Rolls
    BY DEF Rolls, RolledPnl, memVars
<1>3. ASSUME NEW s \in Symbols, NEW o \in Offers, ExecuteSignal(w, s, o)
      PROVE  CountersCore'
    <2>1. Rolls
        BY <1>1, <1>3, CheckRolls DEF ExecuteSignal, histVars
    <2>2. trades' = trades /\ up /\ call[w].stage = "idle"
        BY <1>3 DEF ExecuteSignal
    <2>3. CASE Accepts(s, o)
        <3>1. call'[w].stage = "send"
            BY <1>1, <1>3, <2>3 DEF ExecuteSignal, ShapeOK, Idle
        <3>2. RolledPnl > -MaxDailyLoss
            BY <2>3 DEF Accepts, ValidateOrder
        <3> QED
            BY <2>1, <2>2, <3>1, <3>2, CountersQuiet
    <2>4. CASE ~Accepts(s, o)
        <3>1. call' = call
            BY <1>3, <2>4 DEF ExecuteSignal
        <3> QED
            BY <2>1, <2>2, <3>1, CountersQuiet
    <2> QED
        BY <2>3, <2>4
<1>4. ASSUME NEW d \in Slips, EntryFilled(w, d)
      PROVE  CountersCore'
    <2>1. Rolls /\ trades' = trades
        BY <1>2, <1>4 DEF EntryFilled, dbVars, histVars, envVars
    <2>2. call[w].stage = "send" /\ call'[w].stage = "filled"
        BY <1>1, <1>4 DEF EntryFilled, ShapeOK, Call
    <2> QED
        BY <2>1, <2>2, CountersQuiet
<1>5. CASE EntryRefused(w) \/ EntryUnconfirmed(w)
    <2>1. Rolls /\ trades' = trades
        BY <1>2, <1>5 DEF EntryRefused, EntryUnconfirmed, Unconfirmed, dbVars, histVars, envVars
    <2>2. call[w].stage = "send" /\ call'[w].stage = "idle"
        BY <1>1, <1>5 DEF EntryRefused, EntryUnconfirmed, Unconfirmed, ShapeOK, Idle
    <2> QED
        BY <2>1, <2>2, CountersQuiet
<1>6. CASE AddPosition(w)
    <2>1. Rolls /\ trades' = trades
        BY <1>6 DEF AddPosition, Rolls, RolledPnl, histVars
    <2>2. call[w].stage = "filled" /\ call'[w].stage = "tracked"
        BY <1>1, <1>6 DEF AddPosition, ShapeOK, Call
    <2> QED
        BY <2>1, <2>2, CountersQuiet
<1>7. CASE PersistTrade(w)
    <2>1. Rolls
        BY <1>2, <1>7 DEF PersistTrade
    <2>2. call[w].stage = "tracked" /\ call'[w].stage = "idle"
        BY <1>1, <1>7 DEF PersistTrade, ShapeOK, Idle
    <2>3. trades' = trades \/ trades' = [trades EXCEPT ![call[w].pos.order].st = "open"]
        BY <1>7 DEF PersistTrade
    <2>4. \A i \in OrderIds : /\ trades'[i].day = trades[i].day
                              /\ trades'[i].st = "closed" => trades[i].st = "closed"
        BY <1>1, <2>3 DEF ShapeOK, Trade
    <2> QED
        BY <2>1, <2>2, <2>4, CountersQuiet
<1> QED
    BY <1>3, <1>4, <1>5, <1>6, <1>7 DEF EntryStep

\* So do the steps of close_position: the fill is pending from ExitFilled to
\* BookExit, and the saved counters are behind from BookExit to SaveCounters.
LEMMA CountersExit ==
    ASSUME MaxFaults = 0, TypeOK, MirrorInv, SerialCore, CountersCore,
           NEW w, Threads = {w}, ExitStep(w)
    PROVE  CountersCore'
<1> DEFINE c == call[w]
<1>1. ShapeInv /\ ShapeOK /\ faults = 0 /\ c \in Call /\ c.pos \in Position
    BY DEF MirrorInv, ShapeInv, ShapeOK, Call
<1>2. UNCHANGED <<memVars, dbCounters, up, today, bookedPnl, pnlTorn>> => Rolls
    BY DEF Rolls, RolledPnl, memVars
<1>3. /\ today \in Nat /\ currentDate \in Nat /\ dbCounters.day \in Nat
      /\ bookedPnl \in Int /\ RolledPnl \in Int /\ dbCounters.pnl \in Int
      /\ \A i \in OrderIds : trades[i].day \in Nat
    BY BoundsNat DEF TypeOK, ShapeOK, Days, RolledPnl, Trade
<1>4. ASSUME NEW s \in Symbols, ClosePosition(w, s)
      PROVE  CountersCore'
    <2>1. Rolls /\ trades' = trades
        BY <1>2, <1>4 DEF ClosePosition, dbVars, histVars, envVars
    <2>2. c.stage = "idle" /\ call'[w].stage = "exitSend"
        BY <1>1, <1>4 DEF ClosePosition, ShapeOK, Idle
    <2> QED
        BY <2>1, <2>2, CountersQuiet
<1>5. ASSUME NEW x \in ExitPrices, ExitFilled(w, x)
      PROVE  CountersCore'
    <2> DEFINE pnl == RealizedPnl(c.pos.dir, c.pos.qty, c.pos.entry, x)
    <2>1. /\ c.stage = "exitSend"
          /\ call'[w].stage = "exitFilled" /\ call'[w].pnl = pnl
          /\ call'[w].pos = c.pos /\ call'[w].price = x
          /\ bookedPnl' = bookedPnl + pnl
          /\ UNCHANGED <<up, today, pnlTorn, pnlToday, currentDate, dbCounters, trades>>
        BY <1>1, <1>5 DEF ExitFilled, ShapeOK, Call, memVars, dbVars, envVars
    <2>2. pnl \in Int
        BY <1>1, CoreAssumption, PnlInt
    <2>3. Pending(w) = 0 /\ Pending(w)' = pnl /\ RolledPnl' = RolledPnl /\ SavedPnl' = SavedPnl
        BY <2>1 DEF Pending, RolledPnl, SavedPnl
    <2>4. DatesPast'
        BY <2>1 DEF CountersCore, DatesPast
    <2>5. /\ (up /\ ~pnlTorn)' => RolledPnl' = bookedPnl' - Pending(w)'
          /\ (~pnlTorn)' => SavedPnl' = bookedPnl' - Pending(w)'
        <3> HIDE DEF pnl
        <3>1. bookedPnl' - Pending(w)' = bookedPnl
            BY <1>3, <2>1, <2>2, <2>3
        <3>2. bookedPnl - Pending(w) = bookedPnl
            BY <1>3, <2>3
        <3> QED
            BY <2>1, <2>3, <3>1, <3>2 DEF CountersCore
    <2> QED
        BY <2>1, <2>4, <2>5 DEF CountersCore
<1>6. CASE ExitRefused(w)
    <2>1. Rolls /\ trades' = trades
        BY <1>2, <1>6 DEF ExitRefused, dbVars, histVars, envVars
    <2>2. c.stage = "exitSend" /\ call'[w].stage = "idle"
        BY <1>1, <1>6 DEF ExitRefused, ShapeOK, Idle
    <2> QED
        BY <2>1, <2>2, CountersQuiet
<1>7. CASE ExitUnconfirmed(w)
    <2>1. /\ pnlTorn' = TRUE
          /\ call'[w].stage = "idle"
          /\ UNCHANGED <<today, currentDate, dbCounters, trades>>
        BY <1>1, <1>7 DEF ExitUnconfirmed, Unconfirmed, ShapeOK, Idle, memVars, dbVars, envVars
    <2> QED
        BY <2>1 DEF CountersCore, DatesPast
<1>8. CASE BookExit(w)
    <2> DEFINE pnl == RealizedPnl(c.pos.dir, c.pos.qty, c.pos.entry, c.price)
    <2>1. /\ c.stage = "exitFilled" /\ up
          /\ positions[c.sym] = c.pos /\ HasPosition(c.sym)
        BY <1>1, <1>8 DEF BookExit, MirrorInv, ShapeInv, SerialCore, CallMatchesRows, HasPosition
    <2>2. PICK ok \in WriteOutcomes :
              /\ CountFault(ok)
              /\ dbCounters' = IF ok /\ today # currentDate
                                 THEN [pnl |-> 0, day |-> today] ELSE dbCounters
        BY <1>8, <2>1 DEF BookExit
    <2>3. dbCounters' = IF today # currentDate THEN [pnl |-> 0, day |-> today] ELSE dbCounters
        BY <1>1, <2>2, NoFault
    <2>4. /\ pnlToday' = RolledPnl + pnl /\ currentDate' = today
          /\ call'[w].stage = "popped"
          /\ UNCHANGED <<up, today, bookedPnl, pnlTorn, trades>>
        BY <1>1, <1>8, <2>1 DEF BookExit, ShapeOK, Call, histVars
    <2>5. c.pnl = pnl /\ pnl \in Int
        BY <1>1, <2>1 DEF CountersCore, Call
    <2>6. DatesPast'
        BY <1>3, <2>3, <2>4 DEF CountersCore, DatesPast
    <2>7. (up /\ ~pnlTorn)' => RolledPnl' = bookedPnl' - Pending(w)'
        <3>1. RolledPnl' = RolledPnl + pnl /\ Pending(w)' = 0 /\ Pending(w) = pnl
            BY <2>1, <2>4, <2>5 DEF RolledPnl, Pending
        <3>2. ~pnlTorn => RolledPnl = bookedPnl - pnl
            BY <2>1, <3>1 DEF CountersCore
        <3> HIDE DEF pnl
        <3> QED
            BY <1>3, <2>4, <2>5, <3>1, <3>2
    <2> QED
        BY <2>4, <2>6, <2>7 DEF CountersCore
<1>9. CASE SaveCounters(w)
    <2>1. /\ c.stage = "popped" /\ call'[w].stage = "counted" /\ up
          /\ UNCHANGED <<up, today, bookedPnl, pnlTorn, trades, pnlToday, currentDate>>
        BY <1>1, <1>9 DEF SaveCounters, MirrorInv, ShapeOK, Call, memVars, histVars
    <2>2. PICK ok \in WriteOutcomes :
              /\ CountFault(ok)
              /\ dbCounters' = IF ok THEN [pnl |-> pnlToday, day |-> currentDate] ELSE dbCounters
        BY <1>9 DEF SaveCounters
    <2>3. dbCounters' = [pnl |-> pnlToday, day |-> currentDate]
        BY <1>1, <2>2, NoFault
    <2>4. currentDate = today
        BY <2>1 DEF CountersCore
    <2>5. DatesPast'
        BY <1>3, <2>1, <2>3, <2>4 DEF CountersCore, DatesPast
    <2>6. /\ Pending(w) = 0 /\ Pending(w)' = 0
          /\ RolledPnl' = RolledPnl /\ SavedPnl' = RolledPnl
        BY <2>1, <2>3, <2>4 DEF Pending, RolledPnl, SavedPnl
    <2>7. dbCounters'.day = today'
        BY <2>1, <2>3, <2>4
    <2> QED
        BY <2>1, <2>5, <2>6, <2>7 DEF CountersCore
<1>10. CASE UpdateTradeExit(w)
    <2>1. c.stage = "counted" /\ call'[w].stage = "idle" /\ up
        BY <1>1, <1>10 DEF UpdateTradeExit, MirrorInv, ShapeOK, Idle
    <2>2. Rolls
        BY <1>1, <1>10, <2>1, CheckRolls DEF UpdateTradeExit
    <2>3. dbCounters.day = today
        BY <2>1 DEF CountersCore
    <2>4. dbCounters'.day = today /\ today' = today /\ currentDate' \in {currentDate, today}
        BY <2>2, <2>3 DEF Rolls
    <2>5. \A i \in OrderIds : trades'[i].day \in {trades[i].day, today}
        BY <1>1, <1>10 DEF UpdateTradeExit, ShapeOK
    <2>6. DatesPast'
        BY <1>3, <2>4, <2>5 DEF CountersCore, DatesPast
    <2>7. SavedPnl' = bookedPnl' - Pending(w)' \/ pnlTorn'
        <3>1. Pending(w) = 0 /\ Pending(w)' = 0
            BY <2>1 DEF Pending
        <3>2. ~pnlTorn => RolledPnl = bookedPnl - 0 /\ SavedPnl = bookedPnl - 0
            BY <2>1, <3>1 DEF CountersCore
        <3>3. CASE dbCounters' = dbCounters
            BY <2>2, <3>1, <3>2, <3>3 DEF Rolls, SavedPnl
        <3>4. CASE currentDate # today /\ dbCounters' = [pnl |-> 0, day |-> today]
            <4>1. SavedPnl' = 0 /\ RolledPnl = 0
                BY <2>4, <3>4 DEF SavedPnl, RolledPnl
            <4> QED
                BY <2>2, <3>1, <3>2, <4>1 DEF Rolls
        <3> QED
            BY <2>2, <3>3, <3>4 DEF Rolls
    <2>8. (up /\ ~pnlTorn)' => RolledPnl' = bookedPnl' - Pending(w)'
        BY <2>1, <2>2 DEF CountersCore, Rolls, Pending
    <2> QED
        BY <2>1, <2>6, <2>7, <2>8 DEF CountersCore
<1> QED
    BY <1>4, <1>5, <1>6, <1>7, <1>8, <1>9, <1>10 DEF ExitStep

\* Every step keeps the P&L and the loss limit.
LEMMA CountersStep ==
    ASSUME MaxFaults = 0, NEW w, Threads = {w}, TypeOK, MirrorInv, SerialCore, CountersCore,
           [Next]_vars
    PROVE  CountersCore'
<1>1. ShapeInv /\ ShapeOK /\ faults = 0
    BY DEF MirrorInv, ShapeInv
<1>2. UNCHANGED <<memVars, dbCounters, up, today, bookedPnl, pnlTorn>> => Rolls
    BY DEF Rolls, RolledPnl, memVars
<1>3. /\ today \in Nat /\ currentDate \in Nat /\ dbCounters.day \in Nat
      /\ bookedPnl \in Int /\ dbCounters.pnl \in Int
      /\ \A i \in OrderIds : trades[i].day \in Nat
    BY BoundsNat DEF TypeOK, ShapeOK, Days, Trade
<1>4. ASSUME NEW t \in Threads, EntryStep(t) \/ ExitStep(t)
      PROVE  CountersCore'
    BY <1>4, CountersEntry, CountersExit
<1>5. CASE ForceTrigger \/ ResetSwitch
    <2>1. Rolls /\ call' = call /\ trades' = trades
        BY <1>5 DEF ForceTrigger, ResetSwitch, Rolls, RolledPnl, histVars
    <2> QED
        BY <2>1, CountersQuiet
<1>6. CASE CheckSwitch \/ ReadStats
    <2>1. Rolls
        BY <1>1, <1>6, CheckRolls DEF CheckSwitch, ReadStats, histVars
    <2>2. call' = call /\ trades' = trades
        BY <1>6 DEF CheckSwitch, ReadStats
    <2> QED
        BY <2>1, <2>2, CountersQuiet
<1>7. (\E o \in resting : LateFill(o)) \/ UNCHANGED vars => CountersCore'
    <2>1. ASSUME (\E o \in resting : LateFill(o)) \/ UNCHANGED vars
          PROVE  Rolls /\ call' = call /\ trades' = trades
        BY <1>2, <2>1 DEF LateFill, vars, dbVars, histVars, envVars
    <2> QED
        BY <2>1, CountersQuiet
<1>8. CASE Crash
    <2>1. /\ call'[w].stage = "idle" /\ ~up'
          /\ currentDate' = today
          /\ UNCHANGED <<today, bookedPnl, dbCounters, trades>>
        BY <1>8, Zenon DEF Crash, Idle, dbVars
    <2>2. ~pnlTorn' => ~pnlTorn /\ call[w].stage \notin {"exitFilled", "popped"}
        BY <1>8 DEF Crash, Cut
    <2>3. ~pnlTorn' => Pending(w)' = 0 /\ Pending(w) = 0 /\ SavedPnl' = SavedPnl
        BY <2>1, <2>2 DEF Pending, SavedPnl
    <2>4. DatesPast'
        BY <1>3, <2>1 DEF CountersCore, DatesPast
    <2> QED
        BY <2>1, <2>2, <2>3, <2>4 DEF CountersCore
<1>9. CASE Start
    <2>1. /\ call[w].stage = "idle" /\ call' = call
          /\ UNCHANGED <<today, bookedPnl, dbCounters, trades, pnlTorn>>
          /\ currentDate' = today
        BY <1>9 DEF Start, MirrorInv, histVars
    <2>2. pnlToday' = SavedPnl
        <3>1. CASE dbCounters.day = today
            BY <1>9, <3>1 DEF Start, SavedPnl
        <3>2. CASE dbCounters.day # today
            <4>1. {i \in OrderIds : trades[i].st = "closed" /\ trades[i].day = today} = {}
                BY <3>2 DEF CountersCore, DatesPast
            <4>2. TodaysTradePnl = 0
                BY <4>1, SumEmpty DEF TodaysTradePnl, TradePnl
            <4> QED
                BY <1>9, <3>2, <4>2 DEF Start, SavedPnl
        <3> QED
            BY <3>1, <3>2
    <2>3. RolledPnl' = SavedPnl /\ SavedPnl' = SavedPnl /\ Pending(w)' = Pending(w)
        BY <2>1, <2>2 DEF RolledPnl, SavedPnl, Pending
    <2>4. DatesPast'
        BY <1>3, <2>1 DEF CountersCore, DatesPast
    <2> QED
        BY <2>1, <2>3, <2>4 DEF CountersCore
<1>10. CASE NextDay
    <2>1. /\ call[w].stage = "idle" /\ call' = call
          /\ today' = today + 1 /\ bookedPnl' = 0
          /\ UNCHANGED <<pnlToday, currentDate, dbCounters, trades>>
        BY <1>10 DEF NextDay, memVars, dbVars
    <2>2. currentDate < today' /\ dbCounters.day < today'
        BY <1>3, <2>1 DEF CountersCore, DatesPast
    <2>3. \A i \in OrderIds : trades[i].day < today'
        BY <1>3, <2>1 DEF CountersCore, DatesPast
    <2>4. DatesPast'
        BY <1>3, <2>1, <2>2, <2>3 DEF DatesPast
    <2>5. RolledPnl' = 0 /\ SavedPnl' = 0 /\ Pending(w)' = 0
        BY <1>3, <2>1, <2>2 DEF RolledPnl, SavedPnl, Pending
    <2> QED
        BY <2>1, <2>4, <2>5 DEF CountersCore
<1> QED
    BY <1>4, <1>5, <1>6, <1>7, <1>8, <1>9, <1>10 DEF Next

\* The P&L starts at zero everywhere.
LEMMA CountersInit == Init => CountersCore
<1> SUFFICES ASSUME Init PROVE CountersCore
    OBVIOUS
<1>1. DatesPast
    BY DEF Init, DatesPast, NoCounters, NoTrade
<1>2. \A t \in Threads : call[t].stage = "idle" /\ Pending(t) = 0
    BY DEF Init, Idle, Pending
<1>3. RolledPnl = 0 /\ SavedPnl = 0 /\ bookedPnl = 0
    BY DEF Init, RolledPnl, SavedPnl, NoCounters
<1> QED
    BY <1>1, <1>2, <1>3 DEF CountersCore

\* With one caller at a time the P&L the kill switch and the third guardrail
\* read is that of the day's exit fills but for the one being booked, across
\* crashes, restarts and midnights (_save_counters, _check_day_reset,
\* _load_from_db): when the saved counters are of an earlier day no exit was
\* recorded today, so the rebuilt P&L is zero, as it must be.
THEOREM CountersMatch ==
    ASSUME MaxFaults = 0, NEW w, Threads = {w}
    PROVE  Spec => []CountersMatchBroker
<1> DEFINE Inv == TypeOK /\ MirrorInv /\ SerialCore /\ CountersCore
<1>1. Init => Inv
    BY TypeInit, MirrorInit, SerialInit, CountersInit
<1>2. Inv /\ [Next]_vars => Inv'
    BY MirrorStep, SerialStep, CountersStep, TypeStep DEF MirrorInv
<1>3. Inv => CountersMatchBroker
    <2> SUFFICES ASSUME Inv, up, ~pnlTorn
                 PROVE  \/ /\ Cut({"exitFilled"}) = {}
                           /\ RolledPnl = bookedPnl
                        \/ \E t \in Cut({"exitFilled"}) : RolledPnl = bookedPnl - call[t].pnl
        BY DEF CountersMatchBroker
    <2>1. RolledPnl = bookedPnl - Pending(w) /\ bookedPnl \in Int
        BY DEF CountersCore, TypeOK, ShapeOK
    <2>2. CASE call[w].stage = "exitFilled"
        BY <2>1, <2>2 DEF Pending, Cut
    <2>3. CASE call[w].stage # "exitFilled"
        <3>1. Cut({"exitFilled"}) = {}
            BY <2>3 DEF Cut
        <3> QED
            BY <2>1, <2>3, <3>1 DEF Pending
    <2> QED
        BY <2>2, <2>3
<1> QED
    BY <1>1, <1>2, <1>3, PTL DEF Spec

\* With one caller at a time no entry order is on its way to the broker on a
\* day that has already lost max_daily_loss: check 3 read the P&L of every
\* exit fill, and none can come in before the order is sent (execute_signal,
\* KillSwitch.check, validate_order).
THEOREM LossLimitHonoured ==
    ASSUME MaxFaults = 0, NEW w, Threads = {w}
    PROVE  Spec => []DailyLossHonoured
<1> DEFINE Inv == TypeOK /\ MirrorInv /\ SerialCore /\ CountersCore
<1>1. Init => Inv
    BY TypeInit, MirrorInit, SerialInit, CountersInit
<1>2. Inv /\ [Next]_vars => Inv'
    BY MirrorStep, SerialStep, CountersStep, TypeStep DEF MirrorInv
<1>3. Inv => DailyLossHonoured
    BY DEF CountersCore, DailyLossHonoured
<1> QED
    BY <1>1, <1>2, <1>3, PTL DEF Spec

---------------------------------------------------------------------------
(* The deployed capital *)

\* A position added to a book adds its capital.
LEMMA CapitalAdded ==
    ASSUME NEW b \in [Symbols -> Position], NEW s \in Symbols, b[s] = NoPosition,
           NEW p \in Position, p # NoPosition
    PROVE  /\ CapitalIn(b) \in Int
           /\ CapitalIn([b EXCEPT ![s] = p]) = CapitalIn(b) + p.entry * p.qty
<1> DEFINE new == [b EXCEPT ![s] = p]
           f == [r \in Symbols |-> b[r].entry * b[r].qty]
           g == [r \in Symbols |-> new[r].entry * new[r].qty]
<1>1. Held(new) = Held(b) \cup {s} /\ Held(new) \ {s} = Held(b) /\ s \in Held(new)
    BY DEF Held
<1>2. IsFiniteSet(Held(b)) /\ IsFiniteSet(Held(new))
    BY HeldFinite
<1>3. \A r \in Symbols : f[r] \in Int /\ g[r] \in Int
    <2>1. \A q \in Position : q.entry * q.qty \in Int
        BY DEF Position
    <2> QED
        BY <2>1
<1>4. g[s] = p.entry * p.qty
    OBVIOUS
<1>5. \A r \in Held(b) : g[r] = f[r]
    BY DEF Held
<1>6. CapitalIn(b) = SumFunctionOnSet(f, Held(b)) /\ CapitalIn(new) = SumFunctionOnSet(g, Held(new))
    BY DEF CapitalIn
<1>7. Held(b) \subseteq Symbols /\ Held(new) \subseteq Symbols
    BY DEF Held
<1> HIDE DEF new, f, g
<1>8. SumFunctionOnSet(f, Held(b)) \in Int
    BY <1>2, <1>3, <1>7, SumInt
<1>9. SumFunctionOnSet(g, Held(new) \ {s}) = SumFunctionOnSet(f, Held(b))
    BY <1>1, <1>2, <1>5, SumSame
<1>10. SumFunctionOnSet(g, Held(new)) = g[s] + SumFunctionOnSet(g, Held(new) \ {s})
    BY <1>1, <1>2, <1>3, <1>7, SumRemove
<1>11. p.entry * p.qty \in Int
    BY DEF Position
<1>12. CapitalIn(b) \in Int /\ CapitalIn(new) = CapitalIn(b) + p.entry * p.qty
    <2> DEFINE k == p.entry * p.qty
    <2>1. CapitalIn(new) = k + CapitalIn(b)
        BY <1>4, <1>6, <1>9, <1>10
    <2> HIDE DEF k
    <2>2. CapitalIn(b) \in Int /\ CapitalIn(new) = CapitalIn(b) + k
        BY <1>6, <1>8, <1>11, <2>1 DEF k
    <2> QED
        BY <2>2 DEF k
<1> QED
    BY <1>12 DEF new

\* A position taken out of a book takes its capital with it.
LEMMA CapitalRemoved ==
    ASSUME NEW b \in [Symbols -> Position], NEW s \in Symbols, b[s] # NoPosition
    PROVE  /\ CapitalIn([b EXCEPT ![s] = NoPosition]) \in Int
           /\ CapitalIn(b) = CapitalIn([b EXCEPT ![s] = NoPosition]) + b[s].entry * b[s].qty
<1> DEFINE rest == [b EXCEPT ![s] = NoPosition]
<1>1. rest \in [Symbols -> Position] /\ rest[s] = NoPosition /\ b[s] \in Position
    BY NullRecords
<1>2. [rest EXCEPT ![s] = b[s]] = b
    OBVIOUS
<1> HIDE DEF rest
<1>3. CapitalIn(rest) \in Int /\ CapitalIn(b) = CapitalIn(rest) + b[s].entry * b[s].qty
    BY <1>1, <1>2, CapitalAdded
<1> QED
    BY <1>3 DEF rest

\* An empty book deploys nothing.
LEMMA CapitalEmpty == ASSUME NEW b, Held(b) = {} PROVE CapitalIn(b) = 0
BY SumEmpty DEF CapitalIn

\* A step that leaves the rows alone and sends or fills no order keeps
\* ExposureCore.
LEMMA ExposureQuiet ==
    ASSUME NEW w, Threads = {w}, ExposureCore, dbPositions' = dbPositions,
           up' \/ Held(positions') = {},
           call' = call \/ call'[w].stage \notin {"send", "filled"}
    PROVE  ExposureCore'
<1>1. Held(dbPositions)' = Held(dbPositions) /\ CapitalIn(dbPositions)' = CapitalIn(dbPositions)
    BY DEF Held, CapitalIn
<1>2. Held(positions)' = Held(positions')
    BY DEF Held
<1>3. CASE call' = call
    BY <1>1, <1>2, <1>3 DEF ExposureCore
<1>4. CASE call'[w].stage \notin {"send", "filled"}
    BY <1>1, <1>2, <1>4 DEF ExposureCore
<1> QED
    BY <1>3, <1>4

\* Check 2 is made on the capital the order will find, for the fill of an order
\* is recorded before the next one is checked.
LEMMA ExposureEntry ==
    ASSUME MaxFaults = 0, MirrorInv, SerialCore, ExposureCore, NEW w, Threads = {w}, EntryStep(w)
    PROVE  ExposureCore'
<1> DEFINE c == call[w]
<1>1. ShapeInv /\ ShapeOK /\ faults = 0 /\ c \in Call /\ c.pos \in Position
    BY DEF MirrorInv, ShapeInv, ShapeOK, Call
<1>2. up /\ up'
    <2>1. up \/ c.stage # "idle"
        BY DEF EntryStep, ExecuteSignal, EntryFilled, EntryRefused, EntryUnconfirmed,
            Unconfirmed, AddPosition, PersistTrade
    <2>2. up' = up
        BY DEF EntryStep, ExecuteSignal, EntryFilled, EntryRefused, EntryUnconfirmed,
            Unconfirmed, AddPosition, PersistTrade, envVars
    <2> QED
        BY <2>1, <2>2 DEF MirrorInv
<1>3. ASSUME NEW s \in Symbols, NEW o \in Offers, ExecuteSignal(w, s, o)
      PROVE  ExposureCore'
    <2>1. dbPositions' = dbPositions
        BY <1>3 DEF ExecuteSignal
    <2>2. CASE ~Accepts(s, o)
        <3>1. call' = call
            BY <1>3, <2>2 DEF ExecuteSignal
        <3> QED
            BY <1>2, <2>1, <3>1, ExposureQuiet
    <2>3. CASE Accepts(s, o)
        <3>1. /\ call'[w].stage = "send" /\ call'[w].pos.entry = o.entry
              /\ call'[w].pos.qty = CalculatePositionSize(o.entry, o.stop)
            BY <1>1, <1>3, <2>3 DEF ExecuteSignal, ShapeOK, Idle
        <3>2. DeployedCapital + CalculatePositionSize(o.entry, o.stop) * o.entry
                  <= MaxCapitalDeployed
            BY <2>3 DEF Accepts, ValidateOrder
        <3>3. DeployedCapital = CapitalIn(dbPositions)
            BY <1>2 DEF MirrorInv, DeployedCapital
        <3>4. Held(dbPositions)' = Held(dbPositions) /\ CapitalIn(dbPositions)' = CapitalIn(dbPositions)
            BY <2>1 DEF Held, CapitalIn
        <3> QED
            BY <1>2, <2>1, <3>1, <3>2, <3>3, <3>4 DEF ExposureCore
    <2> QED
        BY <2>2, <2>3
<1>4. ASSUME NEW d \in Slips, EntryFilled(w, d)
      PROVE  ExposureCore'
    <2>1. /\ c.stage = "send" /\ dbPositions' = dbPositions
          /\ call'[w].stage = "filled" /\ call'[w].pos.entry = c.pos.entry + d
          /\ call'[w].pos.qty = c.pos.qty
        BY <1>1, <1>4 DEF EntryFilled, ShapeOK, Call, Position, dbVars
    <2>2. PICK o \in Offers :
              /\ c.pos.entry = o.entry
              /\ CapitalIn(dbPositions) + c.pos.qty * o.entry <= MaxCapitalDeployed
        BY <2>1 DEF ExposureCore
    <2>3. Held(dbPositions)' = Held(dbPositions) /\ CapitalIn(dbPositions)' = CapitalIn(dbPositions)
        BY <2>1 DEF Held, CapitalIn
    <2> QED
        BY <1>2, <2>1, <2>2, <2>3 DEF ExposureCore
<1>5. CASE EntryRefused(w) \/ EntryUnconfirmed(w) \/ PersistTrade(w)
    <2>1. dbPositions' = dbPositions /\ call'[w].stage = "idle"
        BY <1>1, <1>5 DEF EntryRefused, EntryUnconfirmed, Unconfirmed, PersistTrade, ShapeOK,
            Idle, dbVars
    <2> QED
        BY <1>2, <2>1, ExposureQuiet
<1>6. CASE AddPosition(w)
    <2>1. /\ c.stage = "filled" /\ c.sym \in Symbols
          /\ dbPositions[c.sym] = NoPosition /\ c.pos.order # 0 /\ c.pos # NoPosition
        BY <1>6 DEF AddPosition, MirrorInv, ShapeInv, SerialCore, CallMatchesRows, NoPosition
    <2>2. dbPositions' = [dbPositions EXCEPT ![c.sym] = c.pos]
        <3>1. ~HasPosition(c.sym)
            BY <1>2, <2>1 DEF MirrorInv, HasPosition
        <3>2. PICK ok \in WriteOutcomes :
                  /\ CountFault(ok)
                  /\ dbPositions' = IF ok THEN [dbPositions EXCEPT ![c.sym] = c.pos]
                                          ELSE dbPositions
            BY <1>6, <3>1 DEF AddPosition
        <3> QED
            BY <1>1, <3>2, NoFault
    <2>3. call'[w].stage = "tracked"
        BY <1>1, <1>6 DEF AddPosition, ShapeOK, Call
    <2>4. PICK o \in Offers, d \in Slips :
              /\ c.pos.entry = o.entry + d
              /\ CapitalIn(dbPositions) + c.pos.qty * o.entry <= MaxCapitalDeployed
        BY <2>1 DEF ExposureCore
    <2>5. /\ o.entry \in Nat \ {0} /\ d \in Int /\ o.entry + d > 0
          /\ c.pos.qty \in Nat /\ MaxCapitalDeployed \in Nat
        BY <1>1, CoreAssumption, LimitsAssumption DEF Position
    <2>6. /\ CapitalIn(dbPositions) \in Int
          /\ CapitalIn(dbPositions') = CapitalIn(dbPositions) + c.pos.entry * c.pos.qty
        BY <1>1, <2>1, <2>2, CapitalAdded DEF ShapeOK
    <2>7. CapitalIn(dbPositions') <= MaxCapitalDeployed + d * c.pos.qty
        <3>1. (o.entry + d) * c.pos.qty = c.pos.qty * o.entry + d * c.pos.qty
            BY <2>5
        <3> QED
            BY <2>4, <2>5, <2>6, <3>1
    <2>8. /\ dbPositions'[c.sym] = c.pos /\ c.sym \in Held(dbPositions)'
          /\ \A s \in Held(dbPositions)' : s = c.sym \/ s \in Held(dbPositions)
          /\ \A s \in Symbols \ {c.sym} : dbPositions'[s] = dbPositions[s]
        BY <1>1, <2>1, <2>2 DEF ShapeOK, Held
    <2>9. d < dbPositions'[c.sym].entry /\ dbPositions'[c.sym].entry > 0
        BY <2>4, <2>5, <2>8
    <2>10. \A s \in Held(dbPositions)' : dbPositions'[s].entry > 0
        BY <2>8, <2>9 DEF ExposureCore, Held
    <2>11. CapitalIn(dbPositions)' = CapitalIn(dbPositions')
        BY DEF CapitalIn, Held
    <2> QED
        BY <1>2, <2>3, <2>7, <2>8, <2>9, <2>10, <2>11 DEF ExposureCore
<1> QED
    BY <1>3, <1>4, <1>5, <1>6 DEF EntryStep

\* What is left of the capital when the position that slipped is closed is
\* within the limit, for a position costs more than its slippage.
LEMMA ExposureExit ==
    ASSUME MaxFaults = 0, MirrorInv, SerialCore, ExposureCore, NEW w, Threads = {w}, ExitStep(w)
    PROVE  ExposureCore'
<1> DEFINE c == call[w]
<1>1. ShapeInv /\ ShapeOK /\ faults = 0 /\ c \in Call /\ c.pos \in Position
    BY DEF MirrorInv, ShapeInv, ShapeOK, Call
<1>2. up /\ up'
    <2>1. up \/ c.stage # "idle"
        BY DEF ExitStep, ClosePosition, ExitFilled, ExitRefused, ExitUnconfirmed, Unconfirmed,
            BookExit, SaveCounters, UpdateTradeExit
    <2>2. up' = up
        BY DEF ExitStep, ClosePosition, ExitFilled, ExitRefused, ExitUnconfirmed, Unconfirmed,
            BookExit, SaveCounters, UpdateTradeExit, envVars
    <2> QED
        BY <2>1, <2>2 DEF MirrorInv
<1>3. call'[w].stage \notin {"send", "filled"}
    <2>1. <<c.stage, call'[w].stage>> \in StageMoves
        BY <1>1, OwnCall
    <2>2. c.stage \in {"exitSend", "exitFilled", "popped", "counted"}
              \/ (c.stage = "idle" /\ call'[w].stage = "exitSend")
        <3>1. ASSUME NEW s \in Symbols, ClosePosition(w, s)
              PROVE  c.stage = "idle" /\ call'[w].stage = "exitSend"
            BY <1>1, <3>1 DEF ClosePosition, ShapeOK, Idle
        <3> QED
            BY <3>1 DEF ExitStep, ExitFilled, ExitRefused, ExitUnconfirmed, Unconfirmed,
                BookExit, SaveCounters, UpdateTradeExit
    <2> QED
        BY <2>1, <2>2 DEF StageMoves
<1>4. CASE ~BookExit(w)
    <2>1. dbPositions' = dbPositions
        BY <1>4 DEF ExitStep, ClosePosition, ExitFilled, ExitRefused, ExitUnconfirmed,
            Unconfirmed, SaveCounters, UpdateTradeExit, dbVars
    <2> QED
        BY <1>2, <1>3, <2>1, ExposureQuiet
<1>5. CASE BookExit(w)
    <2> DEFINE gone == dbPositions[c.sym]
    <2>1. c.sym \in Symbols /\ gone # NoPosition /\ positions = dbPositions
        BY <1>1, <1>2, <1>5 DEF BookExit, MirrorInv, ShapeInv, SerialCore, CallMatchesRows
    <2>2. dbPositions' = [dbPositions EXCEPT ![c.sym] = NoPosition]
        <3>1. PICK ok \in WriteOutcomes :
                  /\ CountFault(ok)
                  /\ dbPositions' = IF ok THEN [dbPositions EXCEPT ![c.sym] = NoPosition]
                                          ELSE dbPositions
            BY <1>5, <2>1 DEF BookExit, HasPosition
        <3> QED
            BY <1>1, <3>1, NoFault
    <2>3. /\ CapitalIn(dbPositions') \in Int
          /\ CapitalIn(dbPositions) = CapitalIn(dbPositions') + gone.entry * gone.qty
        BY <1>1, <2>1, <2>2, CapitalRemoved DEF ShapeOK
    <2>4. Held(dbPositions)' = Held(dbPositions) \ {c.sym} /\ c.sym \in Held(dbPositions)
        BY <1>1, <2>1, <2>2 DEF ShapeOK, Held
    <2>5. \A s \in Held(dbPositions)' : dbPositions'[s] = dbPositions[s]
        BY <1>1, <2>1, <2>2, <2>4 DEF ShapeOK, Held
    <2>6. gone.entry \in Nat \ {0} /\ gone.qty \in Nat /\ MaxCapitalDeployed \in Nat
        BY <1>1, <2>1, <2>4, LimitsAssumption DEF ShapeOK, Position, ExposureCore
    <2>7. gone.entry * gone.qty \in Nat
        BY <2>6
    <2>8. CapitalIn(dbPositions)' = CapitalIn(dbPositions')
        BY DEF CapitalIn, Held
    <2> DEFINE Within ==
                   \/ CapitalIn(dbPositions') <= MaxCapitalDeployed
                   \/ \E s \in Held(dbPositions)', d \in Slips :
                          /\ d < dbPositions'[s].entry
                          /\ CapitalIn(dbPositions')
                                 <= MaxCapitalDeployed + d * dbPositions'[s].qty
    <2>9. Within
        <3> HIDE DEF gone
        <3>1. CASE CapitalIn(dbPositions) <= MaxCapitalDeployed
            BY <2>3, <2>6, <2>7, <3>1
        <3>2. ASSUME NEW s \in Held(dbPositions), NEW d \in Slips,
                     d < dbPositions[s].entry,
                     CapitalIn(dbPositions) <= MaxCapitalDeployed + d * dbPositions[s].qty
              PROVE  Within
            <4>1. dbPositions[s].qty \in Nat /\ d \in Int
                BY <1>1, CoreAssumption DEF ShapeOK, Position, Held
            <4>2. d * dbPositions[s].qty \in Int
                BY <4>1
            <4>3. CASE s # c.sym
                <5>1. CapitalIn(dbPositions') <= MaxCapitalDeployed + d * dbPositions[s].qty
                    BY <2>3, <2>6, <2>7, <3>2, <4>2
                <5> QED
                    BY <2>4, <2>5, <3>2, <4>3, <5>1
            <4>4. CASE s = c.sym
                <5>1. d * gone.qty <= gone.entry * gone.qty
                    BY <2>6, <3>2, <4>1, <4>4 DEF gone
                <5>2. CapitalIn(dbPositions) <= MaxCapitalDeployed + d * gone.qty
                    BY <3>2, <4>4 DEF gone
                <5>3. d * gone.qty \in Int
                    BY <4>2, <4>4 DEF gone
                <5> QED
                    BY <2>3, <2>6, <2>7, <5>1, <5>2, <5>3
            <4> QED
                BY <4>3, <4>4
        <3> QED
            BY <3>1, <3>2 DEF ExposureCore
    <2>10. \A s \in Held(dbPositions)' : dbPositions'[s].entry > 0
        BY <2>4, <2>5 DEF ExposureCore
    <2> QED
        BY <1>2, <1>3, <2>8, <2>9, <2>10 DEF ExposureCore
<1> QED
    BY <1>4, <1>5

\* Every step keeps the exposure within bounds.
LEMMA ExposureStep ==
    ASSUME MaxFaults = 0, NEW w, Threads = {w}, MirrorInv, SerialCore, ExposureCore, [Next]_vars
    PROVE  ExposureCore'
<1>1. ShapeInv /\ ShapeOK
    BY DEF MirrorInv, ShapeInv
<1>2. ASSUME NEW t \in Threads, EntryStep(t) \/ ExitStep(t)
      PROVE  ExposureCore'
    BY <1>2, ExposureEntry, ExposureExit
<1>3. CASE ForceTrigger \/ ResetSwitch \/ CheckSwitch \/ ReadStats
    BY <1>3, ExposureQuiet DEF ForceTrigger, ResetSwitch, CheckSwitch, ReadStats
<1>4. CASE Crash
    <2>1. dbPositions' = dbPositions /\ call'[w].stage = "idle" /\ Held(positions') = {}
        BY <1>4 DEF Crash, Idle, Held, dbVars
    <2> QED
        BY <2>1, ExposureQuiet
<1>5. CASE Start
    <2>1. dbPositions' = dbPositions
        <3>1. \A s \in Symbols : ~StaleRow(s)
            BY DEF SerialCore, RowsAreLive
        <3>2. [s \in Symbols |-> IF StaleRow(s) THEN NoPosition ELSE dbPositions[s]] = dbPositions
            BY <1>1, <3>1 DEF ShapeOK
        <3> QED
            BY <1>5, <3>2 DEF Start
    <2>2. up' /\ call' = call
        BY <1>5, Zenon DEF Start
    <2> QED
        BY <2>1, <2>2, ExposureQuiet
<1>6. CASE (\E o \in resting : LateFill(o)) \/ NextDay \/ UNCHANGED vars
    <2>1. UNCHANGED <<up, positions, dbPositions, call>>
        BY <1>6 DEF LateFill, NextDay, vars, memVars, dbVars, envVars
    <2>2. up' \/ Held(positions') = {}
        BY <2>1 DEF ExposureCore, Held
    <2> QED
        BY <2>1, <2>2, ExposureQuiet
<1> QED
    BY <1>2, <1>3, <1>4, <1>5, <1>6 DEF Next

\* With one caller at a time the capital deployed at fill prices exceeds the
\* limit by the slippage of one order at most (validate_order's check 2 on
\* Portfolio.deployed_capital, add_position, close_position, _load_from_db).
\* The bound is kept when any position is closed: taking out the one that
\* slipped takes out more than it slipped by.
THEOREM ExposureWithinLimit ==
    ASSUME MaxFaults = 0, NEW w, Threads = {w}
    PROVE  Spec => []ExposureBounded
<1> DEFINE Inv == MirrorInv /\ SerialCore /\ ExposureCore
<1>1. Init => Inv
    <2> SUFFICES ASSUME Init PROVE ExposureCore
        BY MirrorInit, SerialInit
    <2>1. Held(positions) = {} /\ Held(dbPositions) = {}
        BY DEF Init, Held
    <2>2. CapitalIn(dbPositions) = 0
        BY <2>1, CapitalEmpty
    <2>3. \A t \in Threads : call[t].stage = "idle"
        BY DEF Init, Idle
    <2> QED
        BY <2>1, <2>2, <2>3, LimitsAssumption DEF ExposureCore
<1>2. Inv /\ [Next]_vars => Inv'
    BY MirrorStep, SerialStep, ExposureStep
<1>3. Inv => ExposureBounded
    <2> SUFFICES ASSUME Inv PROVE ExposureBounded
        OBVIOUS
    <2>1. CASE ~up
        <3>1. DeployedCapital = 0
            BY <2>1, CapitalEmpty DEF ExposureCore, DeployedCapital
        <3> QED
            BY <3>1, LimitsAssumption DEF ExposureBounded
    <2>2. CASE up
        <3>1. positions = dbPositions /\ DeployedCapital = CapitalIn(dbPositions)
            BY <2>2 DEF MirrorInv, DeployedCapital
        <3>2. CASE CapitalIn(dbPositions) <= MaxCapitalDeployed
            BY <3>1, <3>2, LimitsAssumption DEF ExposureBounded
        <3>3. CASE \E s \in Held(dbPositions), d \in Slips :
                       CapitalIn(dbPositions) <= MaxCapitalDeployed + d * dbPositions[s].qty
            <4>1. NoSymbol \notin Held(dbPositions)
                BY NoSymbolAssumption DEF Held
            <4> QED
                BY <3>1, <3>3, <4>1 DEF ExposureBounded
        <3> QED
            BY <3>2, <3>3 DEF ExposureCore
    <2> QED
        BY <2>1, <2>2
<1> QED
    BY <1>1, <1>2, <1>3, PTL DEF Spec

=============================================================================
