---------------------------- MODULE LedgerProofs ----------------------------
(***************************************************************************)
(* TradingCore implements PositionLedger, for any number of threads and    *)
(* any crashes, when no database write is lost.                            *)
(*                                                                         *)
(* LedgerCore is what the order ids in the rows, in the calls under way    *)
(* and in the trades table say of each other: an order being booked is     *)
(* nobody else's, and an order whose trade is about to be closed has left  *)
(* the rows.                                                               *)
(***************************************************************************)
EXTENDS TradingCoreProofs

RowOrders ==
    /\ \A s \in Symbols :
          /\ dbPositions[s].order < nextOrder
          /\ dbPositions[s] # NoPosition => dbPositions[s].order # 0
    /\ \A s, r \in Symbols :
          dbPositions[s].order = dbPositions[r].order /\ s # r => dbPositions[s].order = 0

CallOrders ==
    /\ \A t \in Threads :
          /\ call[t].pos.order < nextOrder
          /\ call[t].stage \notin {"idle", "send"} => call[t].pos.order # 0
          /\ call[t].stage \in {"filled", "popped", "counted"} =>
                \A s \in Symbols : dbPositions[s].order # call[t].pos.order
          /\ call[t].stage \in {"exitSend", "exitFilled"} =>
                \A s \in Symbols \ {call[t].sym} : dbPositions[s].order # call[t].pos.order
    /\ \A t, u \in Threads : t # u =>
          /\ call[t].stage = "filled" => call[u].pos.order # call[t].pos.order
          /\ call[t].stage = "tracked" /\ call[u].stage = "tracked" =>
                call[u].pos.order # call[t].pos.order

TradeOrders ==
    /\ \A i \in OrderIds : i >= nextOrder => trades[i].st = "none"
    /\ \A t \in Threads :
          call[t].stage \in {"filled", "tracked"} => trades[call[t].pos.order].st = "none"
    /\ \A s \in Symbols : ~StaleRow(s)

LedgerCore == RowOrders /\ CallOrders /\ TradeOrders

\* OpenTradesAreHeld on the rows, for the call of the only thread.
OpenTradesCore ==
    /\ \A t \in Threads : call[t].stage \in {"idle", "send"} => call[t].pos.order = 0
    /\ \A i \in OrderIds \ tornTrades :
           trades[i].st = "open" =>
               \/ \E s \in Symbols : dbPositions[s].order = i
               \/ \E t \in Threads : call[t].pos.order = i

\* What the order ids in memory, in the rows and in the only thread's call say
\* of each other when writes do get lost: a row may be missing or left over, but
\* an order still names one symbol.
Books == {positions, dbPositions}

BookOrders ==
    \A a, b \in Books, s, r \in Symbols :
        /\ a[s].order < nextOrder
        /\ a[s].order = b[r].order /\ s # r => a[s].order = 0

CallOnBooks ==
    \A t \in Threads :
        LET c == call[t]
        IN  /\ ~up => c.stage = "idle"
            /\ c.pos.order < nextOrder
            /\ c.stage = "filled" => \A b \in Books, s \in Symbols : b[s].order # c.pos.order
            /\ c.stage \in {"filled", "tracked"} => c.pos.order \notin closed
            /\ c.stage \in {"exitSend", "exitFilled"} =>
                   c.pos = positions[c.sym] /\ c.pos # NoPosition
            /\ c.stage \in {"popped", "counted"} =>
                   \A s \in Symbols : positions[s].order = c.pos.order => c.pos.order = 0

\* A position without a trade row has lost it to a crash or to a fault.
MissingTrades ==
    \A b \in Books, s \in Symbols :
        LET i == b[s].order
        IN  i # 0 /\ trades[i].st = "none" =>
                \/ i \in unrecorded
                \/ faults >= 1
                \/ \E t \in Threads : call[t].stage = "tracked" /\ call[t].pos.order = i

\* A position row its closing call has left behind took one fault, and another
\* if its trade row is missing too.
LeftBehind ==
    \A t \in Threads, s \in Symbols :
        LET i == call[t].pos.order
        IN  call[t].stage \in {"popped", "counted"} /\ dbPositions[s].order = i /\ i # 0 =>
                /\ faults >= 1
                /\ trades[i].st = "none" /\ i \notin unrecorded => faults >= 2

\* Lost writes it takes to bring back a position whose closing call has returned.
FaultsToRevive(i) == IF i \in unrecorded THEN 1 ELSE 2

\* A position row a lost write left behind is stale unless more went wrong.
NotRevived ==
    /\ \A i \in closed : i < nextOrder
    /\ \A s \in Symbols :
           positions[s].order \in closed \ {0} => faults >= FaultsToRevive(positions[s].order)
    /\ \A s \in Symbols :
           dbPositions[s].order \in closed \ {0} =>
               StaleRow(s) \/ faults >= FaultsToRevive(dbPositions[s].order)

ClosedCore == BookOrders /\ CallOnBooks /\ MissingTrades /\ LeftBehind /\ NotRevived

---------------------------------------------------------------------------
(* The invariant is inductive *)

\* Steps that touch neither rows, calls nor order ids.
LEMMA LedgerQuiet ==
    ASSUME LedgerCore, UNCHANGED <<call, dbPositions, trades, nextOrder>>
    PROVE  LedgerCore'
BY DEF LedgerCore, RowOrders, CallOrders, TradeOrders, StaleRow

\* A call returns, whatever it came to.
LEMMA LedgerEnd ==
    ASSUME ShapeInv, LedgerCore, NEW t \in Threads,
           call' = [call EXCEPT ![t] = Idle],
           UNCHANGED <<dbPositions, trades, nextOrder>>
    PROVE  LedgerCore'
<1>1. call'[t] = Idle /\ \A u \in Threads \ {t} : call'[u] = call[u]
    BY DEF ShapeInv, ShapeOK
<1>2. nextOrder \in Nat \ {0}
    BY BoundsNat DEF ShapeInv, ShapeOK
<1>3. Idle.stage = "idle" /\ Idle.pos.order = 0
    BY DEF Idle, NoPosition
<1>4. CallOrders'
    <2>1. \A u \in Threads : call[u].stage = "filled" => call[u].pos.order # 0
        BY DEF LedgerCore, CallOrders
    <2> QED
        BY <1>1, <1>2, <1>3, <2>1 DEF LedgerCore, CallOrders
<1>5. TradeOrders'
    BY <1>1, <1>3 DEF LedgerCore, TradeOrders, StaleRow
<1>6. RowOrders'
    BY DEF LedgerCore, RowOrders
<1> QED
    BY <1>4, <1>5, <1>6 DEF LedgerCore

\* The steps of execute_signal.
LEMMA LedgerEntry ==
    ASSUME MaxFaults = 0, MirrorInv, LedgerCore, NEW t \in Threads, EntryStep(t)
    PROVE  LedgerCore'
<1> DEFINE c == call[t]
<1>1. ShapeInv /\ ShapeOK /\ c \in Call /\ c.pos \in Position /\ faults = 0
    BY DEF MirrorInv, ShapeInv, ShapeOK, Call
<1>2. dbPositions \in [Symbols -> Position] /\ nextOrder \in Nat \ {0}
    BY <1>1, BoundsNat DEF ShapeOK
<1>3. ASSUME NEW s \in Symbols, NEW o \in Offers, ExecuteSignal(t, s, o)
      PROVE  LedgerCore'
    <2>1. CASE Accepts(s, o)
        <3> DEFINE p == [dir |-> o.dir, entry |-> o.entry, order |-> 0,
                         qty |-> CalculatePositionSize(o.entry, o.stop)]
        <3>1. /\ call' = [call EXCEPT ![t] = [Idle EXCEPT !.stage = "send", !.sym = s, !.pos = p]]
              /\ UNCHANGED <<dbPositions, trades, nextOrder>>
            BY <1>3, <2>1 DEF ExecuteSignal, brokerVars
        <3>2. /\ call'[t].stage = "send" /\ call'[t].pos.order = 0
              /\ \A u \in Threads \ {t} : call'[u] = call[u]
            BY <1>1, <3>1 DEF Idle, ShapeOK
        <3>3. RowOrders'
            BY <3>1 DEF LedgerCore, RowOrders
        <3>4. CallOrders'
            BY <1>2, <3>1, <3>2 DEF LedgerCore, CallOrders
        <3>5. TradeOrders'
            BY <3>1, <3>2 DEF LedgerCore, TradeOrders, StaleRow
        <3> QED
            BY <3>3, <3>4, <3>5 DEF LedgerCore
    <2>2. CASE ~Accepts(s, o)
        BY <1>3, <2>2, LedgerQuiet DEF ExecuteSignal, brokerVars
    <2> QED
        BY <2>1, <2>2
<1>4. ASSUME NEW d \in Slips, EntryFilled(t, d)
      PROVE  LedgerCore'
    <2>1. /\ c.stage = "send"
          /\ nextOrder' = nextOrder + 1
          /\ nextOrder \in OrderIds
          /\ UNCHANGED <<dbPositions, trades>>
        BY <1>2, <1>4, BoundsNat DEF EntryFilled, OrderIds, dbVars
    <2>2. /\ call'[t].stage = "filled" /\ call'[t].pos.order = nextOrder
          /\ \A u \in Threads \ {t} : call'[u] = call[u]
        <3> DEFINE p == [c.pos EXCEPT !.entry = c.pos.entry + d, !.order = nextOrder]
        <3>1. call' = [call EXCEPT ![t] = [c EXCEPT !.stage = "filled", !.pos = p]]
            BY <1>1, <1>4 DEF EntryFilled, Call, Position
        <3>2. p.order = nextOrder
            BY <1>1 DEF Position
        <3> HIDE DEF p
        <3> QED
            BY <1>1, <3>1, <3>2 DEF ShapeOK, Call
    <2>3. /\ \A s \in Symbols : dbPositions[s].order \in Nat
          /\ \A u \in Threads : call[u].pos.order \in Nat
        BY <1>1, <1>2, SMTT(20) DEF Position, OrderIds, ShapeOK, Call
    <2>4. RowOrders'
        BY <1>2, <2>1, <2>3 DEF LedgerCore, RowOrders
    <2>5. CallOrders'
        BY <1>2, <2>1, <2>2, <2>3 DEF LedgerCore, CallOrders, RowOrders
    <2>6. TradeOrders'
        BY <1>2, <2>1, <2>2 DEF LedgerCore, TradeOrders, StaleRow, OrderIds
    <2> QED
        BY <2>4, <2>5, <2>6 DEF LedgerCore
<1>5. ASSUME EntryRefused(t)
      PROVE  LedgerCore'
    BY <1>1, <1>5, LedgerEnd DEF EntryRefused, dbVars, brokerVars
<1>6. ASSUME EntryUnconfirmed(t)
      PROVE  LedgerCore'
    BY <1>1, <1>6, LedgerEnd DEF EntryUnconfirmed, Unconfirmed, dbVars
<1>7. ASSUME AddPosition(t)
      PROVE  LedgerCore'
    <2>1. c.stage = "filled" /\ c.sym \in Symbols /\ c.pos.order # 0
        BY <1>1, <1>7 DEF AddPosition, ShapeInv, LedgerCore, CallOrders
    <2>2. \/ dbPositions' = dbPositions
          \/ dbPositions' = [dbPositions EXCEPT ![c.sym] = c.pos]
        BY <1>7 DEF AddPosition
    <2>3. /\ call'[t].stage = "tracked" /\ call'[t].sym = c.sym /\ call'[t].pos = c.pos
          /\ \A u \in Threads \ {t} : call'[u] = call[u]
          /\ UNCHANGED <<trades, nextOrder>>
        BY <1>1, <1>7 DEF AddPosition, ShapeOK, Call, brokerVars
    <2>4. \A s \in Symbols : dbPositions'[s] = dbPositions[s] \/ (s = c.sym /\ dbPositions'[s] = c.pos)
        BY <1>2, <2>1, <2>2
    <2>5. /\ \A s \in Symbols : dbPositions[s].order # c.pos.order
          /\ \A u \in Threads \ {t} : call[u].pos.order # c.pos.order
          /\ c.pos.order < nextOrder
        BY <2>1 DEF LedgerCore, CallOrders
    <2>6. RowOrders'
        BY <2>1, <2>3, <2>4, <2>5 DEF LedgerCore, RowOrders
    <2>7. CallOrders'
        BY <2>1, <2>3, <2>4, <2>5 DEF LedgerCore, CallOrders
    <2>8. TradeOrders'
        BY <2>1, <2>3, <2>4 DEF LedgerCore, TradeOrders, StaleRow
    <2> QED
        BY <2>6, <2>7, <2>8 DEF LedgerCore
<1>8. ASSUME PersistTrade(t)
      PROVE  LedgerCore'
    <2>1. /\ c.stage = "tracked" /\ c.pos.order \in OrderIds /\ c.pos.order < nextOrder
          /\ call' = [call EXCEPT ![t] = Idle]
          /\ UNCHANGED <<dbPositions, nextOrder>>
        BY <1>1, <1>8 DEF PersistTrade, LedgerCore, CallOrders, Position, brokerVars
    <2>2. \A i \in OrderIds : trades'[i] = trades[i] \/ (i = c.pos.order /\ trades'[i].st = "open")
        BY <1>1, <1>8, <2>1 DEF PersistTrade, ShapeOK, Trade
    <2>3. call'[t] = Idle /\ \A u \in Threads \ {t} : call'[u] = call[u]
        BY <1>1, <2>1 DEF ShapeOK
    <2>4. Idle.stage = "idle" /\ Idle.pos.order = 0
        BY DEF Idle, NoPosition
    <2>5. RowOrders'
        BY <2>1 DEF LedgerCore, RowOrders
    <2>6. CallOrders'
        BY <1>2, <2>1, <2>3, <2>4 DEF LedgerCore, CallOrders
    <2>7. TradeOrders'
        <3>1. \A s \in Symbols : dbPositions[s].order \in OrderIds \cup {0}
            BY <1>2 DEF Position
        <3>2. \A u \in Threads \ {t} : call[u].stage \in {"filled", "tracked"} =>
                  call[u].pos.order # c.pos.order /\ call[u].pos.order \in OrderIds
            BY <1>1, <2>1 DEF LedgerCore, CallOrders, ShapeOK, Call, Position
        <3>3. \A i \in OrderIds : i \in Nat
            BY BoundsNat DEF OrderIds
        <3> QED
            BY <1>2, <2>1, <2>2, <2>3, <2>4, <3>1, <3>2, <3>3
                DEF LedgerCore, TradeOrders, StaleRow
    <2> QED
        BY <2>5, <2>6, <2>7 DEF LedgerCore
<1> QED
    BY <1>3, <1>4, <1>5, <1>6, <1>7, <1>8 DEF EntryStep

\* The steps of close_position.
LEMMA LedgerExit ==
    ASSUME MaxFaults = 0, MirrorInv, LedgerCore, NEW t \in Threads, ExitStep(t)
    PROVE  LedgerCore'
<1> DEFINE c == call[t]
<1>1. ShapeInv /\ ShapeOK /\ c \in Call /\ c.pos \in Position /\ faults = 0
    BY DEF MirrorInv, ShapeInv, ShapeOK, Call
<1>2. dbPositions \in [Symbols -> Position] /\ nextOrder \in Nat \ {0}
    BY <1>1, BoundsNat DEF ShapeOK
<1>3. ASSUME NEW s \in Symbols, ClosePosition(t, s)
      PROVE  LedgerCore'
    <2>1. /\ call' = [call EXCEPT ![t] = [Idle EXCEPT !.stage = "exitSend", !.sym = s,
                                                     !.pos = positions[s]]]
          /\ UNCHANGED <<dbPositions, trades, nextOrder>>
        BY <1>3 DEF ClosePosition, dbVars, brokerVars
    <2>2. /\ call'[t].stage = "exitSend" /\ call'[t].sym = s
          /\ call'[t].pos = dbPositions[s] /\ dbPositions[s] # NoPosition
          /\ \A u \in Threads \ {t} : call'[u] = call[u]
        BY <1>1, <1>3, <2>1 DEF ClosePosition, Idle, ShapeOK, MirrorInv, HasPosition
    <2>3. RowOrders'
        BY <2>1 DEF LedgerCore, RowOrders
    <2>4. CallOrders'
        BY <2>1, <2>2 DEF LedgerCore, CallOrders, RowOrders
    <2>5. TradeOrders'
        BY <2>1, <2>2 DEF LedgerCore, TradeOrders, StaleRow
    <2> QED
        BY <2>3, <2>4, <2>5 DEF LedgerCore
<1>4. ASSUME NEW x \in ExitPrices, ExitFilled(t, x)
      PROVE  LedgerCore'
    <2>1. c.stage = "exitSend" /\ UNCHANGED <<dbPositions, trades, nextOrder>>
        BY <1>4 DEF ExitFilled, dbVars
    <2>2. /\ call'[t].stage = "exitFilled" /\ call'[t].sym = c.sym /\ call'[t].pos = c.pos
          /\ \A u \in Threads \ {t} : call'[u] = call[u]
        BY <1>1, <1>4 DEF ExitFilled, ShapeOK, Call
    <2> QED
        BY <2>1, <2>2 DEF LedgerCore, RowOrders, CallOrders, TradeOrders, StaleRow
<1>5. ASSUME ExitRefused(t)
      PROVE  LedgerCore'
    BY <1>1, <1>5, LedgerEnd DEF ExitRefused, dbVars, brokerVars
<1>6. ASSUME ExitUnconfirmed(t)
      PROVE  LedgerCore'
    BY <1>1, <1>6, LedgerEnd DEF ExitUnconfirmed, Unconfirmed, dbVars
<1>7. ASSUME BookExit(t)
      PROVE  LedgerCore'
    <2>1. /\ c.stage = "exitFilled" /\ c.sym \in Symbols /\ c.pos.order # 0
          /\ positions = dbPositions
        <3>1. c.stage = "exitFilled"
            BY <1>7 DEF BookExit
        <3> QED
            BY <1>1, <3>1 DEF MirrorInv, ShapeInv, LedgerCore, CallOrders
    <2>2. /\ dbPositions'[c.sym] = NoPosition
          /\ \A s \in Symbols \ {c.sym} : dbPositions'[s] = dbPositions[s]
        <3>1. CASE HasPosition(c.sym)
            <4>1. PICK ok \in WriteOutcomes :
                      /\ CountFault(ok)
                      /\ dbPositions' = IF ok THEN [dbPositions EXCEPT ![c.sym] = NoPosition]
                                              ELSE dbPositions
                BY <1>7, <3>1 DEF BookExit
            <4> QED
                BY <1>1, <1>2, <2>1, <4>1, NoFault
        <3>2. CASE ~HasPosition(c.sym)
            <4>1. dbPositions' = dbPositions
                BY <1>7, <3>2 DEF BookExit
            <4> QED
                BY <2>1, <3>2, <4>1 DEF HasPosition
        <3> QED
            BY <3>1, <3>2
    <2>3. /\ call'[t].stage \in {"popped", "counted"}
          /\ call'[t].pos = c.pos
          /\ \A u \in Threads \ {t} : call'[u] = call[u]
          /\ UNCHANGED <<trades, nextOrder>>
        BY <1>1, <1>7 DEF BookExit, ShapeOK, Call, brokerVars
    <2>4. NoPosition.order = 0
        BY DEF NoPosition
    <2>5. RowOrders'
        BY <1>2, <2>2, <2>3, <2>4 DEF LedgerCore, RowOrders
    <2>6. CallOrders'
        BY <2>1, <2>2, <2>3, <2>4 DEF LedgerCore, CallOrders
    <2>7. TradeOrders'
        BY <2>1, <2>2, <2>3, <2>4 DEF LedgerCore, TradeOrders, StaleRow
    <2> QED
        BY <2>5, <2>6, <2>7 DEF LedgerCore
<1>8. ASSUME SaveCounters(t)
      PROVE  LedgerCore'
    <2>1. c.stage = "popped" /\ UNCHANGED <<dbPositions, trades, nextOrder>>
        BY <1>8 DEF SaveCounters, brokerVars
    <2>2. /\ call'[t].stage = "counted" /\ call'[t].pos = c.pos
          /\ \A u \in Threads \ {t} : call'[u] = call[u]
        BY <1>1, <1>8 DEF SaveCounters, ShapeOK, Call
    <2> QED
        BY <2>1, <2>2 DEF LedgerCore, RowOrders, CallOrders, TradeOrders, StaleRow
<1>9. ASSUME UpdateTradeExit(t)
      PROVE  LedgerCore'
    <2>1. /\ c.stage = "counted"
          /\ call' = [call EXCEPT ![t] = Idle]
          /\ UNCHANGED <<dbPositions, nextOrder>>
        BY <1>9 DEF UpdateTradeExit, brokerVars
    <2>2. call'[t] = Idle /\ \A u \in Threads \ {t} : call'[u] = call[u]
        BY <1>1, <2>1 DEF ShapeOK
    <2>3. \A i \in OrderIds :
              \/ trades'[i] = trades[i]
              \/ i = c.pos.order /\ trades[i].st # "none"
        BY <1>1, <1>9 DEF UpdateTradeExit, ShapeOK
    <2>4. Idle.stage = "idle" /\ Idle.pos.order = 0
        BY DEF Idle, NoPosition
    <2>5. RowOrders'
        BY <2>1 DEF LedgerCore, RowOrders
    <2>6. CallOrders'
        BY <1>2, <2>1, <2>2, <2>4 DEF LedgerCore, CallOrders
    <2>7. TradeOrders'
        <3>1. \A s \in Symbols : dbPositions[s].order \in OrderIds \cup {0}
            BY <1>2 DEF Position
        <3>2. \A s \in Symbols : dbPositions[s].order # c.pos.order
            BY <2>1 DEF LedgerCore, CallOrders
        <3>3. \A u \in Threads : call[u].stage \in {"filled", "tracked"} =>
                  call[u].pos.order \in OrderIds
            BY <1>1 DEF LedgerCore, CallOrders, ShapeOK, Call, Position
        <3> QED
            BY <2>1, <2>2, <2>3, <2>4, <3>1, <3>2, <3>3
                DEF LedgerCore, TradeOrders, StaleRow
    <2> QED
        BY <2>5, <2>6, <2>7 DEF LedgerCore
<1> QED
    BY <1>3, <1>4, <1>5, <1>6, <1>7, <1>8, <1>9 DEF ExitStep

\* Every step keeps the order ids apart.
LEMMA LedgerStep ==
    ASSUME MaxFaults = 0, MirrorInv, LedgerCore, [Next]_vars
    PROVE  LedgerCore'
<1>1. ShapeInv /\ ShapeOK
    BY DEF MirrorInv, ShapeInv
<1>2. ASSUME NEW t \in Threads, EntryStep(t) \/ ExitStep(t)
      PROVE  LedgerCore'
    BY <1>2, LedgerEntry, LedgerExit
<1>3. CASE ForceTrigger \/ ResetSwitch \/ CheckSwitch \/ ReadStats
    BY <1>3, LedgerQuiet DEF ForceTrigger, ResetSwitch, CheckSwitch, ReadStats, brokerVars
<1>4. CASE Crash
    <2>1. /\ \A t \in Threads : call'[t] = Idle
          /\ UNCHANGED <<dbPositions, trades, nextOrder>>
        BY <1>4 DEF Crash, dbVars, brokerVars
    <2>2. Idle.stage = "idle" /\ Idle.pos.order = 0
        BY DEF Idle, NoPosition
    <2>3. nextOrder \in Nat \ {0}
        BY <1>1, BoundsNat DEF ShapeOK
    <2> QED
        BY <2>1, <2>2, <2>3 DEF LedgerCore, RowOrders, CallOrders, TradeOrders, StaleRow
<1>5. CASE Start
    <2>1. [s \in Symbols |-> IF StaleRow(s) THEN NoPosition ELSE dbPositions[s]] = dbPositions
        BY <1>1 DEF ShapeOK, LedgerCore, TradeOrders
    <2>2. dbPositions' = dbPositions
        BY <1>5, <2>1 DEF Start
    <2> QED
        BY <1>5, <2>2, LedgerQuiet DEF Start, brokerVars
<1>6. ASSUME NEW o \in resting, LateFill(o)
      PROVE  LedgerCore'
    BY <1>6, LedgerQuiet DEF LateFill, dbVars
<1>7. CASE NextDay
    BY <1>7, LedgerQuiet DEF NextDay, dbVars
<1>8. CASE UNCHANGED vars
    BY <1>8, LedgerQuiet DEF vars, dbVars, brokerVars
<1> QED
    BY <1>2, <1>3, <1>4, <1>5, <1>6, <1>7, <1>8 DEF Next

---------------------------------------------------------------------------
(* The refinement *)

\* When no write is lost the book is the rows, whether the process runs or not.
LEMMA BookIsRows ==
    ASSUME MirrorInv
    PROVE  Book = dbPositions
BY DEF MirrorInv, Book

\* Orders are past for good: ids only grow, and a call that no longer waits to
\* book its fill will not do so later.
LEMMA PastStays ==
    ASSUME ShapeOK, nextOrder' >= nextOrder, nextOrder' \in Nat,
           \A t \in Threads : call'[t].stage = "filled" =>
               \/ call[t].stage = "filled" /\ call'[t].pos = call[t].pos
               \/ call'[t].pos.order = nextOrder
    PROVE  Past \subseteq Past'
<1>1. \A i \in OrderIds : i \in Nat
    BY BoundsNat DEF OrderIds
<1>2. nextOrder \in Nat
    BY BoundsNat DEF ShapeOK
<1> QED
    BY <1>1, <1>2 DEF Past, Cut

\* A step that leaves rows and settled trades alone is a forfeit, or nothing.
LEMMA ForfeitStep ==
    ASSUME Book' = Book, Settled' = Settled, Past \subseteq Past'
    PROVE  [Ledger!Next]_(Ledger!vars)
BY DEF Ledger!Next, Ledger!Forfeit

\* The steps of a call.
LEMMA CallRefines ==
    ASSUME MaxFaults = 0, MirrorInv, LedgerCore, MirrorInv', LedgerCore',
           NEW t \in Threads, EntryStep(t) \/ ExitStep(t)
    PROVE  [Ledger!Next]_(Ledger!vars)
<1> DEFINE c == call[t]
<1>1. ShapeInv /\ ShapeOK /\ c \in Call /\ c.pos \in Position /\ faults = 0
    BY DEF MirrorInv, ShapeInv, ShapeOK, Call
<1>2. dbPositions \in [Symbols -> Position] /\ nextOrder \in Nat \ {0} /\ nextOrder' \in Nat
    BY <1>1, BoundsNat DEF ShapeOK, MirrorInv, ShapeInv
<1>3. Book = dbPositions /\ Book' = dbPositions'
    BY BookIsRows DEF MirrorInv, Book
<1>4. /\ \A u \in Threads \ {t} : call'[u] = call[u]
      /\ <<c.stage, call'[t].stage>> \in StageMoves
    BY <1>1, OwnCall
<1>5. CASE c.stage \notin {"filled", "tracked", "exitFilled", "counted"}
    <2>1. /\ UNCHANGED <<dbPositions, trades>>
          /\ nextOrder' >= nextOrder
          /\ c.stage = "send" /\ call'[t].stage = "filled" => call'[t].pos.order = nextOrder
        <3>1. ASSUME NEW d \in Slips, EntryFilled(t, d)
              PROVE  call'[t].pos.order = nextOrder /\ nextOrder' = nextOrder + 1
                     /\ UNCHANGED <<dbPositions, trades>>
            <4> DEFINE p == [c.pos EXCEPT !.entry = c.pos.entry + d, !.order = nextOrder]
            <4>1. call' = [call EXCEPT ![t] = [c EXCEPT !.stage = "filled", !.pos = p]]
                BY <1>1, <3>1 DEF EntryFilled, Call, Position
            <4>2. p.order = nextOrder
                BY <1>1 DEF Position
            <4> HIDE DEF p
            <4>3. call'[t].pos.order = nextOrder
                BY <1>1, <4>1, <4>2 DEF ShapeOK, Call
            <4> QED
                BY <3>1, <4>3 DEF EntryFilled, dbVars
        <3>2. CASE \E d \in Slips : EntryFilled(t, d)
            BY <1>2, <3>1, <3>2
        <3>3. CASE ~\E d \in Slips : EntryFilled(t, d)
            <4>1. UNCHANGED <<dbPositions, trades, nextOrder>>
                BY <1>5, <3>3 DEF EntryStep, ExitStep, ExecuteSignal, EntryRefused,
                    EntryUnconfirmed, Unconfirmed, AddPosition, PersistTrade, ClosePosition,
                    ExitFilled, ExitRefused, ExitUnconfirmed, BookExit, SaveCounters,
                    UpdateTradeExit, dbVars, brokerVars
            <4>2. ~(c.stage = "send" /\ call'[t].stage = "filled")
                <5>1. SUFFICES ASSUME c.stage = "send"
                               PROVE  call'[t].stage = "idle"
                    OBVIOUS
                <5>2. EntryRefused(t) \/ EntryUnconfirmed(t)
                    BY <3>3, <5>1 DEF EntryStep, ExitStep, ExecuteSignal, AddPosition,
                        PersistTrade, ClosePosition, ExitFilled, ExitRefused, ExitUnconfirmed,
                        Unconfirmed, BookExit, SaveCounters, UpdateTradeExit
                <5>3. call' = [call EXCEPT ![t] = Idle]
                    BY <5>2 DEF EntryRefused, EntryUnconfirmed, Unconfirmed
                <5> QED
                    BY <1>1, <5>3 DEF ShapeOK, Idle
            <4> QED
                BY <1>2, <4>1, <4>2
        <3> QED
            BY <3>2, <3>3
    <2>2. Past \subseteq Past'
        BY <1>1, <1>2, <1>4, <1>5, <2>1, PastStays DEF StageMoves
    <2> QED
        BY <1>3, <2>1, <2>2, ForfeitStep DEF Settled
<1>6. CASE AddPosition(t)
    <2>1. /\ c.stage = "filled" /\ call'[t].stage = "tracked" /\ c.sym \in Symbols
          /\ UNCHANGED <<trades, nextOrder>>
        BY <1>1, <1>6 DEF AddPosition, brokerVars, ShapeInv, ShapeOK, Call
    <2>2. /\ c.pos.order \in OrderIds /\ c.pos.order < nextOrder /\ c.pos.order # 0
          /\ \A u \in Threads \ {t} : call[u].pos.order # c.pos.order
        BY <1>1, <2>1 DEF LedgerCore, CallOrders, Position
    <2>3. Past' = Past \cup {c.pos.order}
        BY <1>4, <2>1, <2>2 DEF Past, Cut
    <2>4. c.pos.order \notin Past
        BY <2>1 DEF Past, Cut
    <2>5. Settled' = Settled
        BY <2>1 DEF Settled
    <2>6. CASE HasPosition(c.sym)
        BY <1>3, <1>6, <2>3, <2>5, <2>6, ForfeitStep DEF AddPosition
    <2>7. CASE ~HasPosition(c.sym)
        <3>1. PICK ok \in WriteOutcomes :
                  /\ CountFault(ok)
                  /\ positions' = [positions EXCEPT ![c.sym] = c.pos]
                  /\ dbPositions' = IF ok THEN [dbPositions EXCEPT ![c.sym] = c.pos]
                                          ELSE dbPositions
            BY <1>6, <2>7 DEF AddPosition
        <3>2. dbPositions' = [dbPositions EXCEPT ![c.sym] = c.pos]
            BY <1>1, <3>1, NoFault
        <3>3. dbPositions[c.sym] = NoPosition
            <4>1. up
                BY <2>1 DEF MirrorInv
            <4> QED
                BY <2>7, <4>1 DEF MirrorInv, HasPosition
        <3>4. c.pos # NoPosition /\ Book'[c.sym] = c.pos
            BY <1>2, <1>3, <2>1, <2>2, <3>2 DEF NoPosition
        <3>5. Ledger!Open(c.sym)
            BY <1>3, <2>3, <2>4, <2>5, <3>2, <3>3, <3>4 DEF Ledger!Open
        <3> QED
            BY <2>1, <3>5 DEF Ledger!Next
    <2> QED
        BY <2>6, <2>7
<1>7. CASE PersistTrade(t)
    <2>1. /\ c.stage = "tracked" /\ c.pos.order \in OrderIds
          /\ trades[c.pos.order].st = "none"
          /\ UNCHANGED <<dbPositions, nextOrder>>
        BY <1>1, <1>7 DEF PersistTrade, LedgerCore, CallOrders, TradeOrders, Position, brokerVars
    <2>2. Settled' = Settled
        BY <1>1, <1>7, <2>1 DEF PersistTrade, Settled, ShapeOK, Trade
    <2>3. Past \subseteq Past'
        BY <1>1, <1>2, <1>4, <2>1, PastStays DEF StageMoves
    <2> QED
        BY <1>3, <2>1, <2>2, <2>3, ForfeitStep
<1>8. CASE BookExit(t)
    <2>1. /\ c.stage = "exitFilled" /\ c.sym \in Symbols
          /\ call'[t].stage \in {"popped", "counted"}
          /\ UNCHANGED <<trades, nextOrder>>
        BY <1>1, <1>4, <1>8 DEF BookExit, ShapeInv, brokerVars, StageMoves
    <2>2. Past' = Past /\ Settled' = Settled
        BY <1>4, <2>1 DEF Past, Cut, Settled
    <2>3. CASE HasPosition(c.sym)
        <3>1. PICK ok \in WriteOutcomes :
                  /\ CountFault(ok)
                  /\ dbPositions' = IF ok THEN [dbPositions EXCEPT ![c.sym] = NoPosition]
                                          ELSE dbPositions
            BY <1>8, <2>3 DEF BookExit
        <3>2. dbPositions' = [dbPositions EXCEPT ![c.sym] = NoPosition]
            BY <1>1, <3>1, NoFault
        <3>3. dbPositions[c.sym] # NoPosition
            BY <2>1, <2>3 DEF MirrorInv, HasPosition
        <3>4. Ledger!Close(c.sym)
            BY <1>3, <2>2, <3>2, <3>3 DEF Ledger!Close
        <3> QED
            BY <2>1, <3>4 DEF Ledger!Next
    <2>4. CASE ~HasPosition(c.sym)
        BY <1>3, <1>8, <2>2, <2>4, ForfeitStep DEF BookExit
    <2> QED
        BY <2>3, <2>4
<1>9. CASE UpdateTradeExit(t)
    <2>1. c.stage = "counted" /\ UNCHANGED <<dbPositions, nextOrder>> /\ call'[t].stage = "idle"
        BY <1>1, <1>9 DEF UpdateTradeExit, brokerVars, ShapeOK, Idle
    <2>2. Past' = Past
        BY <1>4, <2>1 DEF Past, Cut
    <2>3. /\ c.pos.order \in OrderIds /\ c.pos.order < nextOrder
          /\ \A s \in Symbols : dbPositions[s].order # c.pos.order
          /\ \A u \in Threads : call[u].stage = "filled" => call[u].pos.order # c.pos.order
        BY <1>1, <2>1 DEF LedgerCore, CallOrders, Position
    <2>4. c.pos.order \in Past \ Ledger!Ids(Book)
        BY <1>3, <2>3 DEF Past, Cut, Ledger!Ids
    <2>5. Settled' = Settled \/ Settled' = Settled \cup {c.pos.order}
        <3>1. \/ trades' = trades
              \/ trades' = [trades EXCEPT ![c.pos.order] =
                               [st |-> "closed", pnl |-> c.pnl, day |-> today]]
            BY <1>9 DEF UpdateTradeExit
        <3> QED
            BY <1>1, <2>3, <3>1 DEF Settled, ShapeOK
    <2>6. CASE Settled' = Settled
        BY <1>3, <2>1, <2>2, <2>6, ForfeitStep
    <2>7. CASE Settled' = Settled \cup {c.pos.order}
        BY <1>3, <2>1, <2>2, <2>4, <2>7 DEF Ledger!Next, Ledger!Settle
    <2> QED
        BY <2>5, <2>6, <2>7
<1> QED
    <2>1. CASE c.stage \in {"filled", "tracked", "exitFilled", "counted"}
        BY <1>6, <1>7, <1>8, <1>9, <2>1 DEF EntryStep, ExitStep, ExecuteSignal, EntryFilled,
            EntryRefused, EntryUnconfirmed, Unconfirmed, ClosePosition, ExitFilled,
            ExitRefused, ExitUnconfirmed, SaveCounters
    <2> QED
        BY <1>5, <2>1

\* Every step of the engine is a step of the ledger, or none.
LEMMA StepRefines ==
    ASSUME MaxFaults = 0, MirrorInv, LedgerCore, [Next]_vars
    PROVE  [Ledger!Next]_(Ledger!vars)
<1>1. MirrorInv' /\ LedgerCore'
    BY MirrorStep, LedgerStep
<1>2. Book = dbPositions /\ Book' = dbPositions'
    BY <1>1, BookIsRows DEF MirrorInv, Book
<1>3. ShapeInv /\ ShapeOK
    BY DEF MirrorInv, ShapeInv
<1>4. nextOrder \in Nat
    BY <1>3, BoundsNat DEF ShapeOK
<1>5. ASSUME NEW t \in Threads, EntryStep(t) \/ ExitStep(t)
      PROVE  [Ledger!Next]_(Ledger!vars)
    BY <1>1, <1>5, CallRefines
<1>6. ASSUME UNCHANGED <<call, dbPositions, trades, nextOrder>>
      PROVE  [Ledger!Next]_(Ledger!vars)
    BY <1>2, <1>6 DEF Ledger!vars, Past, Cut, Settled
<1>7. CASE ForceTrigger \/ ResetSwitch \/ CheckSwitch \/ ReadStats
    BY <1>6, <1>7 DEF ForceTrigger, ResetSwitch, CheckSwitch, ReadStats, brokerVars
<1>8. CASE Crash
    <2>1. /\ \A t \in Threads : call'[t].stage = "idle"
          /\ UNCHANGED <<dbPositions, trades, nextOrder>>
        BY <1>8 DEF Crash, dbVars, brokerVars, Idle
    <2>2. Past \subseteq Past'
        BY <2>1 DEF Past, Cut
    <2> QED
        BY <1>2, <2>1, <2>2, ForfeitStep DEF Settled
<1>9. CASE Start
    <2>1. [s \in Symbols |-> IF StaleRow(s) THEN NoPosition ELSE dbPositions[s]] = dbPositions
        BY <1>3 DEF ShapeOK, LedgerCore, TradeOrders
    <2> QED
        BY <1>6, <1>9, <2>1 DEF Start, brokerVars
<1>10. ASSUME NEW o \in resting, LateFill(o)
       PROVE  [Ledger!Next]_(Ledger!vars)
    BY <1>6, <1>10 DEF LateFill, dbVars
<1>11. CASE NextDay
    BY <1>6, <1>11 DEF NextDay, dbVars
<1>12. CASE UNCHANGED vars
    BY <1>6, <1>12 DEF vars, dbVars, brokerVars
<1> QED
    BY <1>5, <1>7, <1>8, <1>9, <1>10, <1>11, <1>12 DEF Next

\* The order ids start unused.
LEMMA LedgerInit == Init => LedgerCore
<1>1. OrderIds \subseteq Nat \ {0}
    BY BoundsNat DEF OrderIds
<1> QED
    BY <1>1 DEF Init, LedgerCore, RowOrders, CallOrders, TradeOrders, StaleRow, Idle,
        NoPosition, NoTrade

\* If no database write is lost, the engine implements the ledger: whatever the
\* number of threads and wherever it crashes, a position is not overwritten by a
\* second fill, does not come back after it was closed, and its trade row is
\* closed only once it has left (execute_signal, close_position,
\* _update_trade_exit, _load_from_db).
THEOREM ImplementsLedger ==
    ASSUME MaxFaults = 0
    PROVE  Spec => LedgerSpec
<1>1. Init => MirrorInv /\ LedgerCore /\ Ledger!Init
    <2> SUFFICES ASSUME Init PROVE Ledger!Init
        BY MirrorInit, LedgerInit
    <2>1. OrderIds \subseteq Nat \ {0}
        BY BoundsNat DEF OrderIds
    <2>2. Book = [s \in Symbols |-> NoPosition] /\ Past = {} /\ Settled = {}
        <3>1. Book = [s \in Symbols |-> NoPosition]
            BY DEF Init, Book
        <3>2. Past = {}
            <4>1. \A i \in OrderIds : ~(i < 1)
                BY <2>1
            <4> QED
                BY <4>1 DEF Init, Past
        <3>3. Settled = {}
            BY DEF Init, Settled, NoTrade
        <3> QED
            BY <3>1, <3>2, <3>3
    <2> QED
        BY <2>2 DEF Ledger!Init
<1>2. MirrorInv /\ LedgerCore /\ [Next]_vars => (MirrorInv /\ LedgerCore)'
    BY MirrorStep, LedgerStep
<1>3. MirrorInv /\ LedgerCore /\ [Next]_vars => [Ledger!Next]_(Ledger!vars)
    BY StepRefines
<1> QED
    BY <1>1, <1>2, <1>3, PTL DEF Spec, LedgerSpec, Ledger!Spec

---------------------------------------------------------------------------
(* Open trades *)

\* A call hands the order it works on over to the rows, or keeps it.
LEMMA OpenTradesCall ==
    ASSUME MaxFaults = 0, MirrorInv, SerialCore, LedgerCore, OpenTradesCore,
           NEW w, Threads = {w}, EntryStep(w) \/ ExitStep(w)
    PROVE  OpenTradesCore'
<1> DEFINE c == call[w]
           Found(i) == (\E s \in Symbols : dbPositions[s].order = i) \/ c.pos.order = i
<1>1. ShapeInv /\ ShapeOK /\ c \in Call /\ c.pos \in Position /\ faults = 0
    BY DEF MirrorInv, ShapeInv, ShapeOK, Call
<1>2. \A i \in OrderIds \ tornTrades : trades[i].st = "open" => Found(i)
    BY DEF OpenTradesCore
<1>3. \A i \in OrderIds : i # 0
    BY BoundsNat DEF OrderIds
<1>4. c.stage \in {"idle", "send"} => c.pos.order = 0
    BY DEF OpenTradesCore
<1>5. c.stage # "idle" => c.sym \in Symbols
    BY <1>1 DEF ShapeInv
<1>6. c.stage \in {"tracked", "exitSend", "exitFilled"} => dbPositions[c.sym] = c.pos
    BY DEF SerialCore, CallMatchesRows
<1>7. ASSUME call' = [call EXCEPT ![w] = Idle], dbPositions' = dbPositions,
             \A i \in OrderIds \ tornTrades' :
                 trades'[i].st = "open" => \E s \in Symbols : dbPositions[s].order = i
      PROVE  OpenTradesCore'
    <2>1. call'[w] = Idle /\ Idle.stage = "idle" /\ Idle.pos.order = 0
        BY <1>1, <1>7 DEF ShapeOK, Idle, NoPosition
    <2> QED
        BY <1>7, <2>1 DEF OpenTradesCore
<1>8. ASSUME trades' = trades, tornTrades' = tornTrades, dbPositions' = dbPositions,
             c.pos.order \in {0, call'[w].pos.order},
             call'[w].stage \in {"idle", "send"} => call'[w].pos.order = 0
      PROVE  OpenTradesCore'
    BY <1>2, <1>3, <1>8 DEF OpenTradesCore
<1>9. ASSUME NEW s \in Symbols, NEW o \in Offers, ExecuteSignal(w, s, o)
      PROVE  OpenTradesCore'
    <2>1. UNCHANGED <<trades, tornTrades, dbPositions>> /\ c.stage = "idle"
        BY <1>9 DEF ExecuteSignal, histVars
    <2>2. call'[w].pos.order = 0
        BY <1>1, <1>4, <1>9, <2>1 DEF ExecuteSignal, ShapeOK, Idle
    <2> QED
        BY <1>4, <1>8, <2>1, <2>2
<1>10. ASSUME NEW d \in Slips, EntryFilled(w, d)
       PROVE  OpenTradesCore'
    <2>1. UNCHANGED <<trades, tornTrades, dbPositions>> /\ c.stage = "send"
        BY <1>10 DEF EntryFilled, histVars, dbVars
    <2>2. call'[w].stage = "filled"
        BY <1>1, <1>10 DEF EntryFilled, ShapeOK, Call
    <2> QED
        BY <1>4, <1>8, <2>1, <2>2
<1>11. CASE EntryRefused(w) \/ EntryUnconfirmed(w) \/ ExitRefused(w) \/ ExitUnconfirmed(w)
    <2>1. /\ UNCHANGED <<trades, tornTrades, dbPositions>>
          /\ c.stage \in {"send", "exitSend"}
          /\ call' = [call EXCEPT ![w] = Idle]
        BY <1>11 DEF EntryRefused, EntryUnconfirmed, ExitRefused, ExitUnconfirmed, Unconfirmed,
            histVars, dbVars
    <2>2. \A i \in OrderIds : Found(i) => \E s \in Symbols : dbPositions[s].order = i
        BY <1>3, <1>4, <1>5, <1>6, <2>1
    <2> QED
        BY <1>2, <1>7, <2>1, <2>2
<1>12. CASE AddPosition(w)
    <2>1. /\ c.stage = "filled" /\ dbPositions[c.sym] = NoPosition /\ c.sym \in Symbols
          /\ UNCHANGED <<trades, tornTrades>>
        BY <1>5, <1>12 DEF AddPosition, SerialCore, CallMatchesRows, histVars
    <2>2. call'[w].pos = c.pos /\ call'[w].stage = "tracked"
        BY <1>1, <1>12 DEF AddPosition, ShapeOK, Call
    <2>3. \A s \in Symbols \ {c.sym} : dbPositions'[s] = dbPositions[s]
        BY <1>1, <1>12 DEF AddPosition, ShapeOK
    <2>4. \A s \in Symbols : dbPositions[s].order \in OrderIds => dbPositions'[s] = dbPositions[s]
        BY <1>3, <2>1, <2>3 DEF NoPosition
    <2> QED
        BY <1>2, <2>1, <2>2, <2>4 DEF OpenTradesCore
<1>13. CASE PersistTrade(w)
    <2>1. /\ c.stage = "tracked" /\ dbPositions' = dbPositions
          /\ call' = [call EXCEPT ![w] = Idle]
          /\ tornTrades \subseteq tornTrades'
        BY <1>13 DEF PersistTrade
    <2>2. \A i \in OrderIds : trades'[i].st = "open" => trades[i].st = "open" \/ i = c.pos.order
        BY <1>1, <1>13 DEF PersistTrade, ShapeOK
    <2>3. \A i \in OrderIds : Found(i) => \E s \in Symbols : dbPositions[s].order = i
        BY <1>5, <1>6, <2>1
    <2> QED
        BY <1>2, <1>7, <2>1, <2>2, <2>3
<1>14. ASSUME NEW s \in Symbols, ClosePosition(w, s)
       PROVE  OpenTradesCore'
    <2>1. UNCHANGED <<trades, tornTrades, dbPositions>> /\ c.stage = "idle"
        BY <1>14 DEF ClosePosition, histVars, dbVars
    <2>2. call'[w].stage = "exitSend"
        BY <1>1, <1>14 DEF ClosePosition, ShapeOK, Idle
    <2> QED
        BY <1>4, <1>8, <2>1, <2>2
<1>15. CASE (\E x \in ExitPrices : ExitFilled(w, x)) \/ SaveCounters(w)
    <2>1. UNCHANGED <<trades, tornTrades, dbPositions>>
        BY <1>15 DEF ExitFilled, SaveCounters, histVars, dbVars
    <2>2. ASSUME NEW x \in ExitPrices, ExitFilled(w, x)
          PROVE  call'[w].stage = "exitFilled" /\ call'[w].pos = c.pos
        BY <1>1, <2>2 DEF ExitFilled, ShapeOK, Call
    <2>3. SaveCounters(w) => call'[w].stage = "counted" /\ call'[w].pos = c.pos
        BY <1>1 DEF SaveCounters, ShapeOK, Call
    <2> QED
        BY <1>8, <1>15, <2>1, <2>2, <2>3
<1>16. CASE BookExit(w)
    <2>1. UNCHANGED <<trades, tornTrades>> /\ c.stage = "exitFilled"
        BY <1>16 DEF BookExit, histVars
    <2>2. call'[w].stage \in {"popped", "counted"} /\ call'[w].pos = c.pos
        BY <1>1, <1>16 DEF BookExit, ShapeOK, Call
    <2>3. \A s \in Symbols \ {c.sym} : dbPositions'[s] = dbPositions[s]
        BY <1>1, <1>16 DEF BookExit, ShapeOK
    <2>4. dbPositions[c.sym].order = c.pos.order
        BY <1>6, <2>1
    <2> QED
        BY <1>2, <2>1, <2>2, <2>3, <2>4 DEF OpenTradesCore
<1>17. CASE UpdateTradeExit(w)
    <2>1. /\ dbPositions' = dbPositions
          /\ call' = [call EXCEPT ![w] = Idle]
          /\ tornTrades \subseteq tornTrades'
        BY <1>17 DEF UpdateTradeExit
    <2>2. PICK ok \in WriteOutcomes :
              /\ CountFault(ok)
              /\ trades' = IF ok /\ c.pos.order # 0 /\ trades[c.pos.order].st # "none"
                             THEN [trades EXCEPT ![c.pos.order] =
                                     [st |-> "closed", pnl |-> c.pnl, day |-> today]]
                             ELSE trades
        BY <1>17 DEF UpdateTradeExit
    <2>3. ok = TRUE
        BY <1>1, <2>2, NoFault
    <2>4. \A i \in OrderIds : trades'[i].st = "open" => trades[i].st = "open" /\ i # c.pos.order
        BY <1>1, <1>3, <2>2, <2>3 DEF ShapeOK
    <2> QED
        BY <1>2, <1>7, <2>1, <2>4
<1> QED
    BY <1>9, <1>10, <1>11, <1>12, <1>13, <1>14, <1>15, <1>16, <1>17 DEF EntryStep, ExitStep

\* Every step keeps the open trades held; a crash that cuts a call between a
\* position row and a trade row says so in tornTrades.
LEMMA OpenTradesStep ==
    ASSUME MaxFaults = 0, NEW w, Threads = {w}, MirrorInv, SerialCore, LedgerCore,
           OpenTradesCore, [Next]_vars
    PROVE  OpenTradesCore'
<1>1. ShapeInv /\ ShapeOK
    BY DEF MirrorInv, ShapeInv
<1>2. ASSUME NEW t \in Threads, EntryStep(t) \/ ExitStep(t)
      PROVE  OpenTradesCore'
    BY <1>2, OpenTradesCall
<1>3. ASSUME UNCHANGED <<call, dbPositions, trades, tornTrades>>
      PROVE  OpenTradesCore'
    BY <1>3 DEF OpenTradesCore
<1>4. CASE ForceTrigger \/ ResetSwitch \/ CheckSwitch \/ ReadStats
    BY <1>3, <1>4 DEF ForceTrigger, ResetSwitch, CheckSwitch, ReadStats, histVars
<1>5. CASE Crash
    <2> DEFINE c == call[w]
    <2>1. /\ UNCHANGED <<dbPositions, trades>>
          /\ tornTrades \subseteq tornTrades'
          /\ c.stage \in {"tracked", "popped", "counted"} => c.pos.order \in tornTrades'
          /\ call'[w].stage = "idle" /\ call'[w].pos.order = 0
        BY <1>5 DEF Crash, Cut, Idle, NoPosition, dbVars
    <2>2. c.stage \in Stages
        BY <1>1 DEF ShapeOK, Call
    <2>3. ASSUME NEW i \in OrderIds \ tornTrades', trades[i].st = "open", c.pos.order = i
          PROVE  \E s \in Symbols : dbPositions[s].order = i
        <3>1. i # 0
            BY BoundsNat DEF OrderIds
        <3>2. c.stage \notin {"idle", "send", "filled", "tracked", "popped", "counted"}
            BY <2>1, <2>3, <3>1 DEF OpenTradesCore, LedgerCore, TradeOrders
        <3>3. c.stage \in {"exitSend", "exitFilled"}
            BY <2>2, <3>2 DEF Stages
        <3> QED
            BY <1>1, <2>3, <3>3 DEF SerialCore, CallMatchesRows, ShapeInv
    <2> QED
        BY <2>1, <2>3 DEF OpenTradesCore
<1>6. CASE Start
    <2>1. [s \in Symbols |-> IF StaleRow(s) THEN NoPosition ELSE dbPositions[s]] = dbPositions
        BY <1>1 DEF ShapeOK, LedgerCore, TradeOrders
    <2> QED
        BY <1>3, <1>6, <2>1 DEF Start, histVars
<1>7. CASE (\E o \in resting : LateFill(o)) \/ NextDay \/ UNCHANGED vars
    BY <1>3, <1>7 DEF LateFill, NextDay, vars, dbVars, histVars
<1> QED
    BY <1>2, <1>4, <1>5, <1>6, <1>7 DEF Next

\* With one caller at a time a trade row without an exit belongs to a position
\* in the book or to the call that is closing it, in every state, unless a
\* crash came between the position row and the trade row (_persist_trade,
\* remove_position, _update_trade_exit).
THEOREM OpenTradesHeld ==
    ASSUME MaxFaults = 0, NEW w, Threads = {w}
    PROVE  Spec => []OpenTradesAreHeld
<1> DEFINE Inv == MirrorInv /\ SerialCore /\ LedgerCore /\ OpenTradesCore
<1>1. Init => Inv
    <2>1. Init => OpenTradesCore
        BY DEF Init, OpenTradesCore, Idle, NoPosition, NoTrade
    <2> QED
        BY <2>1, MirrorInit, SerialInit, LedgerInit
<1>2. Inv /\ [Next]_vars => Inv'
    BY MirrorStep, SerialStep, LedgerStep, OpenTradesStep
<1>3. Inv => OpenTradesAreHeld
    <2>1. MirrorInv => Book = dbPositions
        BY DEF MirrorInv, Book
    <2> QED
        BY <2>1 DEF OpenTradesCore, OpenTradesAreHeld
<1> QED
    BY <1>1, <1>2, <1>3, PTL DEF Spec

---------------------------------------------------------------------------
(* Closed positions, when writes are lost *)

\* Faults are only ever counted up.
LEMMA FaultsGrow ==
    ASSUME ShapeOK, [Next]_vars
    PROVE  faults' \in Nat /\ faults' >= faults
<1>1. faults \in Nat
    BY DEF ShapeOK
<1>2. ASSUME NEW ok, CountFault(ok)
      PROVE  faults' \in Nat /\ faults' >= faults
    BY <1>1, <1>2 DEF CountFault
<1>3. ASSUME faults' = faults
      PROVE  faults' \in Nat /\ faults' >= faults
    BY <1>1, <1>3
<1>4. ASSUME NEW t \in Threads, EntryStep(t)
      PROVE  faults' \in Nat /\ faults' >= faults
    BY <1>2, <1>3, <1>4 DEF EntryStep, ExecuteSignal, EntryFilled, EntryRefused,
        EntryUnconfirmed, Unconfirmed, AddPosition, PersistTrade, envVars
<1>5. ASSUME NEW t \in Threads, ExitStep(t)
      PROVE  faults' \in Nat /\ faults' >= faults
    BY <1>2, <1>3, <1>5 DEF ExitStep, ClosePosition, ExitFilled, ExitRefused, ExitUnconfirmed,
        Unconfirmed, BookExit, SaveCounters, UpdateTradeExit, envVars
<1>6. ForceTrigger \/ ResetSwitch \/ CheckSwitch \/ ReadStats \/ Crash \/ Start
          => faults' \in Nat /\ faults' >= faults
    BY <1>2, <1>3 DEF ForceTrigger, ResetSwitch, CheckSwitch, ReadStats, Crash, Start
<1>7. (\E o \in resting : LateFill(o)) \/ NextDay \/ UNCHANGED vars => faults' = faults
    BY DEF LateFill, NextDay, vars, envVars
<1> QED
    BY <1>3, <1>4, <1>5, <1>6, <1>7 DEF Next

\* The order ids of the books.
LEMMA BookTypes ==
    ASSUME ShapeOK
    PROVE  \A b \in Books, s \in Symbols :
               b[s].order \in OrderIds \cup {0} /\ b[s].order \in Nat
<1>1. \A p \in Position : p.order \in OrderIds \cup {0} /\ p.order \in Nat
    BY BoundsNat DEF Position, OrderIds
<1> QED
    BY <1>1 DEF ShapeOK, Books

\* A step that leaves both books and the trades alone keeps what ClosedCore says
\* of them.
LEMMA ClosedQuiet ==
    ASSUME ShapeOK, ClosedCore, NEW w, Threads = {w},
           UNCHANGED <<positions, dbPositions, trades, closed>>,
           nextOrder' \in Nat, nextOrder' >= nextOrder, faults' \in Nat, faults' >= faults,
           unrecorded \subseteq unrecorded',
           call[w].stage = "tracked" =>
               \/ call'[w].stage = "tracked" /\ call'[w].pos.order = call[w].pos.order
               \/ faults' >= 1
    PROVE  BookOrders' /\ MissingTrades' /\ NotRevived'
<1>1. /\ nextOrder \in Nat /\ faults \in Nat /\ closed \subseteq Nat
      /\ \A b \in Books, s \in Symbols : b[s].order \in Nat
    <2>1. nextOrder \in Nat /\ faults \in Nat
        BY BoundsNat DEF ShapeOK
    <2>2. closed \subseteq Nat
        BY BoundsNat DEF ShapeOK, OrderIds
    <2> QED
        BY <2>1, <2>2, BookTypes
<1>2. Books' = Books
    BY DEF Books
<1>3. BookOrders'
    BY <1>1, <1>2 DEF ClosedCore, BookOrders
<1>4. MissingTrades'
    BY <1>1, <1>2 DEF ClosedCore, MissingTrades
<1>5. \A i : /\ FaultsToRevive(i) \in Nat /\ FaultsToRevive(i)' \in Nat
             /\ FaultsToRevive(i)' <= FaultsToRevive(i)
    BY DEF FaultsToRevive
<1>6. \A i : faults >= FaultsToRevive(i) => faults' >= FaultsToRevive(i)'
    BY <1>1, <1>5
<1>7. \A s \in Symbols : StaleRow(s)' = StaleRow(s)
    BY DEF StaleRow
<1>8. \A i \in closed' : i < nextOrder'
    BY <1>1 DEF ClosedCore, NotRevived
<1>9. NotRevived'
    <2>1. \A s \in Symbols :
              positions'[s].order \in closed' \ {0} =>
                  faults' >= FaultsToRevive(positions[s].order)'
        BY <1>6 DEF ClosedCore, NotRevived
    <2>2. \A s \in Symbols :
              dbPositions'[s].order \in closed' \ {0} =>
                  StaleRow(s)' \/ faults' >= FaultsToRevive(dbPositions[s].order)'
        BY <1>6, <1>7 DEF ClosedCore, NotRevived
    <2> QED
        BY <1>8, <2>1, <2>2 DEF NotRevived, FaultsToRevive
<1> QED
    BY <1>3, <1>4, <1>9

\* Between calls ClosedCore says nothing of the call.
LEMMA ClosedIdle ==
    ASSUME ShapeOK', NEW w, Threads = {w}, call'[w] = Idle
    PROVE  CallOnBooks' /\ LeftBehind'
<1>1. nextOrder' \in Nat \ {0}
    BY BoundsNat DEF ShapeOK
<1>2. call'[w].stage = "idle" /\ call'[w].pos.order = 0
    BY DEF Idle, NoPosition
<1> QED
    BY <1>1, <1>2 DEF CallOnBooks, LeftBehind

\* Positions only leave the books, or are read from one into the other.
LEMMA BooksShrink ==
    ASSUME ShapeOK, BookOrders, nextOrder' = nextOrder,
           \A a \in Books', s \in Symbols :
               a[s].order = 0 \/ \E b \in Books : a[s].order = b[s].order
    PROVE  BookOrders'
<1>1. nextOrder \in Nat \ {0}
    BY BoundsNat DEF ShapeOK
<1>2. ASSUME NEW a \in Books', NEW b \in Books', NEW s \in Symbols, NEW r \in Symbols
      PROVE  /\ a[s].order < nextOrder
             /\ a[s].order = b[r].order /\ s # r => a[s].order = 0
    <2>1. CASE a[s].order = 0
        BY <1>1, <2>1
    <2>2. CASE a[s].order # 0
        <3>1. PICK p \in Books : a[s].order = p[s].order
            BY <2>2
        <3>2. b[r].order = 0 \/ \E q \in Books : b[r].order = q[r].order
            OBVIOUS
        <3> QED
            BY <2>2, <3>1, <3>2 DEF BookOrders
    <2> QED
        BY <2>1, <2>2
<1> QED
    BY <1>2 DEF BookOrders

\* The steps of execute_signal: a fill's order is new, so no row, memory entry
\* or closed position has it.
LEMMA ClosedEntry ==
    ASSUME ShapeInv, ClosedCore, NEW w, Threads = {w}, EntryStep(w)
    PROVE  ClosedCore'
<1> DEFINE c == call[w]
<1>1. /\ ShapeInv' /\ ShapeOK /\ ShapeOK'
      /\ faults \in Nat /\ faults' \in Nat /\ faults' >= faults
      /\ nextOrder \in Nat
      /\ \A b \in Books, s \in Symbols : b[s].order \in Nat
    <2>1. [Next]_vars
        BY DEF Next
    <2>2. ShapeInv' /\ ShapeOK /\ ShapeOK'
        BY <2>1, ShapeStep DEF ShapeInv
    <2>3. nextOrder \in Nat
        BY <2>2, BoundsNat DEF ShapeOK
    <2>4. \A b \in Books, s \in Symbols : b[s].order \in Nat
        BY <2>2, BookTypes
    <2>5. faults \in Nat /\ faults' \in Nat /\ faults' >= faults
        BY <2>1, <2>2, FaultsGrow DEF ShapeOK
    <2> QED
        BY <2>2, <2>3, <2>4, <2>5
<1>2. c \in Call /\ (c.stage # "idle" => up)
    BY <1>1 DEF ShapeOK, ClosedCore, CallOnBooks
<1>3. ASSUME UNCHANGED <<positions, dbPositions, trades, closed, nextOrder>>,
             unrecorded \subseteq unrecorded', call' = [call EXCEPT ![w] = Idle],
             c.stage # "tracked"
      PROVE  ClosedCore'
    <2>1. call'[w] = Idle
        BY <1>1, <1>3 DEF ShapeOK
    <2> QED
        BY <1>1, <1>3, <2>1, ClosedIdle, ClosedQuiet DEF ClosedCore
<1>4. ASSUME NEW s \in Symbols, NEW o \in Offers, ExecuteSignal(w, s, o)
      PROVE  ClosedCore'
    <2>1. /\ UNCHANGED <<up, positions, dbPositions, trades, closed, nextOrder, unrecorded>>
          /\ c.stage = "idle" /\ up
        BY <1>4 DEF ExecuteSignal, histVars, brokerVars
    <2>2. call'[w] = c \/ (call'[w].stage = "send" /\ call'[w].pos.order = 0)
        BY <1>1, <1>4 DEF ExecuteSignal, ShapeOK, Idle
    <2>3. BookOrders' /\ MissingTrades' /\ NotRevived'
        BY <1>1, <2>1, ClosedQuiet
    <2>4. CallOnBooks' /\ LeftBehind'
        <3>1. nextOrder > 0
            BY <1>1, BoundsNat DEF ShapeOK
        <3> QED
            BY <2>1, <2>2, <3>1 DEF ClosedCore, CallOnBooks, LeftBehind
    <2> QED
        BY <2>3, <2>4 DEF ClosedCore
<1>5. ASSUME NEW d \in Slips, EntryFilled(w, d)
      PROVE  ClosedCore'
    <2>1. /\ UNCHANGED <<up, positions, dbPositions, trades, closed, unrecorded>>
          /\ c.stage = "send" /\ nextOrder' = nextOrder + 1
        BY <1>5 DEF EntryFilled, histVars, memVars, dbVars, envVars
    <2>2. call'[w].stage = "filled" /\ call'[w].pos.order = nextOrder
        BY <1>1, <1>2, <1>5 DEF EntryFilled, ShapeOK, Call, Position
    <2>3. BookOrders' /\ MissingTrades' /\ NotRevived'
        BY <1>1, <2>1, ClosedQuiet
    <2>4. \A b \in Books', s \in Symbols : b[s].order # nextOrder
        BY <1>1, <2>1 DEF ClosedCore, BookOrders, Books
    <2>5. nextOrder \notin closed'
        BY <1>1, <2>1 DEF ClosedCore, NotRevived
    <2>6. CallOnBooks' /\ LeftBehind'
        BY <1>1, <1>2, <2>1, <2>2, <2>4, <2>5 DEF CallOnBooks, LeftBehind
    <2> QED
        BY <2>3, <2>6 DEF ClosedCore
<1>6. CASE EntryRefused(w) \/ EntryUnconfirmed(w)
    BY <1>3, <1>6 DEF EntryRefused, EntryUnconfirmed, Unconfirmed, memVars, dbVars,
        brokerVars, histVars
<1>7. CASE AddPosition(w)
    <2>1. /\ UNCHANGED <<up, trades, closed, nextOrder, unrecorded>>
          /\ c.stage = "filled"
        BY <1>7 DEF AddPosition, histVars, brokerVars
    <2>2. call'[w].stage = "tracked" /\ call'[w].pos = c.pos
        BY <1>1, <1>7 DEF AddPosition, ShapeOK, Call
    <2>3. /\ c.pos.order \in Nat /\ c.pos.order < nextOrder /\ c.pos.order \notin closed
          /\ \A b \in Books, s \in Symbols : b[s].order # c.pos.order
        BY <1>2, <2>1, BoundsNat DEF ClosedCore, CallOnBooks, Call, Position, OrderIds
    <2>4. /\ \A s \in Symbols : positions'[s] = positions[s] \/ (s = c.sym /\ positions'[s] = c.pos)
          /\ \A s \in Symbols :
                dbPositions'[s] = dbPositions[s] \/ (s = c.sym /\ dbPositions'[s] = c.pos)
        BY <1>1, <1>7 DEF AddPosition, ShapeOK
    <2>5. \A a \in Books', s \in Symbols :
              (\E b \in Books : a[s] = b[s]) \/ (s = c.sym /\ a[s] = c.pos)
        BY <2>4 DEF Books
    <2>6. BookOrders'
        <3>1. ASSUME NEW a \in Books', NEW b \in Books', NEW s \in Symbols, NEW r \in Symbols
              PROVE  /\ a[s].order < nextOrder
                     /\ a[s].order = b[r].order /\ s # r => a[s].order = 0
            <4>1. (\E p \in Books : a[s] = p[s]) \/ (s = c.sym /\ a[s] = c.pos)
                BY <2>5
            <4>2. (\E q \in Books : b[r] = q[r]) \/ (r = c.sym /\ b[r] = c.pos)
                BY <2>5
            <4> QED
                BY <2>3, <4>1, <4>2 DEF ClosedCore, BookOrders
        <3> QED
            BY <2>1, <3>1 DEF BookOrders
    <2>7. MissingTrades'
        <3>1. ASSUME NEW a \in Books', NEW s \in Symbols, a[s].order # 0,
                     trades[a[s].order].st = "none"
              PROVE  a[s].order \in unrecorded \/ faults' >= 1 \/ c.pos.order = a[s].order
            <4>1. CASE a[s] = c.pos
                BY <4>1
            <4>2. ASSUME NEW b \in Books, a[s] = b[s]
                  PROVE  a[s].order \in unrecorded \/ faults' >= 1
                BY <1>1, <2>1, <3>1, <4>2 DEF ClosedCore, MissingTrades
            <4> QED
                BY <2>5, <4>1, <4>2
        <3> QED
            BY <2>1, <2>2, <3>1 DEF MissingTrades
    <2>8. CallOnBooks' /\ LeftBehind'
        BY <1>2, <2>1, <2>2, <2>3 DEF CallOnBooks, LeftBehind
    <2>9. NotRevived'
        <3>1. \A i : FaultsToRevive(i) \in Nat /\ FaultsToRevive(i)' = FaultsToRevive(i)
            BY <2>1 DEF FaultsToRevive
        <3>2. \A s \in Symbols :
                  positions'[s].order \in closed' \ {0} =>
                      faults' >= FaultsToRevive(positions'[s].order)
            BY <1>1, <2>1, <2>3, <2>4, <3>1 DEF ClosedCore, NotRevived
        <3>3. \A s \in Symbols :
                  dbPositions'[s].order \in closed' \ {0} =>
                      StaleRow(s)' \/ faults' >= FaultsToRevive(dbPositions'[s].order)
            BY <1>1, <2>1, <2>3, <2>4, <3>1 DEF ClosedCore, NotRevived, StaleRow
        <3> QED
            BY <2>1, <3>2, <3>3 DEF ClosedCore, NotRevived, FaultsToRevive
    <2> QED
        BY <2>6, <2>7, <2>8, <2>9 DEF ClosedCore
<1>8. CASE PersistTrade(w)
    <2>1. /\ UNCHANGED <<up, positions, dbPositions, closed, nextOrder, unrecorded>>
          /\ c.stage = "tracked"
          /\ call' = [call EXCEPT ![w] = Idle]
        BY <1>8 DEF PersistTrade, memVars, brokerVars
    <2>2. PICK ok \in WriteOutcomes :
              /\ trades' = IF ok THEN [trades EXCEPT ![c.pos.order].st = "open"] ELSE trades
              /\ CountFault(ok)
        BY <1>8 DEF PersistTrade
    <2>3. c.pos.order \notin closed
        BY <2>1 DEF ClosedCore, CallOnBooks
    <2>4. /\ \A i \in OrderIds : i # c.pos.order => trades'[i] = trades[i]
          /\ \A i \in OrderIds : trades'[i].st = "none" => trades[i].st = "none"
          /\ \A i \in OrderIds : i = c.pos.order /\ trades'[i].st = "none" => faults' >= 1
        BY <1>1, <2>2 DEF ShapeOK, Trade, CountFault
    <2>5. Books' = Books /\ \A b \in Books, s \in Symbols : b[s].order \in OrderIds \cup {0}
        BY <1>1, <2>1, BookTypes DEF Books
    <2>6. MissingTrades'
        BY <1>1, <2>1, <2>4, <2>5 DEF ClosedCore, MissingTrades
    <2>7. NotRevived'
        <3>1. \A i : FaultsToRevive(i) \in Nat /\ FaultsToRevive(i)' = FaultsToRevive(i)
            BY <2>1 DEF FaultsToRevive
        <3>2. \A s \in Symbols :
                  positions[s].order \in closed \ {0} =>
                      faults' >= FaultsToRevive(positions[s].order)
            BY <1>1, <3>1 DEF ClosedCore, NotRevived
        <3>3. \A s \in Symbols :
                  dbPositions[s].order \in closed \ {0} =>
                      StaleRow(s)' \/ faults' >= FaultsToRevive(dbPositions[s].order)
            <4> SUFFICES ASSUME NEW s \in Symbols, dbPositions[s].order \in closed \ {0}
                         PROVE  StaleRow(s)' \/ faults' >= FaultsToRevive(dbPositions[s].order)
                OBVIOUS
            <4>1. dbPositions[s].order \in OrderIds
                BY <2>5 DEF Books
            <4>2. trades'[dbPositions[s].order] = trades[dbPositions[s].order]
                BY <2>3, <2>4, <4>1
            <4>3. StaleRow(s)' = StaleRow(s)
                BY <2>1, <4>2 DEF StaleRow
            <4> QED
                BY <1>1, <3>1, <4>3 DEF ClosedCore, NotRevived
        <3> QED
            BY <2>1, <3>2, <3>3 DEF ClosedCore, NotRevived, FaultsToRevive
    <2>8. CallOnBooks' /\ LeftBehind'
        <3>1. call'[w] = Idle
            BY <1>1, <2>1 DEF ShapeOK
        <3> QED
            BY <1>1, <3>1, ClosedIdle
    <2>9. BookOrders'
        BY <2>1, <2>5 DEF ClosedCore, BookOrders
    <2> QED
        BY <2>6, <2>7, <2>8, <2>9 DEF ClosedCore
<1> QED
    BY <1>4, <1>5, <1>6, <1>7, <1>8 DEF EntryStep

\* The steps of close_position: what it may leave behind is a row whose removal
\* was lost.
LEMMA ClosedExit ==
    ASSUME ShapeInv, ClosedCore, NEW w, Threads = {w}, ExitStep(w)
    PROVE  ClosedCore'
<1> DEFINE c == call[w]
<1>1. /\ ShapeInv' /\ ShapeOK /\ ShapeOK'
      /\ faults \in Nat /\ faults' \in Nat /\ faults' >= faults
      /\ nextOrder \in Nat
      /\ \A b \in Books, s \in Symbols : b[s].order \in OrderIds \cup {0}
    <2>1. [Next]_vars
        BY DEF Next
    <2>2. ShapeInv' /\ ShapeOK /\ ShapeOK'
        BY <2>1, ShapeStep DEF ShapeInv
    <2>3. nextOrder \in Nat
        BY <2>2, BoundsNat DEF ShapeOK
    <2>4. \A b \in Books, s \in Symbols : b[s].order \in OrderIds \cup {0}
        BY <2>2, BookTypes
    <2>5. faults \in Nat /\ faults' \in Nat /\ faults' >= faults
        BY <2>1, <2>2, FaultsGrow DEF ShapeOK
    <2> QED
        BY <2>2, <2>3, <2>4, <2>5
<1>2. c \in Call /\ (c.stage # "idle" => up)
    BY <1>1 DEF ShapeOK, ClosedCore, CallOnBooks
<1>3. c.sym \in Symbols \/ c.stage = "idle"
    BY DEF ShapeInv
<1>4. ASSUME UNCHANGED <<up, positions, dbPositions, trades, closed, nextOrder, unrecorded>>,
             c.stage # "tracked"
      PROVE  BookOrders' /\ MissingTrades' /\ NotRevived'
    BY <1>1, <1>4, ClosedQuiet
<1>5. positions \in Books /\ dbPositions \in Books
    BY DEF Books
<1>6. ASSUME NEW s \in Symbols, ClosePosition(w, s)
      PROVE  ClosedCore'
    <2>1. /\ UNCHANGED <<up, positions, dbPositions, trades, closed, nextOrder, unrecorded>>
          /\ c.stage = "idle" /\ up /\ positions[s] # NoPosition
        BY <1>6 DEF ClosePosition, memVars, dbVars, brokerVars, histVars, envVars, HasPosition
    <2>2. call'[w].stage = "exitSend" /\ call'[w].sym = s /\ call'[w].pos = positions[s]
        BY <1>1, <1>6 DEF ClosePosition, ShapeOK, Idle
    <2>3. CallOnBooks' /\ LeftBehind'
        BY <1>5, <2>1, <2>2 DEF ClosedCore, BookOrders, CallOnBooks, LeftBehind
    <2> QED
        BY <1>4, <2>1, <2>3 DEF ClosedCore
<1>7. ASSUME NEW x \in ExitPrices, ExitFilled(w, x)
      PROVE  ClosedCore'
    <2>1. /\ UNCHANGED <<up, positions, dbPositions, trades, closed, nextOrder, unrecorded>>
          /\ c.stage = "exitSend"
        BY <1>7 DEF ExitFilled, memVars, dbVars, envVars
    <2>2. call'[w].stage = "exitFilled" /\ call'[w].sym = c.sym /\ call'[w].pos = c.pos
        BY <1>1, <1>7 DEF ExitFilled, ShapeOK, Call
    <2>3. CallOnBooks' /\ LeftBehind'
        BY <2>1, <2>2 DEF ClosedCore, CallOnBooks, LeftBehind
    <2> QED
        BY <1>4, <2>1, <2>3 DEF ClosedCore
<1>8. CASE ExitRefused(w) \/ ExitUnconfirmed(w)
    <2>1. /\ UNCHANGED <<up, positions, dbPositions, trades, closed, nextOrder, unrecorded>>
          /\ c.stage = "exitSend"
          /\ call' = [call EXCEPT ![w] = Idle]
        BY <1>8 DEF ExitRefused, ExitUnconfirmed, Unconfirmed, memVars, dbVars,
            brokerVars, histVars, envVars
    <2>2. call'[w] = Idle
        BY <1>1, <2>1 DEF ShapeOK
    <2> QED
        BY <1>1, <1>4, <2>1, <2>2, ClosedIdle DEF ClosedCore
<1>9. CASE BookExit(w)
    <2>1. /\ UNCHANGED <<up, trades, closed, nextOrder, unrecorded>>
          /\ c.stage = "exitFilled"
          /\ c.pos = positions[c.sym] /\ c.pos # NoPosition
          /\ c.sym \in Symbols
        BY <1>3, <1>9 DEF BookExit, brokerVars, histVars, ClosedCore, CallOnBooks
    <2>2. PICK ok \in WriteOutcomes :
              /\ CountFault(ok)
              /\ positions' = [positions EXCEPT ![c.sym] = NoPosition]
              /\ dbPositions' = IF ok THEN [dbPositions EXCEPT ![c.sym] = NoPosition]
                                      ELSE dbPositions
        BY <1>9, <2>1 DEF BookExit, HasPosition
    <2>3. call'[w].stage = "popped" /\ call'[w].pos = c.pos
        BY <1>1, <1>9, <2>1 DEF BookExit, HasPosition, ShapeOK, Call
    <2>4. NoPosition.order = 0
        BY DEF NoPosition
    <2>5. /\ positions'[c.sym] = NoPosition
          /\ \A s \in Symbols : s # c.sym => positions'[s] = positions[s]
          /\ \A s \in Symbols :
                dbPositions'[s] = dbPositions[s] \/ (s = c.sym /\ dbPositions'[s] = NoPosition)
          /\ dbPositions'[c.sym] = dbPositions[c.sym] => ~ok \/ dbPositions[c.sym] = NoPosition
        BY <1>1, <2>1, <2>2 DEF ShapeOK
    <2>6. \A a \in Books', s \in Symbols :
              a[s] = NoPosition \/ \E b \in Books : a[s] = b[s]
        BY <2>5 DEF Books
    <2>7. BookOrders'
        BY <2>1, <2>4, <2>6, BooksShrink DEF ClosedCore, ShapeInv
    <2>8. MissingTrades'
        <3>1. ASSUME NEW a \in Books', NEW s \in Symbols, a[s].order # 0,
                     trades[a[s].order].st = "none"
              PROVE  a[s].order \in unrecorded \/ faults' >= 1
            <4>1. PICK b \in Books : a[s] = b[s]
                BY <2>4, <2>6, <3>1
            <4> QED
                BY <1>1, <2>1, <3>1, <4>1 DEF ClosedCore, MissingTrades
        <3> QED
            BY <2>1, <3>1 DEF MissingTrades
    <2>9. CallOnBooks'
        <3>1. ASSUME NEW s \in Symbols, positions'[s].order = c.pos.order
              PROVE  c.pos.order = 0
            BY <1>5, <2>1, <2>4, <2>5, <3>1 DEF ClosedCore, BookOrders
        <3> QED
            BY <1>2, <2>1, <2>3, <3>1 DEF ClosedCore, CallOnBooks
    <2>10. LeftBehind'
        <3> SUFFICES ASSUME NEW s \in Symbols, dbPositions'[s].order = c.pos.order,
                            c.pos.order # 0
                     PROVE  /\ faults' >= 1
                            /\ trades[c.pos.order].st = "none" /\ c.pos.order \notin unrecorded
                                   => faults' >= 2
            BY <2>1, <2>3 DEF LeftBehind
        <3>1. dbPositions'[s] = dbPositions[s]
            BY <2>4, <2>5
        <3>2. s = c.sym
            BY <1>5, <2>1, <3>1 DEF ClosedCore, BookOrders
        <3>3. ~ok
            BY <2>4, <2>5, <3>1, <3>2
        <3>4. faults' = faults + 1
            BY <2>2, <3>3 DEF CountFault
        <3>5. trades[c.pos.order].st = "none" /\ c.pos.order \notin unrecorded => faults >= 1
            BY <1>5, <2>1 DEF ClosedCore, MissingTrades
        <3> QED
            BY <1>1, <3>4, <3>5
    <2>11. NotRevived'
        <3>1. \A i : FaultsToRevive(i) \in Nat /\ FaultsToRevive(i)' = FaultsToRevive(i)
            BY <2>1 DEF FaultsToRevive
        <3>2. \A s \in Symbols :
                  positions'[s].order \in closed' \ {0} =>
                      faults' >= FaultsToRevive(positions'[s].order)
            BY <1>1, <2>1, <2>4, <2>5, <3>1 DEF ClosedCore, NotRevived
        <3>3. \A s \in Symbols :
                  dbPositions'[s].order \in closed' \ {0} =>
                      StaleRow(s)' \/ faults' >= FaultsToRevive(dbPositions'[s].order)
            BY <1>1, <2>1, <2>4, <2>5, <3>1 DEF ClosedCore, NotRevived, StaleRow
        <3> QED
            BY <2>1, <3>2, <3>3 DEF ClosedCore, NotRevived, FaultsToRevive
    <2> QED
        BY <2>7, <2>8, <2>9, <2>10, <2>11 DEF ClosedCore
<1>10. CASE SaveCounters(w)
    <2>1. /\ UNCHANGED <<up, positions, dbPositions, trades, closed, nextOrder, unrecorded>>
          /\ c.stage = "popped"
        BY <1>10 DEF SaveCounters, memVars, brokerVars, histVars
    <2>2. call'[w].stage = "counted" /\ call'[w].pos = c.pos
        BY <1>1, <1>10 DEF SaveCounters, ShapeOK, Call
    <2>3. CallOnBooks'
        BY <1>2, <2>1, <2>2 DEF ClosedCore, CallOnBooks
    <2>4. LeftBehind'
        BY <1>1, <2>1, <2>2 DEF ClosedCore, LeftBehind
    <2> QED
        BY <1>4, <2>1, <2>3, <2>4 DEF ClosedCore
<1>11. CASE UpdateTradeExit(w)
    <2> DEFINE id == c.pos.order
    <2>1. /\ UNCHANGED <<up, positions, dbPositions, nextOrder, unrecorded>>
          /\ c.stage = "counted"
          /\ closed' = closed \cup {id}
          /\ call' = [call EXCEPT ![w] = Idle]
        BY <1>11 DEF UpdateTradeExit, brokerVars
    <2>2. PICK ok \in WriteOutcomes :
              /\ trades' = IF ok /\ id # 0 /\ trades[id].st # "none"
                             THEN [trades EXCEPT ![id] = [st |-> "closed", pnl |-> c.pnl,
                                                          day |-> today]]
                             ELSE trades
              /\ CountFault(ok)
        BY <1>11 DEF UpdateTradeExit
    <2>3. /\ \A i \in OrderIds : trades'[i].st = "none" => trades[i].st = "none"
          /\ \A i \in OrderIds : trades[i].st = "closed" => trades'[i].st = "closed"
          /\ id \in OrderIds /\ ok /\ id # 0 /\ trades[id].st # "none"
                => trades'[id].st = "closed"
        BY <1>1, <2>2 DEF ShapeOK
    <2>4. Books' = Books
        BY <2>1 DEF Books
    <2>5. BookOrders'
        BY <2>1, <2>4 DEF ClosedCore, BookOrders
    <2>6. MissingTrades'
        BY <1>1, <2>1, <2>3, <2>4 DEF ClosedCore, MissingTrades
    <2>7. CallOnBooks' /\ LeftBehind'
        <3>1. call'[w] = Idle
            BY <1>1, <2>1 DEF ShapeOK
        <3> QED
            BY <1>1, <3>1, ClosedIdle
    <2>8. NotRevived'
        <3>1. /\ \A i : FaultsToRevive(i) \in Nat /\ FaultsToRevive(i)' = FaultsToRevive(i)
              /\ \A i : FaultsToRevive(i) <= 2
              /\ \A i : i \in unrecorded => FaultsToRevive(i) = 1
            BY <2>1 DEF FaultsToRevive
        <3>2. \A i \in closed' : i < nextOrder'
            BY <2>1 DEF ClosedCore, NotRevived, CallOnBooks
        <3>3. \A s \in Symbols :
                  positions[s].order \in closed' \ {0} => positions[s].order \in closed \ {0}
            BY <2>1 DEF ClosedCore, CallOnBooks
        <3>4. ASSUME NEW s \in Symbols, dbPositions[s].order \in closed' \ {0}
              PROVE  StaleRow(s)' \/ faults' >= FaultsToRevive(dbPositions[s].order)
            <4>1. dbPositions[s].order \in OrderIds
                BY <1>1, <1>5, <3>4
            <4>2. CASE dbPositions[s].order \in closed
                <5>1. StaleRow(s) => StaleRow(s)'
                    BY <2>1, <2>3, <4>1 DEF StaleRow
                <5> QED
                    BY <1>1, <3>1, <3>4, <4>2, <5>1 DEF ClosedCore, NotRevived
            <4>3. CASE dbPositions[s].order = id
                <5>1. /\ faults >= 1
                      /\ trades[id].st = "none" /\ id \notin unrecorded => faults >= 2
                    BY <2>1, <3>4, <4>3 DEF ClosedCore, LeftBehind
                <5>2. CASE ok /\ trades[id].st # "none"
                    BY <2>1, <2>3, <3>4, <4>1, <4>3, <5>2 DEF StaleRow
                <5>3. CASE ~ok
                    BY <1>1, <2>2, <3>1, <4>3, <5>1, <5>3 DEF CountFault
                <5>4. CASE trades[id].st = "none"
                    BY <1>1, <3>1, <4>3, <5>1, <5>4
                <5> QED
                    BY <5>2, <5>3, <5>4
            <4> QED
                BY <2>1, <3>4, <4>2, <4>3
        <3>5. \A s \in Symbols :
                  positions[s].order \in closed' \ {0} =>
                      faults' >= FaultsToRevive(positions[s].order)
            BY <1>1, <3>1, <3>3 DEF ClosedCore, NotRevived
        <3> QED
            BY <2>1, <3>2, <3>4, <3>5 DEF NotRevived, FaultsToRevive
    <2> QED
        BY <2>5, <2>6, <2>7, <2>8 DEF ClosedCore
<1> QED
    BY <1>6, <1>7, <1>8, <1>9, <1>10, <1>11 DEF ExitStep

\* A crash empties the memory and a start reads the rows that are not stale.
LEMMA ClosedStep ==
    ASSUME NEW w, Threads = {w}, ShapeInv, ClosedCore, [Next]_vars
    PROVE  ClosedCore'
<1> DEFINE c == call[w]
<1>1. /\ ShapeInv' /\ ShapeOK /\ ShapeOK'
      /\ faults \in Nat /\ faults' \in Nat /\ faults' >= faults
      /\ nextOrder \in Nat
    BY ShapeStep, FaultsGrow, BoundsNat DEF ShapeInv, ShapeOK
<1>2. \A b \in Books, s \in Symbols : b[s].order \in OrderIds \cup {0}
    BY <1>1, BookTypes
<1>3. positions \in Books /\ dbPositions \in Books /\ NoPosition.order = 0
    BY DEF Books, NoPosition
<1>4. ASSUME NEW t \in Threads, EntryStep(t) \/ ExitStep(t)
      PROVE  ClosedCore'
    BY <1>4, ClosedEntry, ClosedExit
<1>5. ASSUME UNCHANGED <<up, call, positions, dbPositions, trades, closed, nextOrder, unrecorded>>
      PROVE  ClosedCore'
    <2>1. BookOrders' /\ MissingTrades' /\ NotRevived'
        BY <1>1, <1>5, ClosedQuiet
    <2>2. CallOnBooks'
        BY <1>5 DEF ClosedCore, CallOnBooks, Books
    <2>3. LeftBehind'
        BY <1>1, <1>5 DEF ClosedCore, LeftBehind
    <2> QED
        BY <2>1, <2>2, <2>3 DEF ClosedCore
<1>6. CASE ForceTrigger \/ ResetSwitch \/ CheckSwitch \/ ReadStats
    BY <1>5, <1>6 DEF ForceTrigger, ResetSwitch, CheckSwitch, ReadStats, brokerVars, histVars
<1>7. CASE (\E o \in resting : LateFill(o)) \/ NextDay \/ UNCHANGED vars
    BY <1>5, <1>7 DEF LateFill, NextDay, vars, memVars, dbVars, brokerVars, histVars, envVars
<1>8. CASE Crash
    <2>1. /\ UNCHANGED <<dbPositions, trades, closed, nextOrder, faults>>
          /\ unrecorded \subseteq unrecorded'
          /\ c.stage = "tracked" => c.pos.order \in unrecorded'
          /\ \A s \in Symbols : positions'[s] = NoPosition
          /\ call'[w] = Idle
        BY <1>8 DEF Crash, Cut, dbVars, brokerVars
    <2>2. \A a \in Books', s \in Symbols : a[s] = NoPosition \/ a[s] = dbPositions[s]
        BY <2>1 DEF Books
    <2>3. BookOrders'
        BY <1>1, <1>3, <2>1, <2>2, BooksShrink DEF ClosedCore
    <2>4. MissingTrades'
        <3>1. ASSUME NEW a \in Books', NEW s \in Symbols, a[s].order # 0,
                     trades[a[s].order].st = "none"
              PROVE  a[s].order \in unrecorded' \/ faults' >= 1
            <4>1. a[s] = dbPositions[s]
                BY <1>3, <2>2, <3>1
            <4> QED
                BY <1>3, <2>1, <3>1, <4>1 DEF ClosedCore, MissingTrades
        <3> QED
            BY <2>1, <3>1 DEF MissingTrades
    <2>5. NotRevived'
        <3>1. \A s \in Symbols :
                  dbPositions[s].order \in closed \ {0} =>
                      StaleRow(s) \/ faults >= FaultsToRevive(dbPositions[s].order)'
            BY <1>1, <2>1 DEF ClosedCore, NotRevived, FaultsToRevive
        <3>2. \A s \in Symbols : StaleRow(s)' = StaleRow(s)
            BY <2>1 DEF StaleRow
        <3>3. \A s \in Symbols : positions'[s].order = 0
            BY <1>3, <2>1
        <3>4. \A i \in closed' : i < nextOrder'
            BY <2>1 DEF ClosedCore, NotRevived
        <3>5. \A s \in Symbols :
                  dbPositions'[s].order \in closed' \ {0} =>
                      StaleRow(s)' \/ faults' >= FaultsToRevive(dbPositions[s].order)'
            BY <2>1, <3>1, <3>2
        <3> QED
            BY <3>3, <3>4, <3>5 DEF NotRevived, FaultsToRevive
    <2>6. CallOnBooks' /\ LeftBehind'
        BY <1>1, <2>1, ClosedIdle
    <2> QED
        BY <2>3, <2>4, <2>5, <2>6 DEF ClosedCore
<1>9. CASE Start
    <2>1. /\ UNCHANGED <<call, trades, closed, nextOrder, unrecorded>>
          /\ c.stage = "idle" /\ c.pos.order < nextOrder
        BY <1>9 DEF Start, brokerVars, histVars, ClosedCore, CallOnBooks
    <2>2. /\ \A s \in Symbols : IF StaleRow(s) THEN positions'[s] = NoPosition
                                               ELSE positions'[s] = dbPositions[s]
          /\ \A s \in Symbols :
                dbPositions'[s] = dbPositions[s] \/ dbPositions'[s] = NoPosition
        BY <1>1, <1>9 DEF Start, ShapeOK
    <2>3. \A a \in Books', s \in Symbols : a[s] = NoPosition \/ a[s] = dbPositions[s]
        BY <2>2 DEF Books
    <2>4. BookOrders'
        BY <1>1, <1>3, <2>1, <2>3, BooksShrink DEF ClosedCore
    <2>5. MissingTrades'
        <3>1. ASSUME NEW a \in Books', NEW s \in Symbols, a[s].order # 0,
                     trades[a[s].order].st = "none"
              PROVE  a[s].order \in unrecorded \/ faults' >= 1
            <4>1. a[s] = dbPositions[s]
                BY <1>3, <2>3, <3>1
            <4> QED
                BY <1>1, <1>3, <2>1, <3>1, <4>1 DEF ClosedCore, MissingTrades
        <3> QED
            BY <2>1, <3>1 DEF MissingTrades
    <2>6. NotRevived'
        <3>1. \A i : FaultsToRevive(i) \in Nat /\ FaultsToRevive(i)' = FaultsToRevive(i)
            BY <2>1 DEF FaultsToRevive
        <3>2. \A s \in Symbols :
                  positions'[s].order \in closed' \ {0} =>
                      faults' >= FaultsToRevive(positions'[s].order)
            BY <1>1, <1>3, <2>1, <2>2, <3>1 DEF ClosedCore, NotRevived
        <3>3. \A s \in Symbols :
                  dbPositions'[s].order \in closed' \ {0} =>
                      StaleRow(s)' \/ faults' >= FaultsToRevive(dbPositions'[s].order)
            BY <1>1, <1>3, <2>1, <2>2, <3>1 DEF ClosedCore, NotRevived, StaleRow
        <3> QED
            BY <2>1, <3>2, <3>3 DEF ClosedCore, NotRevived, FaultsToRevive
    <2>7. CallOnBooks' /\ LeftBehind'
        BY <2>1 DEF CallOnBooks, LeftBehind
    <2> QED
        BY <2>4, <2>5, <2>6, <2>7 DEF ClosedCore
<1> QED
    BY <1>4, <1>6, <1>7, <1>8, <1>9 DEF Next

\* With one caller at a time, whatever writes are lost and however often the
\* process crashes, a position whose closing call has returned is in the book
\* again only after two lost writes, or after one and a crash that kept its
\* trade row from being written (_load_from_db, remove_position, has_open_trade).
THEOREM ClosedPositionsStayClosed ==
    ASSUME NEW w, Threads = {w}
    PROVE  Spec => []ClosedStaysClosed
<1> DEFINE Inv == ShapeInv /\ ClosedCore
<1>1. Init => Inv
    <2>1. Init => ShapeInv
        BY ShapeInit
    <2>2. ASSUME Init
          PROVE  ClosedCore
        <3>1. ShapeOK
            BY <2>1, <2>2 DEF ShapeInv
        <3>2. /\ nextOrder = 1 /\ closed = {}
              /\ \A b \in Books, s \in Symbols : b[s].order = 0
              /\ call[w].stage = "idle" /\ call[w].pos.order = 0
            BY <2>2 DEF Init, Books, NoPosition, Idle
        <3> QED
            BY <3>2 DEF ClosedCore, BookOrders, CallOnBooks, MissingTrades, LeftBehind, NotRevived
    <2> QED
        BY <2>1, <2>2
<1>2. Inv /\ [Next]_vars => Inv'
    BY ShapeStep, ClosedStep
<1>3. Inv => ClosedStaysClosed
    BY DEF ClosedCore, NotRevived, ClosedStaysClosed, FaultsToRevive
<1> QED
    BY <1>1, <1>2, <1>3, PTL DEF Spec

=============================================================================
