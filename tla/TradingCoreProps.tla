-------------------------- MODULE TradingCoreProps --------------------------
(***************************************************************************)
(* What TradingCore is expected to guarantee.                              *)
(***************************************************************************)
EXTENDS TradingCore

\* The engine's book: its memory while it runs, its rows while it is down.
Book == IF up THEN positions ELSE dbPositions

Signed(p) == p.dir * p.qty

At(s, stage) == {t \in Threads : call[t].sym = s /\ call[t].stage = stage}

InFlight(s) == At(s, "filled") \cup At(s, "exitFilled")

\* What the broker holds is what the engine's book says, but for the fill a
\* running call has received and not yet recorded (add_position comes after
\* the entry fill, the pop after the exit fill).  The only symbols exempt are
\* those whose call a crash cut exactly there, and those with an order
\* LiveBroker reported as failed although the exchange had taken it.
BookAgreesWithBroker ==
    \A s \in Symbols \ torn :
        \/ /\ InFlight(s) = {}
           /\ holding[s] = Signed(Book[s])
        \/ \E t \in At(s, "filled") :
              /\ Book[s] = NoPosition
              /\ holding[s] = Signed(call[t].pos)
        \/ \E t \in At(s, "exitFilled") :
              /\ Book[s] = call[t].pos
              /\ holding[s] = 0

\* The day's P&L the kill switch and the third guardrail read is the P&L of the
\* day's exit fills, less that of the call still between the fill and the
\* booking, across restarts and midnights (_save_counters, _load_from_db,
\* _check_day_reset).
CountersMatchBroker ==
    (up /\ ~pnlTorn) =>
        \/ /\ Cut({"exitFilled"}) = {}
           /\ RolledPnl = bookedPnl
        \/ \E t \in Cut({"exitFilled"}) : RolledPnl = bookedPnl - call[t].pnl

\* No entry order is on its way to the broker on a day whose fills have
\* already lost max_daily_loss: the kill switch and the guardrails were
\* evaluated on that loss before the call reached the broker.
DailyLossHonoured ==
    ((\E t \in Threads : call[t].stage = "send") /\ ~pnlTorn) =>
        bookedPnl > -MaxDailyLoss

\* At most max_open_positions positions are open.
PositionLimit == Cardinality(Held(Book)) <= MaxOpenPositions

\* Concurrent calls pass check 4 on the same count; they overshoot the limit
\* by at most one position for each thread beyond the first.
PositionOvershootBounded ==
    Cardinality(Held(Book)) <= MaxOpenPositions + Cardinality(Threads) - 1

\* Capital deployed at fill prices stays within the limit, but for the
\* slippage of one order: the guardrails saw the expected price of the last
\* order and the fill price of every earlier one.
ExposureBounded ==
    \E s \in Held(positions) \cup {NoSymbol}, d \in Slips \cup {0} :
        DeployedCapital <= MaxCapitalDeployed
                           + (IF s = NoSymbol THEN 0 ELSE d * positions[s].qty)

\* The switch in memory and its row agree about today, so a restart neither
\* loses a trip of the day nor revives one of an earlier day.
SwitchSurvivesRestart == up => ((tripped = today) <=> (dbTripped = today))

\* Once triggered the switch stays so for the rest of the day, through crashes
\* and restarts; only the operator's reset lifts it.
TrippedUntilTomorrow ==
    [][(dbTripped = today /\ today' = today /\ ~ResetSwitch) => dbTripped' = today]_vars

\* A trade row without an exit belongs to a position the book holds or to a
\* call still at work on it, unless a crash or a failed write came between
\* the position row and the trade row: the two tables are separate
\* transactions.
OpenTradesAreHeld ==
    \A i \in OrderIds \ tornTrades :
        trades[i].st = "open" =>
            \/ \E s \in Symbols : Book[s].order = i
            \/ \E t \in Threads : call[t].pos.order = i

\* A position whose closing call has returned does not come back when one of
\* the call's writes was lost: the check of position rows against the trades
\* table at load covers a lost row removal.  It takes two lost writes, or one
\* and a crash that came between the position row and the trade row of the same
\* order: has_open_trade takes a missing trade for an open one.
ClosedStaysClosed ==
    up => \A s \in Symbols :
        LET i == positions[s].order
        IN  i \in closed \ {0} => faults >= IF i \in unrecorded THEN 1 ELSE 2

\* Orders filled, but for those a running call has still to book.
Past == {i \in OrderIds : i < nextOrder} \ {call[t].pos.order : t \in Cut({"filled"})}

Settled == {i \in OrderIds : trades[i].st = "closed"}

Ledger == INSTANCE PositionLedger WITH book <- Book, past <- Past, settled <- Settled

\* However calls of several threads interleave and wherever the process
\* crashes, the engine is the ledger: a position is never overwritten by a
\* second fill of its symbol, never resurrected by a restart, and its trade row
\* is closed only after it has left the book (add_position, close_position,
\* _update_trade_exit, _load_from_db).
LedgerSpec == Ledger!Spec

=============================================================================
