----------------------------- MODULE MarketScan -----------------------------
(***************************************************************************)
(* The scan cycle of the trading engine (run_cycle of src/main.py) up to   *)
(* the signals it queues for approval: macro data and regime, news and     *)
(* Researcher, one strategy after the other on each symbol, Sentinel,      *)
(* Orchestrator, filters, Stitch; with the instruments a scheduled job     *)
(* loads at 09:10, the dynamic universe cached for a UTC day, and the      *)
(* session, which the engine gets only when it is built.                   *)
(*                                                                         *)
(* The rest of run_cycle is in Approval (expiry, queue), AutoSell          *)
(* (monitoring) and TradingCore (exits, kill switch).                      *)
(***************************************************************************)
EXTENDS ScanRules

CONSTANTS
    Index,          \* the symbol NIFTY 50
    StrategyCount,  \* enabled strategies
    Inputs,         \* what a strategy may find: [direction, sa, mc, ls], ls = 0 unset
    Volume,         \* liquidity_score of each symbol from its daily candles
    Setups,         \* indicator scores of a candidate
    Macros,         \* snapshots: [market, riskOff]
    News,           \* news_strength the Researcher may answer
    Penalties,      \* risk_penalty the Sentinel may answer
    MaxDay          \* bound: UTC days

Directions == {"BUY", "SELL"}

ASSUME MarketScanAssumption ==
    /\ StrategyCount \in Nat \ {0}
    /\ Inputs \subseteq [direction: Directions, sa: Nat, mc: Nat, ls: Nat]
    /\ Volume \in [CoreSymbols \cup CandidateSymbols -> Nat]
    /\ Setups \subseteq Nat /\ News \subseteq Nat /\ Penalties \subseteq Nat
    /\ MaxDay \in Nat

VARIABLES
    day,        \* the UTC day
    loaded,     \* whether the engine has its instrument tokens
    due,        \* whether 09:10 is still to come this day
    session,    \* whether Kite answers the engine
    regime,     \* _current_regime
    dynamic,    \* _dynamic_watchlist
    cached,     \* _dynamic_universe_cache_date
    stage,
    macro,
    ns,         \* news_strength
    position,   \* the next symbol and strategy, counted through
    signals,    \* strategy_signals
    risk,       \* what became of the Sentinel's answer
    queued      \* final_signals

vars == <<day, loaded, due, session, regime, dynamic, cached, stage, macro, ns,
          position, signals, risk, queued>>
engine == <<loaded, session, regime, dynamic, cached>>
cycle == <<stage, macro, ns, position, signals, risk, queued>>

---------------------------------------------------------------------------
(* Records *)

\* get_snapshot when the quotes cannot be read.
NoMacro == [market |-> "NEUTRAL", riskOff |-> FALSE]

\* BaseAgent.call: the number asked for, an answer without it, or an error after
\* the retries.
Answers == {"answered", "garbled", "failed"}

\* SentinelAgent.evaluate: risk_penalty for each kind of answer.
PenaltiesOf(how) ==
    CASE how = "answered" -> Penalties
      [] how = "garbled"  -> {50}
      [] how = "failed"   -> {80}

Risks == UNION {[how: {how}, rp: PenaltiesOf(how)] : how \in Answers}
NoRisk == [how |-> "none", rp |-> 0]

\* analyze_news: no news counts like an error of the call.
StrengthsOf(how) ==
    CASE how = "answered" -> News
      [] how = "garbled"  -> {50}
      [] how = "failed"   -> {0}

Strengths == UNION {StrengthsOf(how) : how \in Answers}

Tokens == IF loaded THEN CoreSymbols \cup CandidateSymbols ELSE {}

Symbols == Combined(dynamic)

SymbolAt(p) == Symbols[(p \div StrategyCount) + 1]

\* scan of one strategy, with the liquidity score set by _scan_all_strategies.
Found(symbol) ==
    {[symbol |-> symbol, direction |-> i.direction, sa |-> i.sa, mc |-> i.mc,
      ls |-> IF i.ls = 0 THEN Volume[symbol] ELSE i.ls] : i \in Inputs}

TypeOK ==
    /\ day \in 0..MaxDay /\ cached \in -1..day
    /\ {loaded, due, session} \subseteq BOOLEAN
    /\ regime \in {NoRegime} \cup Regimes
    /\ IsInjective(dynamic) /\ Len(dynamic) <= DynamicSize
    /\ \A i \in DOMAIN dynamic : dynamic[i] \in CandidateSymbols \ CoreSymbols
    /\ stage \in {"idle", "research", "scan", "score"}
    /\ macro \in Macros \cup {NoMacro}
    /\ ns \in Strengths
    /\ position \in 0..(StrategyCount * (Len(Core) + DynamicSize))
    /\ Len(signals) <= position
    /\ risk \in Risks \cup {NoRisk}
    /\ Len(queued) <= MaxOutput

---------------------------------------------------------------------------
(* The engine *)

\* The next UTC day.  Kite has ended the session in the afternoon.
NewDay ==
    /\ stage = "idle" /\ ~due
    /\ day < MaxDay
    /\ day' = day + 1
    /\ due' = TRUE
    /\ session' = FALSE
    /\ UNCHANGED <<loaded, regime, dynamic, cached, cycle>>

\* load_instruments at 09:10; an error is logged.
LoadInstruments ==
    /\ due
    /\ stage = "idle"
    /\ due' = FALSE
    /\ \/ session /\ loaded' = TRUE
       \/ UNCHANGED loaded
    /\ UNCHANGED <<day, session, regime, dynamic, cached, cycle>>

\* A new process, as every cloud scan is: with a session or without.
Restart ==
    /\ session' \in BOOLEAN
    /\ loaded' = FALSE
    /\ regime' = NoRegime
    /\ dynamic' = <<>>
    /\ cached' = -1
    /\ stage' = "idle"
    /\ macro' = NoMacro /\ ns' = 0 /\ position' = 0
    /\ signals' = <<>> /\ risk' = NoRisk /\ queued' = <<>>
    /\ UNCHANGED <<day, due>>

---------------------------------------------------------------------------
(* The cycle *)

\* Steps 1 and 2: get_snapshot and _update_regime, which predicts when the
\* instruments hold the index and leaves the regime alone otherwise.
BeginCycle ==
    /\ stage = "idle"
    /\ stage' = "research"
    /\ macro' \in IF session THEN Macros \cup {NoMacro} ELSE {NoMacro}
    /\ regime' \in {regime} \cup (IF session /\ Index \in Tokens THEN Regimes ELSE {})
    /\ queued' = <<>>
    /\ UNCHANGED <<day, due, loaded, session, dynamic, cached, ns, position, signals, risk>>

\* Steps 3 to 5: news, Researcher and _refresh_dynamic_universe, once a UTC day
\* whatever it finds.
Research ==
    /\ stage = "research"
    /\ stage' = "scan"
    /\ ns' \in Strengths
    /\ IF cached = day THEN UNCHANGED dynamic
       ELSE \E setup \in [CandidateSymbols -> IF session THEN Setups ELSE {0}] :
                dynamic' = SelectDynamicUniverse(Tokens, setup, regime)
    /\ cached' = day
    /\ UNCHANGED <<day, due, loaded, session, regime, macro, position, signals, risk, queued>>

\* _scan_all_strategies, one strategy on one symbol: nothing, an exception, or a
\* signal.  Without token or candles there is no data.
ScanSymbol ==
    /\ stage = "scan"
    /\ position < StrategyCount * Len(Symbols)
    /\ position' = position + 1
    /\ \/ UNCHANGED signals
       \/ /\ session /\ SymbolAt(position) \in Tokens
          /\ \E s \in Found(SymbolAt(position)) : signals' = Append(signals, s)
    /\ UNCHANGED <<day, due, engine, stage, macro, ns, risk, queued>>

Scanned == stage = "scan" /\ position = StrategyCount * Len(Symbols)

\* cycle_no_signals
NoSignals ==
    /\ Scanned
    /\ signals = <<>>
    /\ stage' = "idle"
    /\ macro' = NoMacro /\ ns' = 0 /\ position' = 0
    /\ UNCHANGED <<day, due, engine, signals, risk, queued>>

\* Step 6
Evaluate ==
    /\ Scanned
    /\ signals # <<>>
    /\ risk' \in Risks
    /\ stage' = "score"
    /\ UNCHANGED <<day, due, engine, macro, ns, position, signals, queued>>

\* Steps 7 and 8
Passing ==
    LET scored == ScoreSignals(signals, macro, ns, risk.rp, regime)
    IN  At(scored, {i \in DOMAIN scored : ApplyFilters(scored[i])})

\* Steps 9 and 10
QueueSignals ==
    /\ stage = "score"
    /\ queued' = Finalize(Passing)
    /\ stage' = "idle"
    /\ macro' = NoMacro /\ ns' = 0 /\ position' = 0 /\ signals' = <<>> /\ risk' = NoRisk
    /\ UNCHANGED <<day, due, engine>>

---------------------------------------------------------------------------

Init ==
    /\ day = 0
    /\ due \in BOOLEAN
    /\ session \in BOOLEAN
    /\ loaded = FALSE
    /\ regime = NoRegime
    /\ dynamic = <<>>
    /\ cached = -1
    /\ stage = "idle"
    /\ macro = NoMacro
    /\ ns = 0
    /\ position = 0
    /\ signals = <<>>
    /\ risk = NoRisk
    /\ queued = <<>>

Next ==
    \/ NewDay
    \/ LoadInstruments
    \/ Restart
    \/ BeginCycle
    \/ Research
    \/ ScanSymbol
    \/ NoSignals
    \/ Evaluate
    \/ QueueSignals

Spec == Init /\ [][Next]_vars

=============================================================================
