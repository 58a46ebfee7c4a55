------------------------------ MODULE ScanRules ------------------------------
(***************************************************************************)
(* The deterministic rules of a scan: the daily choice of symbols          *)
(* (src/data/universe_selector.py), the scores of a signal                 *)
(* (src/agents/orchestrator.py, src/scoring), the filters and the          *)
(* consensus (src/agents/stitch.py).                                       *)
(*                                                                         *)
(* Inputs are hundredths, scores ten-thousandths: the four decimals the    *)
(* code rounds to.                                                         *)
(***************************************************************************)
EXTENDS Integers, FiniteSets, Sequences, Functions

CONSTANTS
    Core,            \* watchlist.yaml: a sequence of symbols
    Candidates,      \* extended_universe.yaml: a sequence of symbols
    CoreSector,      \* _sector_map: the sector of each watchlist symbol
    CandidateSector, \* the sector of each candidate
    DynamicSize,     \* n of select_dynamic_universe
    DynamicCap,      \* _MAX_PER_SECTOR of the selector
    MaxPerSector,    \* MAX_PER_SECTOR of the Stitch agent
    MaxOutput        \* MAX_OUTPUT_SIGNALS

CoreSymbols == {Core[i] : i \in DOMAIN Core}
CandidateSymbols == {Candidates[i] : i \in DOMAIN Candidates}

\* No symbol stands twice in a list (config/watchlist.yaml,
\* config/extended_universe.yaml).
ASSUME ScanAssumption ==
    /\ Core \in Seq(CoreSymbols) /\ IsInjective(Core)
    /\ Candidates \in Seq(CandidateSymbols) /\ IsInjective(Candidates)
    /\ CoreSector \in [CoreSymbols -> STRING]
    /\ CandidateSector \in [CandidateSymbols -> STRING]
    /\ {DynamicSize, DynamicCap, MaxPerSector, MaxOutput} \subseteq Nat

Clamp(x, low, high) == IF x < low THEN low ELSE IF x > high THEN high ELSE x

NoRegime == "none"
Regimes == {"bull", "bear", "range_bound", "choppy"}

---------------------------------------------------------------------------
(* Lists *)

\* The numbers of I by falling key, those of one key in their order.
Arranged(I, key) ==
    LET rank == [i \in I |-> Cardinality({j \in I : \/ key[j] > key[i]
                                                    \/ key[j] = key[i] /\ j <= i})]
    IN  [k \in 1..Cardinality(I) |-> CHOOSE i \in I : rank[i] = k]

InOrder(I) == Arranged(I, [i \in I |-> 0])

\* The elements of s at the places I, in their order.
At(s, I) == LET q == InOrder(I) IN [k \in DOMAIN q |-> s[q[k]]]

\* sort(key=..., reverse=True), which keeps the order of equals; key[i] is that of s[i].
Descending(s, key) == LET q == Arranged(DOMAIN s, key) IN [k \in DOMAIN q |-> s[q[k]]]

Prefix(s, n) == SubSeq(s, 1, IF n < Len(s) THEN n ELSE Len(s))

\* The first cap elements of each sector, in their order; sector[i] is that of s[i].
Capped(s, sector, cap) ==
    At(s, {i \in DOMAIN s : Cardinality({j \in 1..(i - 1) : sector[j] = sector[i]}) < cap})

---------------------------------------------------------------------------
(* The daily universe *)

BoostedSectors ==
    [r \in Regimes |->
        CASE r = "bull"        -> {"IT", "Banking", "Finance", "Auto", "Infrastructure"}
          [] r = "bear"        -> {"Pharma", "Healthcare", "FMCG", "Power", "Energy"}
          [] r = "range_bound" -> {"FMCG", "Pharma", "Consumer", "Healthcare"}
          [] r = "choppy"      -> {}]

\* _score_symbol: setup is the score of the indicators, 0 without candles.
ScoreSymbol(symbol, setup, regime) ==
    IF setup > 0 /\ regime \in Regimes /\ CandidateSector[symbol] \in BoostedSectors[regime]
    THEN Clamp(setup + 8, 0, 100)
    ELSE setup

SelectDynamicUniverse(tokens, setup, regime) ==
    LET eligible == At(Candidates, {i \in DOMAIN Candidates : /\ Candidates[i] \notin CoreSymbols
                                                              /\ Candidates[i] \in tokens})
        sorted == Descending(eligible, [i \in DOMAIN eligible |->
                                  ScoreSymbol(eligible[i], setup[eligible[i]], regime)])
    IN  Prefix(Capped(sorted, [i \in DOMAIN sorted |-> CandidateSector[sorted[i]]], DynamicCap),
               DynamicSize)

\* The symbols a cycle scans, in order.
Combined(dynamic) == Core \o At(dynamic, {i \in DOMAIN dynamic : dynamic[i] \notin CoreSymbols})

---------------------------------------------------------------------------
(* Scores *)

\* The labels compared here are lower case, those of macro_data.py upper case.
DirectionAligned(direction, market) ==
    \/ direction = "BUY" /\ market = "bullish"
    \/ direction = "SELL" /\ market = "bearish"
    \/ market = "neutral"

MarketConfirmation(signal, macro) ==
    LET bonus == IF DirectionAligned(signal.direction, macro.market) THEN 10 ELSE -15
        penalty == IF macro.riskOff THEN -20 ELSE 0
    IN  Clamp(signal.mc + bonus + penalty, 0, 100)

\* The caller has 1.0 >= ns, rp >= 0.
ComputeConfidence(signal, macro, ns, rp) ==
    Clamp(25 * ns + 30 * signal.sa + 25 * MarketConfirmation(signal, macro)
            + 10 * signal.ls - 20 * rp, 0, 10000)

MacroGuard == 6000   \* macro_guard_max_bullish

Guarded(confidence, direction, regime) ==
    IF <<regime, direction>> \in {<<"bear", "BUY">>, <<"bull", "SELL">>}
    THEN Clamp(confidence, 0, MacroGuard)
    ELSE confidence

\* _score_single, without the wording of the summary.
ScoreSingle(signal, macro, ns, rp, regime) ==
    LET confidence == Guarded(ComputeConfidence(signal, macro, ns, rp),
                              signal.direction, regime)
        mc == MarketConfirmation(signal, macro)
    IN  [symbol |-> signal.symbol, direction |-> signal.direction,
         confidence |-> confidence, mc |-> mc, ls |-> signal.ls, rp |-> rp,
         final |-> (4 * confidence + 300 * signal.sa + 200 * mc + 100 * ns + 5) \div 10]

\* sort(key=lambda s: s.final_score, reverse=True)
ByFinalScore(s) == Descending(s, [i \in DOMAIN s |-> s[i].final])

\* score_signals
ScoreSignals(signals, macro, ns, rp, regime) ==
    ByFinalScore([i \in DOMAIN signals |-> ScoreSingle(signals[i], macro, ns, rp, regime)])

\* Seeded fault of ApplyFilters: the penalty of the Sentinel is left out.
FiltersWithoutRisk(scored) ==
    scored.confidence >= 6500 /\ scored.mc >= 60 /\ scored.ls >= 60

ApplyFilters(scored) ==
    /\ scored.confidence >= 6500
    /\ scored.mc >= 60
    /\ scored.ls >= 60
    /\ scored.rp <= 40

---------------------------------------------------------------------------
(* Consensus *)

MaxConfidenceVariance == 1500

OfSymbol(s, symbol) == At(s, {i \in DOMAIN s : s[i].symbol = symbol})

Going(s, direction) == At(s, {i \in DOMAIN s : s[i].direction = direction})

\* Seeded fault of Majority: conflicting directions are not looked at.
Everyone(group) == group

\* The signals of the direction with more votes; none in a tie.
Majority(group) ==
    LET buys == Going(group, "BUY")
        sells == Going(group, "SELL")
    IN  IF Len(buys) > Len(sells) THEN buys
        ELSE IF Len(sells) > Len(buys) THEN sells
        ELSE <<>>

\* The first of the greatest final score, raised by 5 % for each strategy
\* when at least two agree.
Boosted(group) ==
    LET best == ByFinalScore(group)[1]
        k == Len(group)
    IN  IF k < 2 THEN best
        ELSE [best EXCEPT !.final = Clamp((@ * (100 + 5 * k) + 50) \div 100, 0, 10000)]

\* _apply_consensus of one symbol: at most one signal.
Consensus(group) ==
    LET agreed == Majority(group)
        confidences == {agreed[i].confidence : i \in DOMAIN agreed}
        Diverge == \E x, y \in confidences : x - y > MaxConfidenceVariance
        leastFirst == Descending(agreed, [i \in DOMAIN agreed |-> -agreed[i].confidence])
    IN  CASE Len(group) = 1 -> group
          [] Len(group) > 1 /\ agreed = <<>> -> <<>>
          [] Len(group) > 1 /\ agreed # <<>> ->
                IF Diverge THEN <<leastFirst[1]>>
                ELSE <<Boosted(agreed)>>

\* _group_by_symbol and _apply_consensus: symbols in the order of their first
\* signal, without those nothing is agreed on.
ApplyConsensus(s) ==
    LET Agreed(i) == Consensus(OfSymbol(s, s[i].symbol))
        First(i) == \A j \in 1..(i - 1) : s[j].symbol # s[i].symbol
        q == InOrder({i \in DOMAIN s : First(i) /\ Agreed(i) # <<>>})
    IN  [k \in DOMAIN q |-> Agreed(q[k])[1]]

\* sector_map.get(symbol, "unknown"): the map holds the watchlist only.
MappedSector(scored) ==
    IF scored.symbol \in CoreSymbols THEN CoreSector[scored.symbol] ELSE "unknown"

FirstOfSectors(s) == Capped(s, [i \in DOMAIN s |-> MappedSector(s[i])], MaxPerSector)

\* Seeded fault of SectorDedup: without the sort.
DedupUnsorted(s) == FirstOfSectors(s)

SectorDedup(s) == FirstOfSectors(ByFinalScore(s))

\* Seeded fault of Finalize: everything left is put out.
FinalizeAll(s) == ByFinalScore(SectorDedup(ApplyConsensus(s)))

Finalize(s) == Prefix(ByFinalScore(SectorDedup(ApplyConsensus(s))), MaxOutput)

=============================================================================
