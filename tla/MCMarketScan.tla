---------------------------- MODULE MCMarketScan ----------------------------
(***************************************************************************)
(* Instance of MarketScan for TLC: two watchlist symbols of one sector,    *)
(* two candidates of which one is chosen.                                  *)
(***************************************************************************)
EXTENDS MarketScanProps, TLC

MCCore == <<"TCS", "INFY">>
MCCandidates == <<"COFORGE", "LUPIN">>
MCCoreSector == [s \in {"TCS", "INFY"} |-> "IT"]
MCCandidateSector == ("COFORGE" :> "IT") @@ ("LUPIN" :> "Pharma")
MCVolume == ("TCS" :> 100) @@ ("INFY" :> 50) @@ ("COFORGE" :> 80) @@ ("LUPIN" :> 60)

\* Strong both ways, and a weaker one whose strategy sets no liquidity: on LUPIN the
\* confidences of the two long ones diverge.
MCInputs == {[direction |-> "BUY", sa |-> 100, mc |-> 100, ls |-> 100],
             [direction |-> "SELL", sa |-> 90, mc |-> 95, ls |-> 90],
             [direction |-> "BUY", sa |-> 75, mc |-> 80, ls |-> 0]}

\* No label of macro_data.py is one compared in DirectionAligned: beside NoMacro only
\* the risk-off flag makes a difference.
MCMacros == {[market |-> "BEARISH", riskOff |-> TRUE]}
=============================================================================
