--------------------------- MODULE MCTradingCore ---------------------------
(***************************************************************************)
(* Instance of TradingCore for TLC, with its properties.  One long and one *)
(* short price level; the long one can lose the whole daily allowance in a *)
(* single trade, the short one wins or loses less.                         *)
(***************************************************************************)
EXTENDS TradingCoreProps, TLC

MCOffers == {[dir |-> Buy, entry |-> 4, stop |-> 2],
             [dir |-> Sell, entry |-> 4, stop |-> 6]}

MCSlips == {0, 1}

MCExitPrices == {2, 5}

\* The concurrent instance needs one price level and one exit price only.
OneOffer == {[dir |-> Buy, entry |-> 4, stop |-> 2]}

NoSlip == {0}

OneExitPrice == {2}

SymmetricNames == Permutations(Symbols) \cup Permutations(Threads)

SymmetricSymbols == Permutations(Symbols)

=============================================================================
