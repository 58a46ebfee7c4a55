----------------------------- MODULE MCAutoSell -----------------------------
(***************************************************************************)
(* Instance of AutoSell for TLC: a long and a short signal, and prices that *)
(* reach the stops, the target of the long and trailing stops in between.  *)
(***************************************************************************)
EXTENDS AutoSellProps

Long == [dir |-> Buy, entry |-> 100, stop |-> 90, target |-> 120]
Short == [dir |-> Sell, entry |-> 100, stop |-> 110, target |-> 90]

LongOnly == {Long}
BothSides == {Long, Short}

UpToTarget == {100, 120}
AllPrices == {90, 100, 110, 120}
ThreePrices == {90, 100, 110}

NoFailures == {}
AllFailures == {"placeFailed", "placeLost", "deleteFailed", "statusError", "exitRefused",
                "quoteFailed", "cancelled", "deleted"}
BrokerFailures == {"placeFailed", "quoteFailed"}

\* Bound of the safety run: three mishaps, but one failure and one crash when a second
\* position is opened.
FewMishaps == IF nextEntry > 2 THEN failures <= 1 /\ crashes <= 1 ELSE failures + crashes <= 3

\* Bound of the liveness run: the first position is in one of the two symbols.  The other
\* half of the behaviours are the mirror images of these.
FirstSymbol == CHOOSE s \in Symbols : TRUE
FirstInFirst == \A s \in Symbols \ {FirstSymbol} : position[s] # 1

=============================================================================
