--------------------------- MODULE PositionLedger ---------------------------
(***************************************************************************)
(* What Portfolio and OrderManager promise together, with no calls, rows,  *)
(* threads or crashes in sight: a ledger in which every position is opened *)
(* by an order of its own, stays as it was opened, leaves once and never   *)
(* comes back, and in which a trade is settled only after its position has *)
(* left.                                                                   *)
(***************************************************************************)
EXTENDS Integers

CONSTANTS Symbols, NoPosition

VARIABLES
    book,     \* the position of each symbol
    past,     \* orders that have opened their position, or will never do
    settled   \* orders whose trade is closed

vars == <<book, past, settled>>

Ids(b) == {b[s].order : s \in Symbols}

Init ==
    /\ book = [s \in Symbols |-> NoPosition]
    /\ past = {}
    /\ settled = {}

\* A new order opens the position of a symbol that has none.
Open(s) ==
    LET opened == book'[s]
    IN  /\ book[s] = NoPosition
        /\ opened # NoPosition
        /\ book' = [book EXCEPT ![s] = opened]
        /\ opened.order \notin past
        /\ past' = past \cup {opened.order}
        /\ UNCHANGED settled

Close(s) ==
    /\ book[s] # NoPosition
    /\ book' = [book EXCEPT ![s] = NoPosition]
    /\ UNCHANGED <<past, settled>>

\* Orders are filled that nobody will book: a second position in the symbol, or
\* a crash came first.
Forfeit ==
    /\ past \subseteq past'
    /\ UNCHANGED <<book, settled>>

Settle ==
    \E i \in past \ Ids(book) :
        /\ settled' = settled \cup {i}
        /\ UNCHANGED <<book, past>>

Next ==
    \/ \E s \in Symbols : Open(s) \/ Close(s)
    \/ Forfeit
    \/ Settle

Spec == Init /\ [][Next]_vars

=============================================================================
