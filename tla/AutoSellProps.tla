--------------------------- MODULE AutoSellProps ---------------------------
(***************************************************************************)
(* What AutoSell is expected to guarantee.                                 *)
(***************************************************************************)
EXTENDS AutoSell

\* What a start would find, or what the running process has.
Book == IF up THEN position ELSE dbPosition
Guards == IF up THEN triggers ELSE Loaded

\* No GTT outlives its position: an order that can still fire belongs to the
\* position in the book, or to the one whose exit is just being cleaned up
\* ("When app exits first -> cancels GTT on exchange").  Exempt are the orders a
\* failed request or a crash cut loose.
LiveGttHasPosition ==
    \A g \in GttIds \ stray :
        gtts[g].st = "active" =>
            \/ Book[gtts[g].sym] = gtts[g].entry
            \/ gtts[g].sym \in Busy({"cancel"})

\* Two GTTs for one symbol would sell twice.  Those the application knows of never stand
\* together, and each failed request and each crash cuts loose at most one more: a
\* placement whose answer is lost is retried, a deletion that fails is not, a status
\* request that fails at start drops the order it asked for, and a crash between the
\* exchange's answer and the row leaves an order nobody remembers.
SingleGtt ==
    LET Live(s) == {g \in GttIds : gtts[g].st = "active" /\ gtts[g].sym = s}
    IN  \A s \in Symbols :
            /\ \A g, h \in Live(s) \ stray : g = h
            /\ Cardinality(Live(s) \cap stray) <= failures + crashes

\* A position taken with auto-sell is watched by an active trigger of its own
\* until its exit is under way, restarts included, unless a refused exit or a
\* crash in the middle of an exit or an approval left it unwatched.
HeldIsGuarded ==
    \A s \in Symbols :
        Book[s] # 0 /\ Book[s] \notin abandoned =>
            \/ Guards[s].active /\ Guards[s].entry = Book[s]
            \/ approval.entry = Book[s]
            \/ s \in mon.exits
            \/ s \in Busy({"sell", "sold"})

\* The monitor only ever moves a stop on the exchange in the position's favour,
\* also after a restart: the tracked price is persisted before the stop is moved.
StopOnlyTightens ==
    [][\A g \in GttIds :
          gtts[g].st = "active" /\ gtts'[g].st = "active" =>
              ~Better(gtts[g].dir, gtts[g].stop, gtts'[g].stop)]_vars

\* A position leaves the book only when shares of that very position were sold:
\* by the exit order just booked, or by the GTT of this entry
\* (_handle_gtt_triggered_exit: "position was closed by the exchange").
NoPhantomClose ==
    [][\A s \in Symbols :
          up' /\ position[s] # 0 /\ position'[s] = 0 =>
              \/ mon.pc = "sold" /\ mon.sym = s
              \/ held'[s] # held[s]
              \/ \E g \in GttIds : gtts[g].st = "triggered" /\ gtts[g].entry = position[s]]_vars

\* The application sends an exit order for a position whose GTT has already sold
\* it only when this very cycle could not know: the GTT was executed after the
\* cycle asked for its status, or its trigger was installed after the cycle had
\* asked ("When GTT triggers first -> app detects via status poll",
\* docs/architecture.md:342), restarts and failed requests included.  Exempt are
\* executions the start found.
SoldTwiceOnlyInWindow ==
    \A s \in Busy({"sell"}) :
        LET t == triggers[s]
        IN  t.gid # 0 /\ gtts[t.gid].st = "triggered" /\ t.gst # "triggered"
                => t.gid \in unpolled

\* After a restart, "TRIGGERED -> handles as exchange exit (no new order needed)"
\* (docs/architecture.md:354): a position whose GTT the application knows to be
\* executed is not sold again.
TriggeredIsNotSold ==
    \A s \in Busy({"sell"}) : triggers[s].gst # "triggered"

\* A watched position whose holding time is over leaves the book: the cycle that
\* notices it comes, whatever ended the cycles before.
ExitsWhenDue ==
    \A e \in Entries :
        (\E s \in Symbols : position[s] = e /\ triggers[s].active /\ e \in aged)
            ~> (\A s \in Symbols : position[s] # e)

\* A position whose GTT was triggered leaves the book, by the status poll or by
\* the exit that overtakes it.
FiredGttIsBooked ==
    \A e \in Entries :
        (\E s \in Symbols :
            /\ position[s] = e
            /\ triggers[s].active
            /\ triggers[s].gid # 0
            /\ gtts[triggers[s].gid].st = "triggered")
            ~> (\A s \in Symbols : position[s] # e)

=============================================================================
