-------------------------- MODULE MarketScanProps --------------------------
(***************************************************************************)
(* What the scan cycle is expected to guarantee.                           *)
(***************************************************************************)
EXTENDS MarketScan

Queued(q) == {q[i] : i \in DOMAIN q}

\* "Analysis unavailable - blocking trade for safety": a cycle whose Sentinel
\* failed, or answered nothing that can be read, queues no signal, however
\* strong the other inputs.
NoTradeWithoutSentinel ==
    [][stage = "score" /\ risk.how # "answered" => queued' = <<>>]_vars

\* No signal is queued for a symbol on which as many or more of the strategies
\* that passed the filters point the other way.
MajorityDirection ==
    [][queued' # queued =>
        LET passing == Passing
            With(q) == Going(OfSymbol(passing, q.symbol), q.direction)
        IN  \A q \in Queued(queued') :
                2 * Len(With(q)) > Len(OfSymbol(passing, q.symbol))]_vars

\* A signal the consensus leaves on a symbol is only dropped for better ones: as
\* many of its sector, or of all, as may be queued.  This is the result, whatever
\* the order of the sorts and cuts that compute it.
BestAreQueued ==
    [][QueueSignals =>
        LET agreed == ApplyConsensus(Passing)
            Better(x) == {q \in Queued(queued') : q.final >= x.final}
        IN  \A i \in DOMAIN agreed :
                \/ agreed[i] \in Queued(queued')
                \/ Cardinality(Better(agreed[i])) = MaxOutput
                \/ Cardinality({q \in Better(agreed[i]) :
                        MappedSector(q) = MappedSector(agreed[i])}) = MaxPerSector]_vars

=============================================================================
