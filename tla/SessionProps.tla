--------------------------- MODULE SessionProps ---------------------------
(***************************************************************************)
(* What Session is expected to guarantee.                                  *)
(***************************************************************************)
EXTENDS Session

\* A token of the last five minutes of the market dies at 15:30; an expiry computed in
\* them is 15:25 of the next day.
Late(token) == token \in Tokens /\ issued[token] % SlotsADay = Closing
OfLateLogin(row) == Late(row.token) \/ row.at % SlotsADay = Closing

\* A session the programs take for active has a token Kite accepts ("We store a
\* few minutes earlier to be safe"), with overlapping logins and requests that
\* fail between two writes.  Exempt are rows with a token or an expiry of those
\* five minutes.
ActiveMeansAlive ==
    \A d \in Databases :
        Active(rows[d]) /\ ~OfLateLogin(rows[d]) => Alive(rows[d].token)

SessionLives == Alive(rows["live"].token) \/ OfLateLogin(rows["live"])

\* A trading day without a session does not pass in silence: the prompt of 08:55 was
\* sent, or sending it failed and a heartbeat has said so before the last five minutes
\* ("heartbeat will also catch the stale token", routines/morning-login-prompt.md:37).
\* Exempt are days on which the heartbeat fails as well, and sessions of late logins.
NoSilentDay ==
    MarketOpen =>
        \/ SessionLives
        \/ prompt = "sent"
        \/ prompt = "failed" /\ (Slot = Closing => heartbeat \in {"alerted", "failed"})

\* The monitor of open positions works with a token Kite accepts, whichever of
\* the two stores it comes from, after logins, expiries and restarts.  Exempt are
\* late logins, and the tick between whose two queries the row got another token.
MonitorsWithLiveToken ==
    reading # NotReading /\ MarketOpen /\ TickToken # NoToken =>
        \/ Alive(TickToken)
        \/ OfLateLogin(rows["live"])
        \/ TickToken = reading.token /\ reading.token # rows["live"].token

\* "Each tick re-reads the Kite session (handles daily 15:30 IST token rollover)":
\* while the market is open and the session lasts, a new session replaces the
\* worker's token without a restart.
LoginReachesWorker ==
    LET Stale == MarketOpen /\ Active(rows["live"]) /\ engine # rows["live"].token
    IN  Stale ~> ~Stale

=============================================================================
