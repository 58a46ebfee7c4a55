------------------------------ MODULE Session ------------------------------
(***************************************************************************)
(* The daily Kite session: a login on the phone ends at the Cloudflare     *)
(* worker, which writes the token and its expiry into app_state of both    *)
(* databases (cloudflare-worker/src/index.js); the always-on worker reads  *)
(* them on every tick (workers/auto_sell_tick.py, src/data/kite_client.py) *)
(* and falls back to the file scripts/kite_auth.py writes; a routine asks  *)
(* for the login every morning (routines/impl/morning_login_prompt.py) and *)
(* another one looks after it every hour (routines/impl/heartbeat.py).     *)
(*                                                                         *)
(* The clock has five slots a day.  The stored expiry is 15:25, the tokens  *)
(* die at 15:30 (routines/kite-token-health.md).                           *)
(***************************************************************************)
EXTENDS Integers, FiniteSets

CONSTANTS
    TradingDays,   \* days that are no weekend and no holiday
    MaxDay,        \* bound: the last day
    Callbacks,     \* requests to /kite/callback that may overlap
    MaxLogins,     \* bound: logins
    MaxFaults      \* bound: failures of a request, of a write, of the worker

ASSUME SessionAssumption ==
    /\ {MaxDay, MaxLogins, MaxFaults} \subseteq Nat
    /\ TradingDays \subseteq 0..MaxDay

VARIABLES
    now,        \* the slot, counted from the first day
    issued,     \* when each token was issued
    rows,       \* app_state of each database
    callback,   \* handleKiteCallback of each request
    file,       \* ~/.insight_alpha/kite_token.json
    engine,     \* engine of the worker: its token, or Down
    reading,    \* get_active_session of the worker between its two queries
    prompt,     \* what the morning's routine did
    heartbeat,  \* what the last heartbeat of the day found out about the session
    faults

messages == <<prompt, heartbeat>>
vars == <<now, issued, rows, callback, file, engine, reading, messages, faults>>

---------------------------------------------------------------------------
(* Time *)

Night == 0       \* to 08:55
Morning == 1     \* to 09:15, the prompt comes at 08:55
Trading == 2     \* to 15:25
Closing == 3     \* to 15:30
Evening == 4

SlotsADay == 5
Slot == now % SlotsADay
Day == now \div SlotsADay
Times == 0..(SlotsADay * (MaxDay + 2))

\* The first time after t at which a slot begins.
NextStart(t, slot) ==
    CHOOSE u \in (t + 1)..(t + SlotsADay) : u % SlotsADay = slot

\* is_market_open
MarketOpen == Day \in TradingDays /\ Slot \in {Trading, Closing}

Tokens == 1..Cardinality(DOMAIN issued)
NoToken == 0

\* Kite ends every token at 15:30.
Alive(token) == token \in Tokens /\ now < NextStart(issued[token], Evening)

---------------------------------------------------------------------------
(* Records *)

Databases == {"paper", "live"}

\* exp: kite_session_expires_at; at: when it was computed, for the properties.
Row == [token: 0..MaxLogins, exp: Times, at: Times]
NoRow == [token |-> NoToken, exp |-> 0, at |-> 0]

\* Seeded fault of Writes: the expiry before the token.
ExpiryFirst == <<[db |-> "paper", key |-> "exp"], [db |-> "paper", key |-> "token"],
                 [db |-> "live", key |-> "exp"], [db |-> "live", key |-> "token"]>>

\* One database after the other, the token before the expiry.
Writes == <<[db |-> "paper", key |-> "token"], [db |-> "paper", key |-> "exp"],
            [db |-> "live", key |-> "token"], [db |-> "live", key |-> "exp"]>>

\* done: writes made; exp is 0 until it is computed.
Handler == [done: 0..4, token: 0..MaxLogins, exp: Times, at: Times]
Idle == [done |-> 4, token |-> NoToken, exp |-> 0, at |-> 0]

Down == -1

\* The token read, and when.
Read == [token: 0..MaxLogins, at: {Down} \cup Times]
NotReading == [token |-> NoToken, at |-> Down]

TypeOK ==
    /\ now \in Times
    /\ Cardinality(DOMAIN issued) <= MaxLogins
    /\ \A n \in DOMAIN issued : issued[n] \in 0..now
    /\ rows \in [Databases -> Row]
    /\ \A d \in Databases : rows[d].exp <= now + SlotsADay
    /\ callback \in [Callbacks -> Handler]
    /\ file \in [token: 0..MaxLogins, day: -1..MaxDay]
    /\ engine \in {Down} \cup 0..MaxLogins
    /\ reading \in Read
    /\ prompt \in {"due", "sent", "failed", "skipped"}
    /\ heartbeat \in {"due", "alerted", "failed", "quiet"}
    /\ faults \in 0..MaxFaults

Fault ==
    /\ faults < MaxFaults
    /\ faults' = faults + 1

---------------------------------------------------------------------------
(* The clock and the routines *)

\* Seeded fault of Active: any stored token will do.
Present(row) == row.token # NoToken

\* _is_session_active: the Cloudflare worker answers with both keys of one query.
Active(row) == row.token # NoToken /\ now < row.exp

\* A request or the start of a tick lasts seconds, so at most one slot ends while it
\* runs.  The prompt runs every morning, the heartbeat every hour.
Tock ==
    /\ now < SlotsADay * (MaxDay + 1) - 1
    /\ \A c \in Callbacks : callback[c].done < 4 => issued[callback[c].token] = now
    /\ reading.at \in {Down, now}
    /\ Slot = Morning /\ Day \in TradingDays => prompt # "due"
    /\ Slot = Trading /\ Day \in TradingDays => heartbeat # "due"
    /\ now' = now + 1
    /\ IF (now + 1) % SlotsADay = Night
         THEN prompt' = "due" /\ heartbeat' = "due"
         ELSE UNCHANGED messages
    /\ UNCHANGED <<issued, rows, callback, file, engine, reading, faults>>

\* morning_login_prompt: a state that cannot be read counts as no session, and a
\* message that cannot be sent ends the routine.
MorningPrompt ==
    /\ Slot = Morning /\ Day \in TradingDays
    /\ prompt = "due"
    /\ \/ Active(rows["live"]) /\ prompt' = "skipped" /\ UNCHANGED faults
       \/ ~Active(rows["live"]) /\ prompt' = "sent" /\ UNCHANGED faults
       \/ Fault /\ prompt' \in {"sent", "failed"}
    /\ UNCHANGED <<now, issued, rows, callback, file, engine, reading, heartbeat>>

\* heartbeat, what it says of the session.  "failed": the state could not be read, or
\* the alert was not sent, which the routine does not notice.
Heartbeat ==
    /\ MarketOpen /\ Slot = Trading
    /\ \/ Active(rows["live"]) /\ heartbeat' = "quiet" /\ UNCHANGED faults
       \/ ~Active(rows["live"]) /\ heartbeat' = "alerted" /\ UNCHANGED faults
       \/ Fault /\ heartbeat' = "failed"
    /\ UNCHANGED <<now, issued, rows, callback, file, engine, reading, prompt>>

---------------------------------------------------------------------------
(* The login *)

Issue == issued' = [n \in 1..(Cardinality(Tokens) + 1) |-> IF n \in Tokens THEN issued[n] ELSE now]

\* Seeded fault of ExpiresAt: always tomorrow.
ExpiresTomorrow == SlotsADay * (Day + 1) + Closing

\* expiresAtIso: 15:25, of tomorrow once it has passed.
ExpiresAt == NextStart(now, Closing)

\* handleKiteCallback: Kite answers generateSession with a token.
Login(c) ==
    /\ callback[c].done = 4
    /\ Cardinality(Tokens) < MaxLogins
    /\ Issue
    /\ callback' = [callback EXCEPT ![c] =
                       [done |-> 0, token |-> Cardinality(Tokens) + 1, exp |-> 0, at |-> 0]]
    /\ UNCHANGED <<now, rows, file, engine, reading, messages, faults>>

\* After the await: the expiry is that of the moment the answer arrives.
SetExpiry(c) ==
    /\ callback[c].done = 0
    /\ callback[c].exp = 0
    /\ callback' = [callback EXCEPT ![c].exp = ExpiresAt, ![c].at = now]
    /\ UNCHANGED <<now, issued, rows, file, engine, reading, messages, faults>>

\* writeToken: supabaseUpsert of the next key.  A failure ends the request.
Upsert(c) ==
    LET h == callback[c]
        w == Writes[h.done + 1]
    IN  /\ h.done < 4
        /\ h.exp # 0
        /\ \/ /\ rows' = [rows EXCEPT ![w.db] =
                            IF w.key = "token" THEN [@ EXCEPT !.token = h.token]
                            ELSE [@ EXCEPT !.exp = h.exp, !.at = h.at]]
              /\ callback' = [callback EXCEPT ![c] = IF h.done = 3 THEN Idle
                                                     ELSE [h EXCEPT !.done = @ + 1]]
              /\ UNCHANGED faults
           \/ /\ Fault
              /\ callback' = [callback EXCEPT ![c] = Idle]
              /\ UNCHANGED rows
        /\ UNCHANGED <<now, issued, file, engine, reading, messages>>

\* Seeded fault of CachedToken: the date in the file is not compared.
CachedAnyDay == file.token

\* _load_cached_token
CachedToken == IF file.day = Day THEN file.token ELSE NoToken

\* scripts/kite_auth.py: authenticate with a request token, without a database.
ConsoleLogin ==
    /\ CachedToken = NoToken
    /\ Cardinality(Tokens) < MaxLogins
    /\ Issue
    /\ file' = [token |-> Cardinality(Tokens) + 1, day |-> Day]
    /\ UNCHANGED <<now, rows, callback, engine, reading, messages, faults>>

---------------------------------------------------------------------------
(* The worker *)

\* run_loop ticks when the market is open; KiteClient.authenticate begins with the
\* first query of get_active_session.
ReadToken ==
    /\ MarketOpen
    /\ reading = NotReading
    /\ reading' = [token |-> rows["live"].token, at |-> now]
    /\ UNCHANGED <<now, issued, rows, callback, file, engine, messages, faults>>

\* The second query, and the file when there is no session; NoToken stands for
\* ValueError.
Authenticated ==
    IF reading.token # NoToken /\ now < rows["live"].exp THEN reading.token ELSE CachedToken

\* Seeded fault of TickToken: the token of the engine's construction is kept.
KeptToken == IF engine = Down THEN Authenticated ELSE engine

\* The token a tick begins with.
TickToken == Authenticated

\* The engine is built, which authenticates; tick_auto_sell authenticates again and
\* gives up when it cannot.
Tick ==
    /\ reading # NotReading
    /\ \/ /\ TickToken # NoToken
          /\ engine' = TickToken
          /\ UNCHANGED faults
       \/ /\ TickToken = NoToken
          /\ UNCHANGED <<engine, faults>>
       \/ /\ Fault   \* the database cannot be read
          /\ UNCHANGED engine
    /\ reading' = NotReading
    /\ UNCHANGED <<now, issued, rows, callback, file, messages>>

\* The worker's machine restarts.
Restart ==
    /\ engine # Down
    /\ Fault
    /\ engine' = Down
    /\ reading' = NotReading
    /\ UNCHANGED <<now, issued, rows, callback, file, messages>>

---------------------------------------------------------------------------

Init ==
    /\ now = 0
    /\ issued = <<>>
    /\ rows = [d \in Databases |-> NoRow]
    /\ callback = [c \in Callbacks |-> Idle]
    /\ file = [token |-> NoToken, day |-> -1]
    /\ engine = Down
    /\ reading = NotReading
    /\ prompt = "due"
    /\ heartbeat = "due"
    /\ faults = 0

Next ==
    \/ Tock
    \/ MorningPrompt
    \/ Heartbeat
    \/ \E c \in Callbacks : Login(c) \/ SetExpiry(c) \/ Upsert(c)
    \/ ConsoleLogin
    \/ ReadToken
    \/ Tick
    \/ Restart

Spec == Init /\ [][Next]_vars

\* The worker ticks every minute of the market's hours.
FairSpec == Spec /\ WF_vars(ReadToken \/ Tick)

=============================================================================
