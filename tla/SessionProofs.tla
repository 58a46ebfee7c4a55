---------------------------- MODULE SessionProofs ----------------------------
(***************************************************************************)
(* Proofs about Session, for any days, logins, callbacks and failures.     *)
(*                                                                         *)
(* The two keys of a row are written one after the other and requests may  *)
(* overlap, so token and expiry can be of different logins, and a slot may *)
(* end between a token and the expiry computed for it.  What saves the     *)
(* session is that a request lasts no longer than a slot: the expiry was   *)
(* computed at most one slot after the token was issued (RowInv), which    *)
(* needs the same of every request between its two writes (BetweenInv).    *)
(***************************************************************************)
EXTENDS SessionProps, FiniteSetTheorems, TLAPS

---------------------------------------------------------------------------
(* The clock *)

\* NextStart is the first slot of its kind in the five that follow.
LEMMA NextStartIs ==
    ASSUME NEW t \in Nat, NEW s \in 0..4
    PROVE  /\ NextStart(t, s) \in (t + 1)..(t + 5)
           /\ NextStart(t, s) % 5 = s
<1>1. \/ (t + 1) % 5 = s \/ (t + 2) % 5 = s \/ (t + 3) % 5 = s
      \/ (t + 4) % 5 = s \/ (t + 5) % 5 = s
    OBVIOUS
<1>2. \E u \in (t + 1)..(t + 5) : u % 5 = s
    BY <1>1
<1> QED
    BY <1>2 DEF NextStart, SlotsADay

\* When the expiry is, and when the token dies.
LEMMA ClosingAndEvening ==
    ASSUME NEW t \in Nat
    PROVE  /\ NextStart(t, Closing) \in (t + 1)..(t + 5) /\ NextStart(t, Closing) % 5 = 3
           /\ NextStart(t, Evening) \in (t + 1)..(t + 5) /\ NextStart(t, Evening) % 5 = 4
<1>1. 3 \in 0..4 /\ 4 \in 0..4
    OBVIOUS
<1>2. /\ NextStart(t, 3) \in (t + 1)..(t + 5) /\ NextStart(t, 3) % 5 = 3
      /\ NextStart(t, 4) \in (t + 1)..(t + 5) /\ NextStart(t, 4) % 5 = 4
    BY <1>1, NextStartIs
<1> QED
    BY <1>2 DEF Closing, Evening

\* An expiry computed at most a slot after the token was issued comes before the
\* token dies, unless one of the two happened late.
LEMMA ExpiryBeforeDeath ==
    ASSUME NEW t \in Nat, NEW b \in Nat, b <= t + 1, t % 5 # 3, b % 5 # 3
    PROVE  NextStart(b, Closing) < NextStart(t, Evening)
<1>1. \A x \in (b + 1)..(b + 5), y \in (t + 1)..(t + 5) : x % 5 = 3 /\ y % 5 = 4 => x < y
    OBVIOUS
<1> QED
    BY <1>1, ClosingAndEvening

\* A token issued in the last two slots lives until the market closes.
LEMMA FreshLives ==
    ASSUME NEW t \in Nat, NEW n \in Nat, t <= n, n <= t + 2, n % 5 \in {1, 2, 3}
    PROVE  n < NextStart(t, Evening)
<1>1. \A y \in (t + 1)..(t + 5) : y % 5 = 4 => n < y
    OBVIOUS
<1> QED
    BY <1>1, ClosingAndEvening

\* A token issued this day lives until the market closes.
LEMMA TodayLives ==
    ASSUME NEW t \in Nat, NEW n \in Nat, t <= n, t \div 5 = n \div 5, n % 5 \in {2, 3}
    PROVE  n < NextStart(t, Evening)
<1>1. \A y \in (t + 1)..(t + 5) : y % 5 = 4 => n < y
    OBVIOUS
<1> QED
    BY <1>1, ClosingAndEvening

\* A token that lives before the market closes lives a slot later.
LEMMA LivesOn ==
    ASSUME NEW t \in Nat, NEW n \in Nat, n < NextStart(t, Evening), n % 5 \in {0, 1, 2}
    PROVE  n + 1 < NextStart(t, Evening)
<1>1. \A y \in (t + 1)..(t + 5) : y % 5 = 4 /\ n < y => n + 1 < y
    OBVIOUS
<1> QED
    BY <1>1, ClosingAndEvening

---------------------------------------------------------------------------
(* The invariant *)

\* Tokens are numbered from 1, and none is of the future.
IssuedInv ==
    /\ Cardinality(DOMAIN issued) \in 0..MaxLogins
    /\ issued \in [Tokens -> 0..now]
    /\ now \in 0..(SlotsADay * (MaxDay + 1) - 1)

\* A request under way began in this slot or the one before, and writes once its
\* expiry is computed.
CallbackInv ==
    \A c \in Callbacks :
        callback[c].done < 4 =>
            /\ callback[c].token \in Tokens
            /\ issued[callback[c].token] >= now - 1
            /\ callback[c].exp = 0 => callback[c].done = 0
            /\ callback[c].exp # 0 =>
                   /\ callback[c].at \in issued[callback[c].token]..now
                   /\ callback[c].exp = NextStart(callback[c].at, Closing)

\* The expiry of a row was computed at most one slot after the token was issued.
RowInv ==
    \A d \in Databases :
        /\ rows[d].token # NoToken => rows[d].token \in Tokens
        /\ rows[d].at <= now
        /\ rows[d].exp # 0 =>
               /\ rows[d].token \in Tokens
               /\ rows[d].at <= issued[rows[d].token] + 1
               /\ rows[d].exp = NextStart(rows[d].at, Closing)

\* The same of a request between its two writes to a database.
Between(c, d) == callback[c].done = IF d = "paper" THEN 1 ELSE 3

BetweenInv ==
    \A c \in Callbacks, d \in Databases :
        Between(c, d) =>
            /\ rows[d].token \in Tokens
            /\ callback[c].at <= issued[rows[d].token] + 1

\* The day in the file is the day of its token.
FileInv ==
    file.token # NoToken =>
        file.token \in Tokens /\ issued[file.token] \div SlotsADay = file.day

\* A routine stays quiet for a session that lasts until the market closes, and on a
\* trading day both routines have run in time.
Quiet == prompt = "skipped" \/ heartbeat = "quiet"

QuietInv == Quiet /\ Slot \in {Morning, Trading, Closing} => SessionLives

RoutineInv ==
    /\ Slot = Night => prompt = "due"
    /\ Slot \in {Night, Morning} => heartbeat = "due"
    /\ MarketOpen => prompt # "due"
    /\ MarketOpen /\ Slot = Closing => heartbeat # "due"

SessionInv ==
    /\ TypeOK
    /\ IssuedInv /\ CallbackInv /\ RowInv /\ BetweenInv /\ FileInv
    /\ QuietInv /\ RoutineInv

\* The bounds are naturals.
LEMMA BoundsNat == MaxDay \in Nat /\ MaxLogins \in Nat /\ MaxFaults \in Nat
BY SessionAssumption

\* The parts of the invariant that the steps read.
LEMMA Parts ==
    ASSUME SessionInv
    PROVE  /\ now \in Nat
           /\ \A n \in Tokens : issued[n] \in Nat /\ issued[n] <= now
           /\ rows \in [Databases -> Row]
           /\ callback \in [Callbacks -> Handler]
           /\ Cardinality(DOMAIN issued) \in 0..MaxLogins
           /\ NoToken \notin Tokens
BY BoundsNat DEF SessionInv, IssuedInv, TypeOK, Tokens, NoToken, SlotsADay

---------------------------------------------------------------------------
(* What it implies *)

\* A session called active has a token that lives, unless a late login took part.
LEMMA SessionImplies == SessionInv => ActiveMeansAlive
<1> SUFFICES ASSUME SessionInv, NEW d \in Databases,
                    Active(rows[d]), ~OfLateLogin(rows[d])
             PROVE  Alive(rows[d].token)
    BY DEF ActiveMeansAlive
<1> DEFINE t == rows[d].token
           b == rows[d].at
<1>1. rows[d] \in Row /\ t # NoToken /\ now < rows[d].exp /\ now \in Nat
    BY Parts DEF Active
<1>2. rows[d].exp # 0
    BY <1>1
<1>3. t \in Tokens /\ b <= issued[t] + 1 /\ rows[d].exp = NextStart(b, Closing)
    BY <1>2 DEF SessionInv, RowInv
<1>4. issued[t] % 5 # 3 /\ b % 5 # 3
    BY <1>3 DEF OfLateLogin, Late, SlotsADay, Closing
<1>5. issued[t] \in Nat /\ b \in Nat
    BY <1>1, <1>3, Parts DEF Row, Times
<1>6. NextStart(b, Closing) < NextStart(issued[t], Evening)
    BY <1>3, <1>4, <1>5, ExpiryBeforeDeath
<1>7. /\ NextStart(b, Closing) \in Nat /\ NextStart(issued[t], Evening) \in Nat
    <2>1. /\ NextStart(b, Closing) \in (b + 1)..(b + 5)
          /\ NextStart(issued[t], Evening) \in (issued[t] + 1)..(issued[t] + 5)
        BY <1>5, ClosingAndEvening
    <2> QED
        BY <1>5, <2>1
<1>8. now \in Nat
    BY Parts
<1> QED
    BY <1>1, <1>3, <1>6, <1>7, <1>8 DEF Alive

\* A trading day without a session does not pass in silence.
LEMMA QuietImplies == SessionInv => NoSilentDay
<1> SUFFICES ASSUME SessionInv, MarketOpen, ~SessionLives
             PROVE  \/ prompt = "sent"
                    \/ prompt = "failed" /\ (Slot = Closing => heartbeat \in {"alerted", "failed"})
    BY Zenon DEF NoSilentDay
<1>1. Slot \in {Morning, Trading, Closing}
    BY DEF MarketOpen
<1>2. prompt # "skipped" /\ heartbeat # "quiet"
    BY <1>1, Zenon DEF SessionInv, QuietInv, Quiet
<1>3. prompt \in {"sent", "failed"}
    BY <1>2 DEF SessionInv, RoutineInv, TypeOK
<1>4. Slot = Closing => heartbeat \in {"alerted", "failed"}
    BY <1>2 DEF SessionInv, RoutineInv, TypeOK
<1> QED
    BY <1>3, <1>4

\* The monitor's token lives, whichever store it is from.
LEMMA TickImplies == SessionInv => MonitorsWithLiveToken
<1> SUFFICES ASSUME SessionInv, MarketOpen, TickToken # NoToken, ~OfLateLogin(rows["live"]),
                    ~(TickToken = reading.token /\ reading.token # rows["live"].token)
             PROVE  Alive(TickToken)
    BY DEF MonitorsWithLiveToken
<1> DEFINE second == reading.token # NoToken /\ now < rows["live"].exp
<1>1. CASE second
    <2>1. TickToken = reading.token /\ reading.token = rows["live"].token
        BY <1>1 DEF TickToken, Authenticated
    <2>2. Active(rows["live"])
        BY <1>1, <2>1 DEF Active
    <2> QED
        BY <2>1, <2>2, SessionImplies DEF ActiveMeansAlive, Databases
<1>2. CASE ~second
    <2>1. /\ TickToken = file.token /\ file.day = Day
          /\ file.token # NoToken
        BY <1>2 DEF TickToken, Authenticated, CachedToken
    <2>2. file.token \in Tokens /\ issued[file.token] \div 5 = now \div 5
        BY <2>1 DEF SessionInv, FileInv, Day, SlotsADay
    <2>3. now \in Nat /\ issued[file.token] \in Nat /\ issued[file.token] <= now
        BY <2>2, Parts
    <2>4. now % 5 \in {2, 3}
        BY DEF MarketOpen, Slot, Trading, Closing, SlotsADay
    <2>5. now < NextStart(issued[file.token], Evening)
        BY <2>2, <2>3, <2>4, TodayLives
    <2> QED
        BY <2>1, <2>2, <2>5 DEF Alive
<1> QED
    BY <1>1, <1>2

---------------------------------------------------------------------------
(* Every step keeps it *)

\* No token was issued in the beginning.
LEMMA SessionInit == Init => SessionInv
<1> SUFFICES ASSUME Init PROVE SessionInv
    OBVIOUS
<1>1. Cardinality(DOMAIN issued) = 0 /\ DOMAIN issued = {}
    BY FS_EmptySet DEF Init
<1>2. Tokens = {}
    BY <1>1 DEF Tokens
<1>3. IssuedInv
    BY <1>1, <1>2, BoundsNat DEF Init, IssuedInv, SlotsADay
<1>4. TypeOK
    BY <1>1, BoundsNat DEF Init, TypeOK, SlotsADay, Times, NoRow, NoToken, Row, Idle, Handler, Down,
       Read, NotReading
<1>5. CallbackInv /\ BetweenInv
    BY DEF Init, CallbackInv, BetweenInv, Between, Idle
<1>6. RowInv /\ FileInv
    BY DEF Init, RowInv, FileInv, NoRow, NoToken
<1>7. QuietInv /\ RoutineInv
    BY DEF Init, QuietInv, RoutineInv, Quiet, MarketOpen, Slot, Night, Trading, Closing, SlotsADay
<1> QED
    BY <1>3, <1>4, <1>5, <1>6, <1>7 DEF SessionInv

\* A new token leaves the others alone.
LEMMA IssueKeeps ==
    ASSUME SessionInv, Issue, Cardinality(Tokens) < MaxLogins, UNCHANGED now
    PROVE  /\ Cardinality(Tokens) + 1 \in Tokens' /\ Cardinality(Tokens) + 1 \in 1..MaxLogins
           /\ issued'[Cardinality(Tokens) + 1] = now
           /\ \A n \in Tokens : n \in Tokens' /\ issued'[n] = issued[n]
           /\ IssuedInv'
<1> DEFINE k == Cardinality(DOMAIN issued)
<1>1. k \in 0..MaxLogins /\ Tokens = 1..k /\ issued \in [1..k -> 0..now] /\ now \in Nat
    BY Parts DEF SessionInv, IssuedInv, Tokens
<1>2. Cardinality(1..k) = k
    BY <1>1, FS_Interval, BoundsNat
<1>3. Cardinality(Tokens) = k
    BY <1>1, <1>2
<1>4. issued' = [n \in 1..(k + 1) |-> IF n \in 1..k THEN issued[n] ELSE now]
    BY <1>1, <1>3 DEF Issue
<1>5. DOMAIN issued' = 1..(k + 1) /\ Cardinality(1..(k + 1)) = k + 1
    BY <1>1, <1>4, FS_Interval, BoundsNat
<1>6. Tokens' = 1..(k + 1) /\ Cardinality(DOMAIN issued') = k + 1
    BY <1>5 DEF Tokens
<1>7. k + 1 \in 1..MaxLogins
    BY <1>1, <1>3, BoundsNat
<1>8. issued' \in [1..(k + 1) -> 0..now]
    BY <1>1, <1>4
<1>9. IssuedInv'
    BY <1>6, <1>7, <1>8 DEF SessionInv, IssuedInv
<1>10. /\ k + 1 \in Tokens'
       /\ issued'[k + 1] = now
       /\ \A n \in Tokens : n \in Tokens' /\ issued'[n] = issued[n]
    BY <1>1, <1>4, <1>6
<1> HIDE DEF k
<1> QED
    BY <1>3, <1>7, <1>9, <1>10

\* What only the clock, the tokens, the rows and the requests decide.
LEMMA StoresKeep ==
    ASSUME SessionInv, UNCHANGED <<now, issued, rows, callback, file>>
    PROVE  IssuedInv' /\ CallbackInv' /\ RowInv' /\ BetweenInv' /\ FileInv'
<1>1. IssuedInv' /\ CallbackInv'
    BY DEF SessionInv, IssuedInv, CallbackInv, Tokens, NextStart
<1>2. RowInv' /\ BetweenInv' /\ FileInv'
    BY DEF SessionInv, RowInv, BetweenInv, Between, FileInv, Tokens, NextStart
<1> QED
    BY <1>1, <1>2

\* Whether the session of the rows lives, only the clock, the tokens and they decide.
LEMMA LivesKeep ==
    ASSUME UNCHANGED <<now, issued, rows>>
    PROVE  SessionLives' = SessionLives /\ Slot' = Slot /\ MarketOpen' = MarketOpen
<1>1. Slot' = Slot /\ MarketOpen' = MarketOpen
    BY DEF Slot, MarketOpen, Day
<1>2. Tokens' = Tokens
    BY DEF Tokens
<1>3. SessionLives' = SessionLives
    BY <1>2 DEF SessionLives, Alive, OfLateLogin, Late, NextStart
<1> QED
    BY <1>1, <1>3

\* A quiet routine stays justified while neither the clock nor the rows move.
LEMMA MessagesKeep ==
    ASSUME SessionInv, UNCHANGED <<now, issued, rows, messages>>
    PROVE  QuietInv' /\ RoutineInv'
<1>1. prompt' = prompt /\ heartbeat' = heartbeat
    BY DEF messages
<1> QED
    BY <1>1, LivesKeep DEF SessionInv, QuietInv, RoutineInv, Quiet

\* What neither the database nor the clock takes part in.
LEMMA TickStep == SessionInv /\ (ReadToken \/ Tick \/ Restart \/ UNCHANGED vars) => SessionInv'
<1> SUFFICES ASSUME SessionInv, ReadToken \/ Tick \/ Restart \/ UNCHANGED vars PROVE SessionInv'
    OBVIOUS
<1>1. UNCHANGED <<now, issued, rows, callback, file, messages, prompt, heartbeat>>
    BY DEF ReadToken, Tick, Restart, vars, messages
<1>2. engine' \in {Down} \cup 0..MaxLogins
    BY DEF SessionInv, TypeOK, ReadToken, Tick, Restart, vars, TickToken, Authenticated,
           CachedToken, Row, Databases, NoToken, Read
<1>3. faults' \in 0..MaxFaults
    BY BoundsNat DEF SessionInv, TypeOK, ReadToken, Tick, Restart, vars, Fault
<1>4. reading' \in Read
    BY BoundsNat DEF SessionInv, TypeOK, ReadToken, Tick, Restart, vars, Read, NotReading, NoToken,
           Row, Databases
<1>5. TypeOK'
    BY <1>1, <1>2, <1>3, <1>4 DEF SessionInv, TypeOK
<1> QED
    BY <1>1, <1>5, StoresKeep, MessagesKeep DEF SessionInv

\* The routines: a session called active lives.
LEMMA RoutineStep == SessionInv /\ (MorningPrompt \/ Heartbeat) => SessionInv'
<1> SUFFICES ASSUME SessionInv, MorningPrompt \/ Heartbeat PROVE SessionInv'
    OBVIOUS
<1>1. UNCHANGED <<now, issued, rows, callback, file, engine, reading>>
    BY DEF MorningPrompt, Heartbeat
<1>2. /\ faults' \in 0..MaxFaults
      /\ prompt' \in {"due", "sent", "failed", "skipped"}
      /\ heartbeat' \in {"due", "alerted", "failed", "quiet"}
    BY BoundsNat DEF SessionInv, TypeOK, MorningPrompt, Heartbeat, Fault
<1>3. TypeOK'
    BY <1>1, <1>2 DEF SessionInv, TypeOK
<1>4. Active(rows["live"]) => SessionLives
    BY SessionImplies DEF ActiveMeansAlive, SessionLives, Databases
<1>5. Quiet' => Quiet \/ Active(rows["live"])
    BY DEF Quiet, MorningPrompt, Heartbeat
<1>6. SessionLives' = SessionLives /\ Slot' = Slot /\ MarketOpen' = MarketOpen
    BY <1>1, LivesKeep
<1>7. QuietInv'
    BY <1>4, <1>5, <1>6 DEF SessionInv, QuietInv
<1>8. RoutineInv'
    <2>1. CASE MorningPrompt
        <3>1. heartbeat' = heartbeat /\ prompt' # "due" /\ Slot = Morning
            BY <2>1 DEF MorningPrompt
        <3> QED
            BY <1>6, <3>1 DEF SessionInv, RoutineInv, Morning, Night, Closing
    <2>2. CASE Heartbeat
        <3>1. prompt' = prompt /\ heartbeat' # "due" /\ Slot = Trading
            BY <2>2 DEF Heartbeat
        <3> QED
            BY <1>6, <3>1 DEF SessionInv, RoutineInv, Morning, Night, Closing, Trading
    <2> QED
        BY <2>1, <2>2
<1> QED
    BY <1>1, <1>3, <1>7, <1>8, StoresKeep DEF SessionInv

\* The clock moves: a session that lasted goes on to last, as long as it matters.
LEMMA TockStep == SessionInv /\ Tock => SessionInv'
<1> SUFFICES ASSUME SessionInv, Tock PROVE SessionInv'
    OBVIOUS
<1>1. /\ now' = now + 1 /\ now \in Nat
      /\ now < SlotsADay * (MaxDay + 1) - 1
      /\ UNCHANGED <<issued, rows, callback, file, engine, reading, faults>>
    BY Parts DEF Tock
<1>2. Tokens' = Tokens /\ \A n \in Tokens : issued'[n] = issued[n]
    BY <1>1 DEF Tokens
<1>3. IssuedInv'
    BY <1>1, <1>2, BoundsNat DEF SessionInv, IssuedInv, SlotsADay
<1>4. TypeOK'
    <2>1. now' \in Times /\ Cardinality(DOMAIN issued') <= MaxLogins
        BY <1>1, BoundsNat DEF SessionInv, TypeOK, Times, SlotsADay
    <2>2. \A n \in DOMAIN issued' : issued'[n] \in 0..now'
        BY <1>1 DEF SessionInv, TypeOK
    <2>3. rows' \in [Databases -> Row] /\ \A d \in Databases : rows'[d].exp <= now' + SlotsADay
        BY <1>1 DEF SessionInv, TypeOK, Row, Times, SlotsADay
    <2>4. /\ prompt' \in {"due", "sent", "failed", "skipped"}
          /\ heartbeat' \in {"due", "alerted", "failed", "quiet"}
        BY DEF SessionInv, TypeOK, Tock, messages
    <2> QED
        BY <1>1, <2>1, <2>2, <2>3, <2>4 DEF SessionInv, TypeOK
<1>5. CallbackInv'
    <2>1. \A c \in Callbacks : callback[c].done < 4 => issued[callback[c].token] = now
        BY DEF Tock
    <2>2. \A c \in Callbacks : callback[c].at \in Nat
        BY Parts DEF Handler, Times
    <2> QED
        BY <1>1, <1>2, <2>1, <2>2 DEF SessionInv, CallbackInv, NextStart
<1>6. RowInv' /\ BetweenInv' /\ FileInv'
    <2>1. \A d \in Databases : rows[d].at \in Nat
        BY Parts DEF Row, Times
    <2> QED
        BY <1>1, <1>2, <2>1 DEF SessionInv, RowInv, BetweenInv, Between, FileInv, NextStart
<1>7. Slot' = (now + 1) % 5 /\ Slot = now % 5
    BY <1>1 DEF Slot, SlotsADay
<1>8. (now + 1) % 5 = 0 => prompt' = "due" /\ heartbeat' = "due"
    BY DEF Tock, SlotsADay, Night
<1>9. (now + 1) % 5 # 0 => prompt' = prompt /\ heartbeat' = heartbeat
    BY DEF Tock, SlotsADay, Night, messages
<1>10. QuietInv'
    <2> SUFFICES ASSUME Quiet', Slot' \in {1, 2, 3}
                 PROVE  SessionLives'
        BY DEF QuietInv, Morning, Trading, Closing
    <2>1. Quiet /\ Slot \in {0, 1, 2}
        BY <1>1, <1>7, <1>9 DEF Quiet
    <2>2. Slot # 0
        BY <2>1 DEF SessionInv, RoutineInv, Quiet, Night
    <2>3. SessionLives
        BY <2>1, <2>2 DEF SessionInv, QuietInv, Morning, Trading
    <2>4. OfLateLogin(rows["live"]) => OfLateLogin(rows["live"])'
        BY <1>1, <1>2 DEF OfLateLogin, Late
    <2>5. Alive(rows["live"].token) => Alive(rows["live"].token)'
        <3> DEFINE t == rows["live"].token
        <3> SUFFICES ASSUME t \in Tokens, now < NextStart(issued[t], Evening)
                     PROVE  now + 1 < NextStart(issued[t], Evening)
            BY <1>1, <1>2 DEF Alive, NextStart
        <3>1. issued[t] \in Nat
            BY Parts
        <3> QED
            BY <1>1, <1>7, <2>1, <3>1, LivesOn
    <2> QED
        BY <2>3, <2>4, <2>5 DEF SessionLives
<1>11. RoutineInv'
    <2>1. (now + 1) % 5 # 0 => (now + 1) \div 5 = now \div 5 /\ (now + 1) % 5 = (now % 5) + 1
        BY <1>1
    <2>2. Slot' # Night => Day' = Day /\ Slot' = Slot + 1
        BY <1>1, <1>7, <2>1 DEF Day, SlotsADay, Night
    <2>3. Slot' = Night => prompt' = "due" /\ heartbeat' = "due"
        BY <1>7, <1>8 DEF Night
    <2>4. Slot' = Morning => heartbeat' = "due"
        BY <1>7, <1>9, <2>2 DEF SessionInv, RoutineInv, Night, Morning
    <2>5. MarketOpen' /\ Slot' = Trading => prompt' # "due"
        <3> SUFFICES ASSUME MarketOpen', Slot' = Trading PROVE prompt' # "due"
            OBVIOUS
        <3>1. Slot = Morning /\ Day \in TradingDays
            BY <1>1, <1>7, <2>2 DEF MarketOpen, Trading, Morning, Night
        <3> QED
            BY <1>7, <1>9, <3>1 DEF Tock, Trading, Morning, Slot, SlotsADay
    <2>6. MarketOpen' /\ Slot' = Closing => prompt' # "due" /\ heartbeat' # "due"
        <3> SUFFICES ASSUME MarketOpen', Slot' = Closing PROVE prompt' # "due" /\ heartbeat' # "due"
            OBVIOUS
        <3>1. Slot = Trading /\ Day \in TradingDays
            BY <1>1, <1>7, <2>2 DEF MarketOpen, Trading, Closing, Night
        <3>2. prompt # "due"
            BY <3>1 DEF SessionInv, RoutineInv, MarketOpen
        <3>3. heartbeat # "due"
            BY <3>1 DEF Tock
        <3> QED
            BY <1>7, <1>9, <3>2, <3>3 DEF Closing
    <2>7. MarketOpen' => Slot' \in {Trading, Closing}
        BY DEF MarketOpen
    <2> QED
        BY <2>3, <2>4, <2>5, <2>6, <2>7 DEF RoutineInv
<1> QED
    BY <1>3, <1>4, <1>5, <1>6, <1>10, <1>11 DEF SessionInv

\* No write has an expiry beyond the bounds of time.
LEMMA ExpiryInTimes ==
    ASSUME SessionInv, NEW t \in 0..now
    PROVE  /\ NextStart(t, Closing) \in Times
           /\ NextStart(t, Closing) <= now + SlotsADay
<1>1. t \in Nat /\ now \in Nat /\ now <= 5 * (MaxDay + 1) - 1
    BY Parts, BoundsNat DEF SessionInv, IssuedInv, SlotsADay
<1>2. NextStart(t, Closing) \in (t + 1)..(t + 5)
    BY <1>1, ClosingAndEvening
<1> QED
    BY <1>1, <1>2, BoundsNat DEF Times, SlotsADay

\* A new token of a login, by whichever way, leaves the rest as it was.
LEMMA LoginKeeps ==
    ASSUME SessionInv, Issue, Cardinality(Tokens) < MaxLogins,
           UNCHANGED <<now, rows, engine, reading, messages, faults>>
    PROVE  /\ RowInv' /\ QuietInv' /\ RoutineInv' /\ prompt' = prompt /\ heartbeat' = heartbeat
           /\ Cardinality(DOMAIN issued') <= MaxLogins
           /\ \A n \in DOMAIN issued' : issued'[n] \in 0..now'
<1>1. \A n \in Tokens : n \in Tokens' /\ issued'[n] = issued[n]
    BY IssueKeeps
<1>2. IssuedInv'
    BY IssueKeeps
<1>3. RowInv'
    BY <1>1 DEF SessionInv, RowInv, NextStart
<1>4. QuietInv' /\ RoutineInv' /\ prompt' = prompt /\ heartbeat' = heartbeat
    <2>1. prompt' = prompt /\ heartbeat' = heartbeat
        BY DEF messages
    <2>2. Slot' = Slot /\ MarketOpen' = MarketOpen
        BY DEF Slot, MarketOpen, Day
    <2>3. SessionLives => SessionLives'
        BY <1>1 DEF SessionLives, Alive, OfLateLogin, Late, NextStart
    <2> QED
        BY <2>1, <2>2, <2>3 DEF SessionInv, QuietInv, RoutineInv, Quiet
<1>5. Cardinality(DOMAIN issued') <= MaxLogins
    BY <1>2, BoundsNat DEF IssuedInv
<1>6. \A n \in DOMAIN issued' : issued'[n] \in 0..now'
    BY <1>2 DEF IssuedInv
<1> QED
    BY <1>3, <1>4, <1>5, <1>6

LEMMA LoginStep ==
    ASSUME SessionInv, NEW c \in Callbacks, Login(c)
    PROVE  SessionInv'
<1> DEFINE k == Cardinality(Tokens) + 1
           new == [done |-> 0, token |-> k, exp |-> 0, at |-> 0]
<1>1. /\ Issue /\ Cardinality(Tokens) < MaxLogins
      /\ UNCHANGED <<now, rows, file, engine, reading, messages, faults>>
      /\ callback' = [callback EXCEPT ![c] = new]
    BY DEF Login
<1>2. /\ k \in Tokens' /\ k \in 1..MaxLogins /\ issued'[k] = now
      /\ \A n \in Tokens : n \in Tokens' /\ issued'[n] = issued[n]
      /\ IssuedInv'
    BY <1>1, IssueKeeps
<1>3. /\ RowInv' /\ QuietInv' /\ RoutineInv' /\ prompt' = prompt /\ heartbeat' = heartbeat
      /\ Cardinality(DOMAIN issued') <= MaxLogins
      /\ \A n \in DOMAIN issued' : issued'[n] \in 0..now'
    BY <1>1, LoginKeeps
<1> HIDE DEF k
<1>4. callback \in [Callbacks -> Handler] /\ now \in Nat
    BY Parts
<1>7. new \in Handler
    BY <1>2, BoundsNat DEF Handler, Times, SlotsADay
<1>8. callback' \in [Callbacks -> Handler]
    BY <1>1, <1>4, <1>7
<1>9. /\ callback'[c] = new
      /\ \A e \in Callbacks \ {c} : callback'[e] = callback[e]
    BY <1>1, <1>4
<1>10. TypeOK'
    BY <1>1, <1>3, <1>8 DEF SessionInv, TypeOK
<1>11. CallbackInv'
    <2>1. \A e \in Callbacks \ {c} : callback'[e].done < 4 =>
            /\ callback'[e].token \in Tokens'
            /\ issued'[callback'[e].token] >= now' - 1
            /\ callback'[e].exp = 0 => callback'[e].done = 0
            /\ callback'[e].exp # 0 =>
                   /\ callback'[e].at \in issued'[callback'[e].token]..now'
                   /\ callback'[e].exp = NextStart(callback'[e].at, Closing)
        BY <1>1, <1>2, <1>9 DEF SessionInv, CallbackInv
    <2>2. /\ callback'[c].token \in Tokens'
          /\ issued'[callback'[c].token] >= now' - 1
          /\ callback'[c].exp = 0 /\ callback'[c].done = 0
        BY <1>1, <1>2, <1>4, <1>9
    <2> QED
        BY <2>1, <2>2 DEF CallbackInv, NextStart
<1>12. BetweenInv'
    <2> SUFFICES ASSUME NEW e \in Callbacks, NEW d \in Databases, Between(e, d)'
                 PROVE  /\ rows[d].token \in Tokens'
                        /\ callback'[e].at <= issued'[rows[d].token] + 1
        BY <1>1 DEF BetweenInv
    <2>1. e # c
        BY <1>9 DEF Between
    <2>2. callback'[e] = callback[e] /\ Between(e, d)
        BY <1>9, <2>1 DEF Between
    <2>3. rows[d].token \in Tokens /\ callback[e].at <= issued[rows[d].token] + 1
        BY <2>2 DEF SessionInv, BetweenInv
    <2> QED
        BY <1>2, <2>2, <2>3
<1>13. FileInv'
    BY <1>1, <1>2 DEF SessionInv, FileInv
<1> QED
    BY <1>2, <1>3, <1>10, <1>11, <1>12, <1>13 DEF SessionInv

LEMMA ConsoleStep == SessionInv /\ ConsoleLogin => SessionInv'
<1> SUFFICES ASSUME SessionInv, ConsoleLogin PROVE SessionInv'
    OBVIOUS
<1> DEFINE k == Cardinality(Tokens) + 1
<1>1. /\ Issue /\ Cardinality(Tokens) < MaxLogins
      /\ UNCHANGED <<now, rows, callback, engine, reading, messages, faults>>
      /\ file' = [token |-> k, day |-> Day]
    BY DEF ConsoleLogin
<1>2. /\ k \in Tokens' /\ k \in 1..MaxLogins /\ issued'[k] = now
      /\ \A n \in Tokens : n \in Tokens' /\ issued'[n] = issued[n]
      /\ IssuedInv'
    BY <1>1, IssueKeeps
<1>3. /\ RowInv' /\ QuietInv' /\ RoutineInv' /\ prompt' = prompt /\ heartbeat' = heartbeat
      /\ Cardinality(DOMAIN issued') <= MaxLogins
      /\ \A n \in DOMAIN issued' : issued'[n] \in 0..now'
    BY <1>1, LoginKeeps
<1> HIDE DEF k
<1>4. Day \in -1..MaxDay
    BY Parts, BoundsNat DEF SessionInv, IssuedInv, Day, SlotsADay
<1>5. file' \in [token: 0..MaxLogins, day: -1..MaxDay]
    BY <1>1, <1>2, <1>4, BoundsNat
<1>6. TypeOK'
    BY <1>1, <1>3, <1>5 DEF SessionInv, TypeOK
<1>7. CallbackInv'
    BY <1>1, <1>2 DEF SessionInv, CallbackInv, NextStart
<1>8. BetweenInv'
    BY <1>1, <1>2 DEF SessionInv, BetweenInv, Between
<1>9. FileInv'
    BY <1>1, <1>2 DEF FileInv, Day
<1> QED
    BY <1>2, <1>3, <1>6, <1>7, <1>8, <1>9 DEF SessionInv

\* What the next write of a request is.
LEMMA WriteIs ==
    ASSUME NEW n \in 0..3
    PROVE  /\ Writes[n + 1].db = IF n \in {0, 1} THEN "paper" ELSE "live"
           /\ Writes[n + 1].key = IF n \in {0, 2} THEN "token" ELSE "exp"
BY DEF Writes

\* A request that ends, or a fault, touches neither the rows nor the tokens.
LEMMA EndedRequest ==
    ASSUME SessionInv, NEW c \in Callbacks,
           callback' = [callback EXCEPT ![c] = Idle],
           UNCHANGED <<now, issued, rows, file, engine, reading, messages>>, Fault
    PROVE  SessionInv'
<1>1. Idle \in Handler
    BY BoundsNat DEF Idle, Handler, Times, NoToken, SlotsADay
<1>2. callback \in [Callbacks -> Handler]
    BY Parts
<1>3. /\ callback' \in [Callbacks -> Handler]
      /\ callback'[c] = Idle
      /\ \A e \in Callbacks \ {c} : callback'[e] = callback[e]
    BY <1>1, <1>2
<1>4. TypeOK'
    BY <1>3, BoundsNat DEF SessionInv, TypeOK, Fault, messages
<1>5. IssuedInv' /\ RowInv' /\ FileInv'
    BY DEF SessionInv, IssuedInv, RowInv, FileInv, Tokens, NextStart
<1>6. CallbackInv'
    BY <1>3 DEF SessionInv, CallbackInv, Tokens, NextStart, Idle
<1>7. BetweenInv'
    BY <1>3 DEF SessionInv, BetweenInv, Between, Tokens, Idle
<1> QED
    BY <1>4, <1>5, <1>6, <1>7, MessagesKeep DEF SessionInv

\* The expiry is computed.
LEMMA SetExpiryStep ==
    ASSUME SessionInv, NEW c \in Callbacks, SetExpiry(c)
    PROVE  SessionInv'
<1> DEFINE h == callback[c]
           new == [h EXCEPT !.exp = ExpiresAt, !.at = now]
<1>1. /\ h.done = 0 /\ h.exp = 0
      /\ callback' = [callback EXCEPT ![c] = new]
      /\ UNCHANGED <<now, issued, rows, file, engine, reading, messages, faults>>
    <2>1. callback' = [callback EXCEPT ![c].exp = ExpiresAt, ![c].at = now]
        BY DEF SetExpiry
    <2>2. callback \in [Callbacks -> Handler] /\ h \in Handler
        BY Parts
    <2>3. [[h EXCEPT !.exp = ExpiresAt] EXCEPT !.at = now] = new
        BY <2>2 DEF Handler
    <2>4. callback' = [callback EXCEPT ![c] = new]
        BY <2>1, <2>2, <2>3
    <2> QED
        BY <2>4 DEF SetExpiry
<1>2. /\ callback \in [Callbacks -> Handler] /\ h \in Handler /\ now \in Nat
      /\ now \in 0..now
    BY Parts
<1>3. ExpiresAt \in Times /\ ExpiresAt = NextStart(now, Closing) /\ now \in Times
    BY <1>2, ExpiryInTimes DEF ExpiresAt, SessionInv, TypeOK
<1>4. new \in Handler /\ new.done = 0 /\ new.token = h.token /\ new.exp = ExpiresAt /\ new.at = now
    BY <1>1, <1>2, <1>3 DEF Handler
<1> HIDE DEF new
<1>5. /\ callback' \in [Callbacks -> Handler]
      /\ callback'[c] = new
      /\ \A e \in Callbacks \ {c} : callback'[e] = callback[e]
    BY <1>1, <1>2, <1>4
<1>6. TypeOK'
    BY <1>1, <1>5 DEF SessionInv, TypeOK, messages
<1>7. IssuedInv' /\ RowInv' /\ FileInv'
    BY <1>1 DEF SessionInv, IssuedInv, RowInv, FileInv, Tokens, NextStart
<1>8. ExpiresAt # 0
    <2>1. NextStart(now, Closing) \in (now + 1)..(now + 5)
        BY <1>2, ClosingAndEvening
    <2> QED
        BY <1>2, <1>3, <2>1
<1>9. CallbackInv'
    <2>1. \A e \in Callbacks \ {c} : callback'[e].done < 4 =>
            /\ callback'[e].token \in Tokens'
            /\ issued'[callback'[e].token] >= now' - 1
            /\ callback'[e].exp = 0 => callback'[e].done = 0
            /\ callback'[e].exp # 0 =>
                   /\ callback'[e].at \in issued'[callback'[e].token]..now'
                   /\ callback'[e].exp = NextStart(callback'[e].at, Closing)
        BY <1>1, <1>5 DEF SessionInv, CallbackInv, Tokens
    <2>2. h.token \in Tokens /\ issued[h.token] >= now - 1 /\ issued[h.token] \in 0..now
        BY <1>1, <1>2, Parts DEF SessionInv, CallbackInv
    <2>3. /\ callback'[c].token \in Tokens'
          /\ issued'[callback'[c].token] >= now' - 1
          /\ callback'[c].exp # 0
          /\ callback'[c].at \in issued'[callback'[c].token]..now'
          /\ callback'[c].exp = NextStart(callback'[c].at, Closing)
        BY <1>1, <1>2, <1>3, <1>4, <1>5, <1>8, <2>2 DEF Tokens
    <2> QED
        BY <2>1, <2>3 DEF CallbackInv, NextStart
<1>10. BetweenInv'
    <2>1. \A e \in Callbacks, d \in Databases : Between(e, d)' => e # c /\ Between(e, d)
        BY <1>4, <1>5 DEF Between
    <2> QED
        BY <1>1, <1>5, <2>1 DEF SessionInv, BetweenInv, Tokens
<1> QED
    BY <1>1, <1>6, <1>7, <1>9, <1>10, MessagesKeep DEF SessionInv

\* The next write of a request, and the row it leaves.
WriteDone(c) ==
    LET h == callback[c]
        w == Writes[h.done + 1]
    IN  /\ rows' = [rows EXCEPT ![w.db] =
                        IF w.key = "token" THEN [@ EXCEPT !.token = h.token]
                        ELSE [@ EXCEPT !.exp = h.exp, !.at = h.at]]
        /\ callback' = [callback EXCEPT ![c] = IF h.done = 3 THEN Idle
                                               ELSE [h EXCEPT !.done = @ + 1]]

\* What a write to a database d makes true of its row, whichever of the two keys it is.
LEMMA WriteKeeps ==
    ASSUME SessionInv, NEW c \in Callbacks, callback[c].done < 4, callback[c].exp # 0,
           WriteDone(c), UNCHANGED <<now, issued>>,
           NEW d \in Databases, d = Writes[callback[c].done + 1].db
    PROVE  /\ rows'[d] \in Row
           /\ rows'[d].exp <= now + SlotsADay
           /\ rows'[d].token \in Tokens
           /\ rows'[d].at <= now
           /\ rows'[d].at <= issued[rows'[d].token] + 1
           /\ rows'[d].exp # 0 => rows'[d].exp = NextStart(rows'[d].at, Closing)
           /\ \A n \in Nat : n <= issued[rows[d].token] + 1 /\ n <= now
                                    => n <= issued[rows'[d].token] + 1
           /\ callback[c].done \in {0, 2} => now <= issued[rows'[d].token] + 1
           /\ issued[rows'[d].token] >= now - 2
<1> DEFINE h == callback[c]
           r == rows[d]
<1>1. /\ h \in Handler /\ h.done \in 0..3 /\ r \in Row
      /\ rows \in [Databases -> Row] /\ now \in Nat
    BY Parts DEF Handler
<1>2. /\ h.token \in Tokens /\ issued[h.token] >= now - 1
      /\ h.at \in issued[h.token]..now /\ h.exp = NextStart(h.at, Closing)
    BY DEF SessionInv, CallbackInv
<1>3. \A n \in Tokens : issued[n] \in Nat /\ issued[n] <= now /\ n # 0
    BY Parts DEF NoToken
<1>4. h.token \in 0..MaxLogins /\ h.exp \in Times /\ h.at \in Times /\ h.exp <= now + SlotsADay
    <2>1. h.at \in 0..now
        BY <1>1, <1>2 DEF Handler, Times
    <2> QED
        BY <1>1, <1>2, <2>1, ExpiryInTimes DEF Handler
<1>5. r.exp <= now + SlotsADay
    BY DEF SessionInv, TypeOK
<1>6. CASE h.done \in {0, 2}
    <2>1. rows'[d] = [r EXCEPT !.token = h.token]
        BY <1>1, <1>6, WriteIs DEF WriteDone
    <2>2. rows'[d] \in Row /\ rows'[d].token = h.token /\ rows'[d].exp = r.exp /\ rows'[d].at = r.at
        BY <1>1, <1>4, <2>1 DEF Row
    <2>3. now <= issued[h.token] + 1 /\ issued[h.token] \in Nat
        BY <1>1, <1>2, <1>3
    <2>4. r.at <= now /\ r.at \in Nat
        BY <1>1 DEF SessionInv, RowInv, Row, Times
    <2>5. r.exp # 0 => r.exp = NextStart(r.at, Closing)
        BY DEF SessionInv, RowInv
    <2>6. issued[h.token] >= now - 2 /\ r.at <= issued[h.token] + 1
        BY <1>1, <2>3, <2>4
    <2>7. \A n \in Nat : n <= now => n <= issued[h.token] + 1
        BY <1>1, <2>3
    <2> QED
        BY <1>2, <1>5, <2>2, <2>3, <2>4, <2>5, <2>6, <2>7
<1>7. CASE h.done \in {1, 3}
    <2>0. Writes[h.done + 1].db = d /\ Writes[h.done + 1].key # "token"
        BY <1>1, <1>7, WriteIs
    <2>1. rows'[d] = [r EXCEPT !.exp = h.exp, !.at = h.at]
        BY <1>1, <2>0 DEF WriteDone
    <2>2. /\ rows'[d] \in Row /\ rows'[d].token = r.token
          /\ rows'[d].exp = h.exp /\ rows'[d].at = h.at
        BY <1>1, <1>4, <2>1 DEF Row
    <2>3. Between(c, d)
        BY <1>7, WriteIs DEF Between
    <2>4. r.token \in Tokens /\ h.at <= issued[r.token] + 1
        BY <2>3 DEF SessionInv, BetweenInv
    <2>5. h.at \in Nat /\ h.at + 5 >= h.exp /\ h.exp \in Nat
        <3>1. h.at \in Nat
            BY <1>4 DEF Times
        <3>2. NextStart(h.at, Closing) \in (h.at + 1)..(h.at + 5)
            BY <3>1, ClosingAndEvening
        <3> QED
            BY <1>2, <3>1, <3>2
    <2>6. h.at >= now - 1
        BY <1>1, <1>2, <1>3
    <2>7. issued[r.token] >= now - 2
        BY <1>1, <1>3, <2>4, <2>5, <2>6
    <2>8. h.done \notin {0, 2}
        BY <1>7
    <2> HIDE DEF h, r
    <2>9. /\ rows'[d] \in Row
          /\ rows'[d].exp <= now + SlotsADay
          /\ rows'[d].token \in Tokens
        BY <1>4, <2>2, <2>4
    <2>10. /\ rows'[d].at <= now
           /\ rows'[d].at <= issued[rows'[d].token] + 1
           /\ rows'[d].exp = NextStart(rows'[d].at, Closing)
        <3>1. h.at <= now
            BY <1>1, <1>2, <1>3
        <3> QED
            BY <1>2, <2>2, <2>4, <3>1
    <2>11. rows'[d].token = rows[d].token /\ issued[rows'[d].token] >= now - 2
        BY <2>2, <2>7 DEF r
    <2>12. callback[c].done \notin {0, 2}
        BY <2>8 DEF h
    <2> QED
        BY <2>9, <2>10, <2>11, <2>12
<1>8. h.done \in {0, 2} \/ h.done \in {1, 3}
    BY <1>1
<1> QED
    BY <1>6, <1>7, <1>8

LEMMA UpsertStep ==
    ASSUME SessionInv, NEW c \in Callbacks, Upsert(c)
    PROVE  SessionInv'
<1>1. /\ callback[c].done < 4 /\ callback[c].exp # 0
      /\ UNCHANGED <<now, issued, file, engine, reading, messages, prompt, heartbeat>>
    BY DEF Upsert, messages
<1>2. CASE Fault /\ callback' = [callback EXCEPT ![c] = Idle] /\ UNCHANGED rows
    BY <1>1, <1>2, EndedRequest
<1>3. CASE WriteDone(c) /\ UNCHANGED faults
    <2> DEFINE h == callback[c]
               d == Writes[h.done + 1].db
    <2>1. h \in Handler /\ h.done \in 0..3 /\ callback \in [Callbacks -> Handler] /\ now \in Nat
        BY <1>1, Parts DEF Handler
    <2>2. d \in Databases
        BY <2>1, WriteIs DEF Databases
    <2>3. \A x \in Databases \ {d} : rows'[x] = rows[x]
        BY <1>3, Parts DEF WriteDone
    <2>4. /\ rows'[d] \in Row
          /\ rows'[d].exp <= now + SlotsADay
          /\ rows'[d].token \in Tokens
          /\ rows'[d].at <= now
          /\ rows'[d].at <= issued[rows'[d].token] + 1
          /\ rows'[d].exp # 0 => rows'[d].exp = NextStart(rows'[d].at, Closing)
        BY <1>1, <1>3, <2>2, WriteKeeps
    <2>5. /\ \A n \in Nat : n <= issued[rows[d].token] + 1 /\ n <= now
                                   => n <= issued[rows'[d].token] + 1
          /\ h.done \in {0, 2} => now <= issued[rows'[d].token] + 1
          /\ issued[rows'[d].token] >= now - 2
        BY <1>1, <1>3, <2>2, WriteKeeps
    <2>6. /\ DOMAIN rows' = Databases
          /\ rows' = [x \in Databases |-> rows'[x]]
        BY <1>3, Parts DEF WriteDone
    <2>7. /\ callback'[c] = IF h.done = 3 THEN Idle ELSE [h EXCEPT !.done = @ + 1]
          /\ \A e \in Callbacks \ {c} : callback'[e] = callback[e]
          /\ callback' \in [Callbacks -> Handler]
        <3>1. (IF h.done = 3 THEN Idle ELSE [h EXCEPT !.done = @ + 1]) \in Handler
            BY <2>1, BoundsNat DEF Idle, Handler, Times, NoToken, SlotsADay
        <3> QED
            BY <1>3, <2>1, <3>1 DEF WriteDone
    <2>8. /\ Tokens' = Tokens /\ issued' = issued /\ now' = now
        BY <1>1 DEF Tokens
    <2> HIDE DEF d
    <2>9. rows' \in [Databases -> Row] /\ \A x \in Databases : rows'[x].exp <= now' + SlotsADay
        BY <2>3, <2>4, <2>6, <2>8, Parts DEF SessionInv, TypeOK
    <2>10. TypeOK'
        BY <1>1, <1>3, <2>7, <2>9 DEF SessionInv, TypeOK
    <2>11. IssuedInv'
        BY <1>1 DEF SessionInv, IssuedInv, Tokens
    <2>12. CallbackInv'
        <3>1. callback'[c].done < 4 =>
                /\ callback'[c].token = h.token
                /\ callback'[c].exp = h.exp
                /\ callback'[c].at = h.at
            BY <2>1, <2>7 DEF Idle, Handler
        <3>2. /\ h.token \in Tokens
              /\ issued[h.token] >= now - 1
              /\ h.at \in issued[h.token]..now /\ h.exp = NextStart(h.at, Closing)
            BY <1>1 DEF SessionInv, CallbackInv
        <3>3. \A e \in Callbacks \ {c} : callback'[e].done < 4 =>
                /\ callback'[e].token \in Tokens
                /\ issued[callback'[e].token] >= now - 1
                /\ callback'[e].exp = 0 => callback'[e].done = 0
                /\ callback'[e].exp # 0 =>
                       /\ callback'[e].at \in issued[callback'[e].token]..now
                       /\ callback'[e].exp = NextStart(callback'[e].at, Closing)
            BY <2>7 DEF SessionInv, CallbackInv
        <3>4. callback'[c].done < 4 =>
                /\ callback'[c].token \in Tokens
                /\ issued[callback'[c].token] >= now - 1
                /\ callback'[c].exp # 0
                /\ callback'[c].at \in issued[callback'[c].token]..now
                /\ callback'[c].exp = NextStart(callback'[c].at, Closing)
            BY <1>1, <3>1, <3>2
        <3> QED
            BY <2>8, <3>3, <3>4 DEF CallbackInv, NextStart
    <2>13. RowInv'
        BY <2>3, <2>4, <2>8 DEF SessionInv, RowInv, NextStart
    <2>14. BetweenInv'
        <3> SUFFICES ASSUME NEW e \in Callbacks, NEW x \in Databases, Between(e, x)'
                     PROVE  /\ rows'[x].token \in Tokens
                            /\ callback'[e].at <= issued[rows'[x].token] + 1
            BY <2>8 DEF BetweenInv
        <3>1. callback'[e].at <= now /\ callback'[e].at \in Nat
            <4>1. callback'[e] \in Handler /\ callback'[e].done < 4 /\ callback'[e].done # 0
                BY <2>7 DEF Between
            <4> QED
                BY <2>8, <2>12, <4>1 DEF CallbackInv, Handler, Times
        <3>2. CASE e # c
            <4>1. Between(e, x) /\ callback'[e] = callback[e]
                BY <2>7, <3>2 DEF Between
            <4>2. rows[x].token \in Tokens /\ callback[e].at <= issued[rows[x].token] + 1
                BY <4>1 DEF SessionInv, BetweenInv
            <4> QED
                BY <2>3, <2>4, <2>5, <3>1, <4>1, <4>2
        <3>3. CASE e = c
            <4>1. h.done \in {0, 2} /\ x = d
                BY <2>1, <2>7, <3>3, WriteIs DEF Between, Idle, Databases, d, Handler
            <4>2. now <= issued[rows'[d].token] + 1 /\ issued[rows'[d].token] \in Nat
                BY <2>4, <2>5, <4>1, Parts
            <4> QED
                BY <2>1, <2>4, <3>1, <4>1, <4>2
        <3> QED
            BY <3>2, <3>3
    <2>15. FileInv'
        BY <1>1, <2>8 DEF SessionInv, FileInv
    <2>16. Slot' = Slot /\ MarketOpen' = MarketOpen
        BY <1>1 DEF Slot, MarketOpen, Day
    <2>17. RoutineInv'
        BY <1>1, <2>16 DEF SessionInv, RoutineInv
    <2>18. QuietInv'
        <3> SUFFICES ASSUME Quiet, Slot \in {Morning, Trading, Closing}
                     PROVE  SessionLives'
            BY <1>1, <2>16 DEF QuietInv, Quiet
        <3>1. CASE d = "live"
            <4> DEFINE t == rows'["live"].token
            <4>1. t \in Tokens /\ issued[t] \in Nat /\ issued[t] <= now /\ now <= issued[t] + 2
                BY <2>1, <2>4, <2>5, <3>1, Parts
            <4>2. now % 5 \in {1, 2, 3}
                BY DEF Slot, SlotsADay, Morning, Trading, Closing
            <4>3. now < NextStart(issued[t], Evening)
                BY <2>1, <4>1, <4>2, FreshLives
            <4> QED
                BY <2>8, <4>1, <4>3 DEF SessionLives, Alive, NextStart
        <3>2. CASE d # "live"
            <4>1. rows'["live"] = rows["live"]
                BY <2>3, <3>2 DEF Databases
            <4>2. SessionLives
                BY DEF SessionInv, QuietInv
            <4> QED
                BY <2>8, <4>1, <4>2 DEF SessionLives, Alive, OfLateLogin, Late, NextStart
        <3> QED
            BY <3>1, <3>2
    <2> QED
        BY <2>10, <2>11, <2>12, <2>13, <2>14, <2>15, <2>17, <2>18 DEF SessionInv
<1> QED
    BY <1>2, <1>3 DEF Upsert, WriteDone

LEMMA SessionStep == SessionInv /\ [Next]_vars => SessionInv'
<1> SUFFICES ASSUME SessionInv, [Next]_vars PROVE SessionInv'
    OBVIOUS
<1>1. CASE Tock
    BY <1>1, TockStep
<1>2. CASE MorningPrompt \/ Heartbeat
    BY <1>2, RoutineStep
<1>3. ASSUME NEW c \in Callbacks, Login(c) PROVE SessionInv'
    BY <1>3, LoginStep
<1>4. ASSUME NEW c \in Callbacks, SetExpiry(c) PROVE SessionInv'
    BY <1>4, SetExpiryStep
<1>5. ASSUME NEW c \in Callbacks, Upsert(c) PROVE SessionInv'
    BY <1>5, UpsertStep
<1>6. CASE ConsoleLogin
    BY <1>6, ConsoleStep
<1>7. CASE ReadToken \/ Tick \/ Restart \/ UNCHANGED vars
    BY <1>7, TickStep
<1> QED
    BY <1>1, <1>2, <1>3, <1>4, <1>5, <1>6, <1>7 DEF Next

---------------------------------------------------------------------------
(* The theorems *)

\* Whatever the logins, the overlapping requests and their failures: every variable
\* keeps its type, and no stored expiry is more than a day ahead.
THEOREM TypeInvariant == Spec => []TypeOK
<1>1. SessionInv => TypeOK
    BY DEF SessionInv
<1> QED
    BY <1>1, SessionInit, SessionStep, PTL DEF Spec

\* A session the programs take for active is one Kite accepts, late logins aside.
THEOREM SessionsLive == Spec => []ActiveMeansAlive
BY SessionInit, SessionStep, SessionImplies, PTL DEF Spec

\* A trading day without a session has its prompt, or, when that could not be sent, the
\* heartbeat's alert before the market's last five minutes, the days on which the
\* heartbeat fails as well and late logins aside.
THEOREM DaysNotSilent == Spec => []NoSilentDay
BY SessionInit, SessionStep, QuietImplies, PTL DEF Spec

\* The monitor's token is one Kite accepts, from the database or from the file, late
\* logins and the tick overtaken by a login aside.
THEOREM TicksAuthenticated == Spec => []MonitorsWithLiveToken
BY SessionInit, SessionStep, TickImplies, PTL DEF Spec

=============================================================================
