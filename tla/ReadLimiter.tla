---------------------------- MODULE ReadLimiter ----------------------------
(***************************************************************************)
(* The budget every call of the Aptos wallet to the public fullnode and    *)
(* indexer shares: MainnetReadLimiter of                                   *)
(* src/aptos-wallet/server/aptos-gateway.ts, and the callers that queue    *)
(* there, try again after a failure, and wait for a transaction.  One      *)
(* pump starts the queued calls; it sleeps when none may start yet, and    *)
(* ends when nothing is queued or enough calls are under way.  Time is     *)
(* counted in ticks; a timer may ring late.                                *)
(***************************************************************************)
EXTENDS Naturals, Sequences, FiniteSets, SequencesExt

CONSTANTS
    Readers,            \* callers; each has one call at a time
    Asks,               \* bound: the kinds of calls a caller makes
    MaxConcurrency,     \* MAINNET_READ_MAX_CONCURRENCY
    MinInterval,        \* MAINNET_READ_MIN_INTERVAL_MS
    Window,             \* MAINNET_READ_WINDOW_MS
    WindowLimit,        \* MAINNET_READ_WINDOW_LIMIT
    RateLimitCooldown,  \* MAINNET_RATE_LIMIT_COOLDOWN_MS
    MaxCooldown,        \* the longest cooldown the process chooses itself
    ReadAttempts,       \* maxAttempts of retryRead
    Looks,              \* how often a submitted transaction is looked for
    MaxAsks             \* bound: calls of one reader

ASSUME ReadLimiterAssumption ==
    /\ {MaxConcurrency, MinInterval, Window, WindowLimit, RateLimitCooldown, MaxCooldown,
        ReadAttempts, Looks, MaxAsks} \subseteq Nat \ {0}
    /\ IsFiniteSet(Readers)
    /\ Asks \in [Readers -> SUBSET {"normal", "urgent", "submit", "await", "history"}]

VARIABLES
    reader,     \* per caller: where it is, what it asks and how often it tried
    readQueue,  \* queue
    startAges,  \* starts: the age of every start of the window, oldest first
    lastStart,  \* age of lastStartAt, up to MinInterval
    limitAges,  \* rateLimitEvents, by age
    cooldown,   \* time left until cooldownUntil
    pumping,    \* the pump sleeps
    nap         \* what is left of its sleep

limiterVars == <<reader, readQueue, startAges, lastStart, limitAges, cooldown, pumping, nap>>

(***************************************************************************)
(* What a caller asks: a balance or an account (normal), what a preview or *)
(* an execution needs (urgent), a submission, a submitted transaction      *)
(* until it is final, and a page of the indexer's history.                 *)
(***************************************************************************)
CallKinds == {"normal", "urgent", "submit", "await", "history"}
High == {"urgent", "submit", "await"}
AttemptsFor(kind) == IF kind \in {"submit", "history"} THEN 1 ELSE ReadAttempts

AtRest == [at |-> "idle", kind |-> "normal", attempt |-> 0, looks |-> 0, pause |-> 0, asks |-> 0]
Underway(r) == {c \in Readers : r[c].at = "active"}

LimiterTypeOK ==
    /\ reader \in [Readers ->
         [at : {"idle", "queued", "active", "backoff"}, kind : CallKinds, attempt : 0..ReadAttempts,
          looks : 0..Looks, pause : Nat, asks : 0..MaxAsks]]
    /\ readQueue \in Seq(Readers)
    /\ startAges \in Seq(0..Window) /\ limitAges \in Seq(0..Window)
    /\ lastStart \in 0..MinInterval /\ cooldown \in Nat /\ nap \in Nat /\ pumping \in BOOLEAN

\* how many entries at the front have left the window
Past(ages) == CHOOSE n \in 0..Len(ages) :
    /\ \A i \in 1..n : ages[i] >= Window
    /\ n < Len(ages) => ages[n + 1] < Window
Kept(ages) == SubSeq(ages, Past(ages) + 1, Len(ages))
Smaller(a, b) == IF a < b THEN a ELSE b
Larger(a, b) == IF a < b THEN b ELSE a

(***************************************************************************)
(* pump                                                                    *)
(***************************************************************************)
\* nextDelay
\* Mutant: a start too many fits into the window.
NextDelayLate(cool, ages, last) ==
    IF cool > 0 THEN cool
    ELSE IF Len(ages) > WindowLimit THEN Window - ages[1] ELSE MinInterval - last
NextDelay(cool, ages, last) ==
    IF cool > 0 THEN cool
    ELSE IF Len(ages) >= WindowLimit THEN Window - ages[1] ELSE MinInterval - last

\* The pump runs, with queue q and callers r, while cool is left of the
\* cooldown: it starts a call, sleeps, or ends.  After a start it can only
\* sleep or end, for the next call has to wait at least MinInterval.
Pump(q, r, cool) ==
    LET ages == Kept(startAges)
        Idle(qs, rs) == qs = <<>> \/ Cardinality(Underway(rs)) >= MaxConcurrency
        Sleeps(qs, rs, delay) ==
            /\ pumping' = ~Idle(qs, rs)
            /\ nap' = IF Idle(qs, rs) THEN 0 ELSE delay
        now == NextDelay(cool, ages, lastStart)
    IN
    IF Idle(q, r) \/ now > 0
    THEN /\ readQueue' = q /\ reader' = r /\ startAges' = ages
         /\ UNCHANGED lastStart
         /\ Sleeps(q, r, now)
    ELSE LET started == [r EXCEPT ![Head(q)].at = "active"] IN
         /\ readQueue' = Tail(q) /\ reader' = started
         /\ startAges' = Append(ages, 0) /\ lastStart' = 0
         /\ Sleeps(Tail(q), started, NextDelay(cool, Append(ages, 0), 0))

\* What happens with the pump when it is called: a second one does not begin.
\* Mutant: the call that ends does not wake it.
Forgotten(q, r, cool) ==
    /\ readQueue' = q /\ reader' = r /\ UNCHANGED <<startAges, lastStart, pumping, nap>>
CallPump(q, r, cool) ==
    IF pumping
    THEN readQueue' = q /\ reader' = r /\ UNCHANGED <<startAges, lastStart, pumping, nap>>
    ELSE Pump(q, r, cool)

(***************************************************************************)
(* The callers                                                             *)
(***************************************************************************)
\* run: an urgent call goes before the first normal one
FirstNormal(q, r) == CHOOSE n \in 1..Len(q) + 1 :
    /\ \A i \in 1..n - 1 : r[q[i]].kind \in High
    /\ n <= Len(q) => r[q[n]].kind \notin High
Enqueued(c, r) ==
    IF r[c].kind \in High THEN InsertAt(readQueue, FirstNormal(readQueue, r), c)
    ELSE Append(readQueue, c)

Queue(c, caller) ==
    LET r == [reader EXCEPT ![c] = caller] IN
    /\ CallPump(Enqueued(c, r), r, cooldown)
    /\ UNCHANGED <<limitAges, cooldown>>

AskFor(c, kind) ==
    /\ reader[c].at = "idle" /\ reader[c].asks < MaxAsks
    /\ Queue(c, [at |-> "queued", kind |-> kind, attempt |-> 1, looks |-> 1, pause |-> 0,
                 asks |-> reader[c].asks + 1])

\* the pause of retryRead, or of the wait for a transaction, is over
AskAgain(c) ==
    /\ reader[c].at = "backoff" /\ reader[c].pause = 0
    /\ Queue(c, [reader[c] EXCEPT !.at = "queued"])

Ended(c) == [AtRest EXCEPT !.asks = reader[c].asks]
Paused(c, attempt, looks) ==
    [reader[c] EXCEPT !.at = "backoff", !.attempt = attempt, !.looks = looks, !.pause = 1]

\* noteRateLimit
Power == <<1, 2, 4, 8, 16, 32>>
NoteRateLimit ==
    LET events == Append(Kept(limitAges), 0)
        own == Smaller(MaxCooldown, RateLimitCooldown * Power[Smaller(6, Len(events))])
    IN /\ limitAges' = events
       /\ cooldown' = Larger(cooldown, own)

\* The call of c ends, and leaves c as caller says; the pump is called.
End(c, caller) ==
    CallPump(readQueue, [reader EXCEPT ![c] = caller], cooldown')

Answered(c) ==
    /\ reader[c].at = "active"
    /\ UNCHANGED <<limitAges, cooldown>>
    /\ \/ End(c, Ended(c))
       \/ /\ reader[c].kind = "await"       \* still pending, or not known yet
          /\ End(c, IF reader[c].looks = Looks THEN Ended(c)
                    ELSE Paused(c, 1, reader[c].looks + 1))

\* retryRead tries again after a rate limit and after a lost connection
Retried(c) ==
    IF reader[c].attempt < AttemptsFor(reader[c].kind)
    THEN Paused(c, reader[c].attempt + 1, reader[c].looks) ELSE Ended(c)

Failed(c) ==
    /\ reader[c].at = "active"
    /\ UNCHANGED <<limitAges, cooldown>>
    /\ End(c, Ended(c)) \/ End(c, Retried(c))

\* HTTP 429.  The history page's comes as an answer, and only its caller
\* takes it for an error: the limiter does not notice.
RateLimited(c) ==
    /\ reader[c].at = "active"
    /\ IF reader[c].kind = "history" THEN UNCHANGED <<limitAges, cooldown>> ELSE NoteRateLimit
    /\ End(c, Retried(c))

Wake ==
    /\ pumping /\ nap = 0
    /\ Pump(readQueue, reader, cooldown)
    /\ UNCHANGED <<limitAges, cooldown>>

(***************************************************************************)
(* Time, and the whole                                                     *)
(***************************************************************************)
Less(n) == IF n = 0 THEN 0 ELSE n - 1
Older(ages) == [i \in DOMAIN ages |-> Smaller(ages[i] + 1, Window)]

Tick ==
    /\ reader' = [c \in Readers |-> [reader[c] EXCEPT !.pause = Less(@)]]
    /\ startAges' = Older(startAges) /\ limitAges' = Older(limitAges)
    /\ lastStart' = Smaller(lastStart + 1, MinInterval)
    /\ cooldown' = Less(cooldown) /\ nap' = Less(nap)
    /\ UNCHANGED <<readQueue, pumping>>

LimiterInit ==
    /\ reader = [c \in Readers |-> AtRest]
    /\ readQueue = <<>> /\ startAges = <<>> /\ limitAges = <<>>
    /\ lastStart = MinInterval /\ cooldown = 0
    /\ pumping = FALSE /\ nap = 0

CallEnds(c) == Answered(c) \/ Failed(c) \/ RateLimited(c)

LimiterNext ==
    \/ \E c \in Readers : AskAgain(c) \/ CallEnds(c) \/ \E kind \in Asks[c] : AskFor(c, kind)
    \/ Wake
    \/ Tick

\* Calls return or raise (a fetch has a timeout of its own), and timers ring.
LimiterFairness ==
    /\ WF_limiterVars(Wake) /\ WF_limiterVars(Tick)
    /\ \A c \in Readers : WF_limiterVars(AskAgain(c)) /\ WF_limiterVars(CallEnds(c))

LimiterSpec == LimiterInit /\ [][LimiterNext]_limiterVars /\ LimiterFairness

(***************************************************************************)
(* Properties                                                              *)
(***************************************************************************)
\* All calls together stay inside one budget (aptos-gateway.ts:44), however
\* many callers queue, sleep and retry: at most so many under way, at most so
\* many begun in a window, none during a cooldown; and no urgent call waits
\* behind a normal one.
WithinBudget ==
    /\ Cardinality(Underway(reader)) <= MaxConcurrency
    /\ Len(Kept(startAges)) <= WindowLimit
    /\ \A i \in DOMAIN readQueue : \A k \in 1..i :
          reader[readQueue[i]].kind \in High => reader[readQueue[k]].kind \in High
    /\ \A c \in Readers : (reader[c].at = "queued") = (c \in ToSet(readQueue))

\* The pump is never lost: a queued call has a pump that will come by, or
\* calls under way that will call it.
QueueIsServed == readQueue # <<>> => pumping \/ Underway(reader) # {}

\* Every call that was queued ends.
ReadsEnd == \A c \in Readers : reader[c].at # "idle" ~> reader[c].at = "idle"
=============================================================================
