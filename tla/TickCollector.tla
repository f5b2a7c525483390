----------------------------- MODULE TickCollector -----------------------------
(* The collector of public prices in src/src/weex_cli/market: the latest price  *)
(* of each symbol from a websocket, sampled together into a table that is cut   *)
(* by age.                                                                      *)
(*                                                                              *)
(* The stream is watched by a monotonic clock, and rows are stamped by the      *)
(* clock of the wall, which may be set.  A price is the ticks since it came.    *)
EXTENDS Integers

CONSTANTS Tracked,          \* symbols
          StaleAfter,       \* stale_after_seconds
          PollInterval,     \* poll_interval_seconds
          Retention,        \* retention_seconds
          MaxWall           \* bound: the wall clock

ASSUME CollectorAssumption ==
    StaleAfter \in Nat /\ PollInterval \in Nat /\ Retention \in Nat /\ MaxWall \in Nat

VARIABLES collector,        \* "connecting", "streaming"
          latest,           \* latest_price_at: ticks since a symbol's price, Never
          sinceLink,        \* ticks since connected_at
          untilSample,      \* ticks to next_sample
          wall,             \* time.time()
          rows,             \* the table: [symbol, stamp, age] of the price when written
          turned            \* the collector has looked since the last tick

collectorVars == <<collector, latest, sinceLink, untilSample, wall, rows, turned>>

Never == StaleAfter + 1
Aged(age) == IF age < StaleAfter THEN age + 1 ELSE age

\* stale_symbols: no price for that long, counted from the connection before
\* the first
Stale == {s \in Tracked : StaleAfter <= IF latest[s] = Never THEN sinceLink ELSE latest[s]}
Complete == \A s \in Tracked : latest[s] # Never

\* Time passes; recv waits a tick at most, so the loop looks once in each.
CollectorTick ==
    /\ collector = "streaming" => turned
    /\ latest' = [s \in Tracked |-> IF latest[s] = Never THEN Never ELSE Aged(latest[s])]
    /\ sinceLink' = Aged(sinceLink) /\ turned' = FALSE
    /\ untilSample' = IF untilSample > 0 THEN untilSample - 1 ELSE 0
    /\ wall' \in {wall, IF wall < MaxWall THEN wall + 1 ELSE wall}
    /\ UNCHANGED <<collector, rows>>

\* The wall clock is set.
SetWall ==
    /\ wall' \in 0..MaxWall
    /\ UNCHANGED <<collector, latest, sinceLink, untilSample, rows, turned>>

\* reset_stream: no price of an earlier connection counts
LinkUp ==
    /\ collector = "connecting" /\ collector' = "streaming"
    /\ latest' = [s \in Tracked |-> Never]
    /\ sinceLink' = 0 /\ untilSample' = 0 /\ turned' = FALSE
    /\ UNCHANGED <<wall, rows>>

LinkDown ==
    /\ collector = "streaming" /\ collector' = "connecting"
    /\ UNCHANGED <<latest, sinceLink, untilSample, wall, rows, turned>>

\* Mutant: the silence of one symbol is no reason to connect again.
AllStale == Stale = Tracked
AnyStale == Stale # {}

\* INSERT OR IGNORE over UNIQUE(symbol, timestamp)
Taken(s, t) == \E row \in rows : row.symbol = s /\ row.stamp = t
Written == {[symbol |-> s, stamp |-> wall, age |-> latest[s]] :
              s \in {x \in Tracked : ~Taken(x, wall)}}

\* One turn of the loop: a message or none, the watch, a sample when it is due.
Turn ==
    /\ collector = "streaming"
    /\ turned' = TRUE
    /\ IF AnyStale
       THEN /\ collector' = "connecting"
            /\ UNCHANGED <<untilSample, rows>>
       ELSE /\ UNCHANGED collector
            /\ IF Complete /\ untilSample = 0
               THEN rows' = rows \union Written /\ untilSample' = PollInterval
               ELSE UNCHANGED <<rows, untilSample>>
    /\ UNCHANGED <<latest, sinceLink, wall>>

PriceComes(s) ==
    /\ collector = "streaming" /\ latest' = [latest EXCEPT ![s] = 0] /\ turned' = FALSE
    /\ UNCHANGED <<collector, sinceLink, untilSample, wall, rows>>

\* cleanup
Cleanup ==
    /\ rows' = {row \in rows : row.stamp >= wall - Retention}
    /\ UNCHANGED <<collector, latest, sinceLink, untilSample, wall, turned>>

CollectorInit ==
    /\ collector = "connecting" /\ latest = [s \in Tracked |-> Never]
    /\ sinceLink = 0 /\ untilSample = 0 /\ wall = 0 /\ rows = {} /\ turned = FALSE

CollectorNext ==
    \/ CollectorTick \/ SetWall \/ LinkUp \/ LinkDown \/ Turn \/ Cleanup
    \/ \E s \in Tracked : PriceComes(s)

CollectorSpec == CollectorInit /\ [][CollectorNext]_collectorVars

----------------------------------------------------------------------------
(* Properties.                                                                *)

CollectorTypeOK ==
    /\ collector \in {"connecting", "streaming"} /\ latest \in [Tracked -> 0..Never]
    /\ untilSample \in 0..PollInterval /\ wall \in 0..MaxWall /\ turned \in BOOLEAN

\* A sample is whole: each time in the table has a row of every symbol, also
\* when the wall clock was set back onto a time that has one.
SamplesAreWhole ==
    \A row \in rows : {other.symbol : other \in {x \in rows : x.stamp = row.stamp}} = Tracked

\* No row holds a price of an earlier connection or one the stream had been
\* silent about for too long.
SamplesAreFresh == \A row \in rows : row.age < StaleAfter
=============================================================================
