------------------------------- MODULE MarketHub -------------------------------
(* PublicMarketSnapshotService of the control center's execution resources: one *)
(* observer thread copies the books of the shared depth stream, or asks REST    *)
(* while the stream is down, and every actor reads the copies.                  *)
(*                                                                              *)
(* A book is how long ago the exchange had it, in ticks; a copy carries the     *)
(* time since it was made as well.  DepthStream has the stream.                 *)
EXTENDS Integers

CONSTANTS StreamAge,        \* max_age_seconds of the stream
          CopyAge,          \* how old a fresh copy may be: _snapshot_is_fresh
          RequestTicks,     \* request_timeout_ms
          RestInterval      \* _REST_FALLBACK_INTERVAL_SECONDS

ASSUME HubAssumption ==
    StreamAge \in Nat /\ CopyAge \in Nat /\ RequestTicks \in Nat /\ RestInterval \in Nat

VARIABLES streamed,         \* per symbol: age of the stream's book, past StreamAge: it raises
          linked,           \* stream.connected
          copies,           \* _books: [age, since, from]
          labelled,         \* _connected: what the books are said to come from
          observer,         \* the thread's step
          fetched,          \* age of the BTC book a REST round has, while it asks for ETH
          spent,            \* ticks of the request under way
          sinceRest,        \* ticks since last_rest_fallback_at
          closed            \* close() was called

hubVars == <<streamed, linked, copies, labelled, observer, fetched, spent, sinceRest, closed>>

Pairs == {"BTC", "ETH"}
Asking == observer \in {"fetch BTC", "fetch ETH"}

\* A copy too old to be served is not told apart from none.
FreshCopy(s) == copies[s].since <= CopyAge
NoCopy == [age |-> 0, since |-> CopyAge + 1, from |-> "none"]
Fresh == \A s \in Pairs : FreshCopy(s)
CopyOf(age, from) == [age |-> age, since |-> 0, from |-> from]

----------------------------------------------------------------------------
(* Time and the stream.                                                       *)

HubTick ==
    /\ Asking => spent < RequestTicks
    /\ streamed' = [s \in Pairs |-> IF streamed[s] > StreamAge THEN streamed[s] ELSE streamed[s] + 1]
    /\ copies' = [s \in Pairs |->
                    IF copies[s].since >= CopyAge THEN NoCopy
                    ELSE [copies[s] EXCEPT !.age = @ + 1, !.since = @ + 1]]
    /\ fetched' = IF observer = "fetch ETH" THEN fetched + 1 ELSE fetched
    /\ spent' = IF Asking THEN spent + 1 ELSE spent
    /\ sinceRest' = IF sinceRest < RestInterval THEN sinceRest + 1 ELSE sinceRest
    /\ UNCHANGED <<linked, labelled, observer, closed>>

StreamMoves ==
    /\ ~closed
    /\ \/ linked /\ UNCHANGED linked /\ \E s \in Pairs : streamed' = [streamed EXCEPT ![s] = 0]
       \/ linked' = ~linked /\ streamed' = [s \in Pairs |-> StreamAge + 1]
    /\ UNCHANGED <<copies, labelled, observer, fetched, spent, sinceRest, closed>>

----------------------------------------------------------------------------
(* The observer.                                                              *)

ObserverAt(step) == observer' = step /\ spent' = 0

\* _observe: what the stream is now decides where this round reads
Observes ==
    /\ observer = "wait"
    /\ IF closed THEN ObserverAt("ended") /\ UNCHANGED <<labelled, sinceRest>>
       ELSE /\ labelled' = linked
            /\ IF linked THEN ObserverAt("read BTC") /\ UNCHANGED sinceRest
               ELSE /\ sinceRest = RestInterval
                    /\ ObserverAt("fetch BTC") /\ sinceRest' = 0
    /\ UNCHANGED <<streamed, linked, copies, fetched, closed>>

\* Mutant: a copy is made of whatever the stream last had.
AnyBook(s) == linked /\ ~closed
StreamServes(s) == linked /\ ~closed /\ streamed[s] <= StreamAge

\* stream.order_book, one symbol after the other; a book that is not served
\* leaves the copy there is
ReadStream(s) ==
    /\ observer = (IF s = "BTC" THEN "read BTC" ELSE "read ETH")
    /\ copies' = IF StreamServes(s)
                 THEN [copies EXCEPT ![s] = CopyOf(streamed[s], "stream")]
                 ELSE copies
    /\ ObserverAt(IF s = "BTC" THEN "read ETH" ELSE "wait")
    /\ UNCHANGED <<streamed, linked, labelled, fetched, sinceRest, closed>>

\* _refresh_rest_fallback: two requests, and both books or none.  A request is
\* answered with the book of any moment it took.
FetchFirst ==
    /\ observer = "fetch BTC"
    /\ ObserverAt("fetch ETH") /\ fetched' \in 0..spent
    /\ UNCHANGED <<streamed, linked, copies, labelled, sinceRest, closed>>

FetchSecond ==
    /\ observer = "fetch ETH"
    /\ \E age \in 0..spent :
         copies' = [s \in Pairs |-> CopyOf(IF s = "BTC" THEN fetched ELSE age, "rest")]
    /\ ObserverAt("wait") /\ fetched' = 0
    /\ UNCHANGED <<streamed, linked, labelled, sinceRest, closed>>

\* it raised, or a book has no spread
FetchFails ==
    /\ Asking /\ ObserverAt("wait") /\ fetched' = 0
    /\ UNCHANGED <<streamed, linked, copies, labelled, sinceRest, closed>>

\* close: nothing is kept, but a round under way may still write its books
CloseHub ==
    /\ ~closed /\ closed' = TRUE
    /\ copies' = [s \in Pairs |-> NoCopy] /\ labelled' = FALSE
    /\ linked' = FALSE /\ streamed' = [s \in Pairs |-> StreamAge + 1]
    /\ UNCHANGED <<observer, fetched, spent, sinceRest>>

HubInit ==
    /\ streamed = [s \in Pairs |-> StreamAge + 1] /\ linked = FALSE
    /\ copies = [s \in Pairs |-> NoCopy] /\ labelled = FALSE
    /\ observer = "wait" /\ fetched = 0 /\ spent = 0
    /\ sinceRest = RestInterval /\ closed = FALSE

HubNext ==
    \/ HubTick \/ StreamMoves \/ Observes \/ FetchFirst \/ FetchSecond \/ FetchFails \/ CloseHub
    \/ \E s \in Pairs : ReadStream(s)

HubSpec == HubInit /\ [][HubNext]_hubVars

----------------------------------------------------------------------------
(* Properties.                                                                *)

HubTypeOK ==
    /\ streamed \in [Pairs -> 0..StreamAge + 1] /\ linked \in BOOLEAN /\ labelled \in BOOLEAN
    /\ \A s \in Pairs : /\ copies[s].age \in Nat /\ copies[s].since \in 0..CopyAge + 1
                        /\ copies[s].from \in {"none", "stream", "rest"}
    /\ observer \in {"wait", "read BTC", "read ETH", "fetch BTC", "fetch ETH", "ended"}
    /\ spent \in 0..RequestTicks /\ sinceRest \in 0..RestInterval

\* What an actor is given was copied at most CopyAge ago, and the copy may be
\* of a book the stream had kept, or one that REST took its time for: the ages
\* add up, and to no more than this.
ServedIsRecent ==
    Fresh => \A s \in Pairs :
        /\ copies[s].from = "stream" => copies[s].age <= StreamAge + CopyAge
        /\ copies[s].from = "rest" => copies[s].age <= 2 * RequestTicks + CopyAge
=============================================================================
