------------------------------ MODULE DepthStream ------------------------------
(* WeexPublicOrderBookStream of src/src/weex_cli/live_websocket: the order book *)
(* of one symbol, kept from pushes that each carry a range of update ids and    *)
(* from REST snapshots, by one thread that reconnects.                          *)
(*                                                                              *)
(* The exchange's book after update v is ExchangeBook(v): a level shows the     *)
(* update that last set it, 0 when it is empty.  Fewer levels are modelled than *)
(* a snapshot has (15), so a book is never cut.                                 *)
EXTENDS Integers, Sequences, FiniteSetsExt

CONSTANTS Levels,        \* prices
          MaxUpdates,    \* bound: updates of the exchange's book
          BookMaxAge     \* max_age_seconds, in ticks

ASSUME DepthAssumption == MaxUpdates \in Nat /\ BookMaxAge \in Nat

VARIABLES updates,       \* the exchange: what each update did, [level, empty]
          inbox,         \* pushes on their way, [first, last]
          pushed,        \* the last update that was pushed
          book,          \* _books: levels and update id, NoBook before the first
          bookAge,       \* ticks since received_at
          connected,     \* _connected
          reader,        \* the thread's step
          inHand,        \* the push it handles
          closing        \* close() was called: "no", "asked", "done"

depthVars == <<updates, inbox, pushed, book, bookAge, connected, reader, inHand, closing>>

NoId == -1
NoBook == [id |-> NoId, qty |-> [l \in Levels |-> 0]]
NoPush == [first |-> 0, last |-> 0]

\* What the exchange shows at a level after its first v updates.
At(v, l) ==
    LET of == {i \in 1..v : updates[i].level = l}
    IN IF of = {} \/ updates[Max(of)].empty THEN 0 ELSE Max(of)
ExchangeBook(v) == [id |-> v, qty |-> [l \in Levels |-> At(v, l)]]
ChangedIn(push) == {updates[i].level : i \in push.first..push.last}

----------------------------------------------------------------------------
(* The exchange and the connection.                                           *)

Update ==
    /\ Len(updates) < MaxUpdates
    /\ \E l \in Levels, empty \in BOOLEAN :
         updates' = Append(updates, [level |-> l, empty |-> empty])
    /\ UNCHANGED <<inbox, pushed, book, bookAge, connected, reader, inHand, closing>>

\* One push carries what changed since the last one, or is lost.
Push ==
    /\ reader \notin {"wait", "ended"} /\ pushed < Len(updates)
    /\ \/ inbox' = Append(inbox, [first |-> pushed + 1, last |-> Len(updates)])
       \/ UNCHANGED inbox
    /\ pushed' = Len(updates)
    /\ UNCHANGED <<updates, book, bookAge, connected, reader, inHand, closing>>

DepthTick ==
    /\ bookAge' = IF bookAge > BookMaxAge THEN bookAge ELSE bookAge + 1
    /\ UNCHANGED <<updates, inbox, pushed, book, connected, reader, inHand, closing>>

----------------------------------------------------------------------------
(* The thread.                                                                *)

ReaderAt(step) == reader' = step
\* Mutant: what was known before the connection broke is kept.
Keep == connected' = FALSE /\ UNCHANGED book
Forget == book' = NoBook /\ connected' = FALSE

\* _run: a connection, its subscription, and then one message after the other.
\* _stop.wait ends at once when the stream is closed.
Connect ==
    /\ reader = "wait"
    /\ IF closing # "no" THEN ReaderAt("ended") /\ UNCHANGED <<inbox, pushed, connected>>
       ELSE \/ /\ connected' = TRUE /\ ReaderAt("receive")
               /\ inbox' = <<>> /\ pushed' = Len(updates)
            \/ UNCHANGED <<inbox, pushed, connected, reader>>       \* it raised
    /\ UNCHANGED <<updates, book, bookAge, inHand, closing>>

\* _mark_disconnected, whatever ended the connection
Disconnect ==
    /\ Forget /\ ReaderAt("wait") /\ inbox' = <<>> /\ inHand' = NoPush
    /\ UNCHANGED <<updates, pushed, bookAge, closing>>
Breaks == reader = "receive" /\ Disconnect

\* handle_message up to its first branch; acknowledgements and pings change
\* nothing that is modelled
Receive ==
    /\ reader = "receive" /\ closing = "no" /\ inbox # <<>>
    /\ inHand' = Head(inbox) /\ inbox' = Tail(inbox)
    /\ ReaderAt(IF book.id = NoId THEN "bootstrap" ELSE "compare")
    /\ UNCHANGED <<updates, pushed, book, bookAge, connected, closing>>

\* _bootstrap: a REST snapshot, which may be an older one; or it raises
Bootstrap ==
    /\ reader \in {"bootstrap", "bootstrap again"}
    /\ \/ /\ \E v \in 0..Len(updates) : book' = ExchangeBook(v)
          /\ bookAge' = 0
          /\ ReaderAt(IF reader = "bootstrap" THEN "compare" ELSE "compare again")
          /\ UNCHANGED <<updates, inbox, pushed, connected, inHand, closing>>
       \/ Disconnect

\* Mutant: a push that starts after a gap is applied all the same.
FollowsLoosely(push) == book.id + 1 <= push.last
Follows(push) == push.first <= book.id + 1 /\ book.id + 1 <= push.last

Applied(push) ==
    [id |-> push.last,
     qty |-> [l \in Levels |->
                IF l \in ChangedIn(push) THEN At(push.last, l) ELSE book.qty[l]]]

Compare ==
    /\ reader \in {"compare", "compare again"}
    /\ \/ /\ inHand.last <= book.id                     \* nothing new
          /\ ReaderAt("receive") /\ UNCHANGED <<inbox, book, bookAge, connected, inHand>>
       \/ /\ inHand.last > book.id /\ Follows(inHand)
          /\ book' = Applied(inHand) /\ bookAge' = 0
          /\ ReaderAt("receive") /\ UNCHANGED <<inbox, connected, inHand>>
       \/ /\ inHand.last > book.id /\ ~Follows(inHand) /\ reader = "compare"
          /\ ReaderAt("bootstrap again")
          /\ UNCHANGED <<inbox, book, bookAge, connected, inHand>>
       \/ /\ inHand.last > book.id /\ ~Follows(inHand) /\ reader = "compare again"
          /\ Forget /\ ReaderAt("wait") /\ inbox' = <<>> /\ inHand' = NoPush   \* sequence gap
          /\ UNCHANGED bookAge
    /\ UNCHANGED <<updates, pushed, closing>>

\* The loop sees the stop between two messages.
LeaveLoop == reader = "receive" /\ closing # "no" /\ Disconnect

----------------------------------------------------------------------------
(* close(): waits three seconds for the thread and then forgets, whether the  *)
(* thread has ended or is still in a request.                                 *)

AskToClose ==
    /\ closing = "no" /\ closing' = "asked"
    /\ UNCHANGED <<updates, inbox, pushed, book, bookAge, connected, reader, inHand>>

CloseStream ==
    /\ closing = "asked" /\ closing' = "done" /\ Forget
    /\ UNCHANGED <<updates, inbox, pushed, bookAge, reader, inHand>>

DepthInit ==
    /\ updates = <<>> /\ inbox = <<>> /\ pushed = 0
    /\ book = NoBook /\ bookAge = 0 /\ connected = FALSE
    /\ reader = "wait" /\ inHand = NoPush /\ closing = "no"

DepthNext ==
    \/ Update \/ Push \/ DepthTick \/ Connect \/ Breaks \/ Receive \/ Bootstrap
    \/ Compare \/ LeaveLoop \/ AskToClose \/ CloseStream

DepthSpec == DepthInit /\ [][DepthNext]_depthVars

----------------------------------------------------------------------------
(* Properties.                                                                *)

DepthTypeOK ==
    /\ updates \in Seq([level : Levels, empty : BOOLEAN]) /\ pushed \in 0..MaxUpdates
    /\ book.id \in {NoId} \union 0..MaxUpdates /\ bookAge \in 0..BookMaxAge + 1
    /\ connected \in BOOLEAN /\ closing \in {"no", "asked", "done"}
    /\ reader \in {"wait", "receive", "bootstrap", "compare", "bootstrap again",
                   "compare again", "ended"}

\* order_book answers.
Served == connected /\ book.id # NoId /\ bookAge <= BookMaxAge

\* A book that is served is one the exchange had, at the update it names,
\* however pushes and snapshots overlapped, were lost or came late.
BookIsTrue == Served => book = ExchangeBook(book.id)

\* Nothing is served any more once the stream was closed, although the thread
\* may still be in a request.
ClosedServesNothing == closing = "done" => ~Served
=============================================================================
