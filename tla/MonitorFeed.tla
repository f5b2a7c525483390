---------------------------- MODULE MonitorFeed ----------------------------
(***************************************************************************)
(* The execution monitor of one account, from the journal to the page.     *)
(* Every event is committed with the projection it leads to                *)
(* (append_and_project); a projection of an older release is folded anew   *)
(* at startup.  A stream tells a page what is new, in steps between which  *)
(* the account's execution may end and another begin                       *)
(* (strategy_monitor_events).  The page also asks for snapshots on its own *)
(* (useMonitorReconciliation.ts), and for older entries (LogDrawer.tsx),   *)
(* whose answers arrive whenever they do; it merges what it gets           *)
(* (mergeMonitor).                                                         *)
(***************************************************************************)
EXTENDS Naturals, FiniteSets

CONSTANTS
    Batch,          \* entries of a snapshot or a delta at most (200)
    ShownMax,       \* entries the page keeps (500)
    Executions,     \* bound: executions of the account, 1, 2, ...
    MaxLength,      \* bound: events of all executions but their last ones
    MaxCuts,        \* bound: restarts, broken connections and failed requests
    Absent

ASSUME FeedAssumption ==
    /\ {Executions, MaxLength, MaxCuts} \subseteq Nat
    /\ Batch \in 1 .. ShownMax /\ ShownMax \in Nat

VARIABLES
    current,    \* the execution the monitor shows, 0 before the first
    ended,      \* executions that are over
    length,     \* events committed in each
    projection, \* of each: the events it counts and the release that folded them
    release,    \* the version of the code that folds
    serving,    \* startup is over
    starts,     \* so many times started: the generation of the executor
    stream,     \* what the server's stream is at
    wire,       \* the message on its way to the page
    fetch,      \* the page's own request for a snapshot
    older,      \* its request for older entries
    screen,     \* what the page shows
    told,       \* the last event the page was told of, of the execution it shows
    flipped,    \* the page took an answer about another execution than the stream's
    crossed,    \* entries of one execution were given as another's
    unfolded,   \* executions that got an event at startup, over an old projection
    cuts

feedVars == <<current, ended, length, projection, release, serving, starts, stream, wire,
              fetch, older, screen, told, flipped, crossed, unfolded, cuts>>

All == 0 .. Executions

-----------------------------------------------------------------------------
(* Journal and projections                                                 *)

\* An event is counted by the projection it is committed with, which goes on from
\* the state there was, whatever release that is of, and is stamped with this one's.
Committed(e) ==
    /\ length' = [length EXCEPT ![e] = @ + 1]
    /\ projection' = [projection EXCEPT ![e] =
                        [sequence |-> length[e] + 1, version |-> release,
                         folded |-> IF length[e] = 0 THEN release ELSE @.folded]]
    /\ unfolded' = IF length[e] > 0 /\ projection[e].version # release
                   THEN unfolded \cup {e} ELSE unfolded

Happens ==
    /\ current > 0 /\ current \notin ended
    /\ Cardinality({<<e, n>> \in All \X (1 .. MaxLength + 1) : n <= length[e]})
          < MaxLength + Cardinality(ended)
    /\ Committed(current)
    /\ UNCHANGED <<current, ended, release, serving, starts, stream, wire, fetch, older,
                   screen, told, flipped, crossed, cuts>>

\* The last event of an execution.
Ends ==
    /\ current > 0 /\ current \notin ended
    /\ Committed(current)
    /\ ended' = ended \cup {current}
    /\ UNCHANGED <<current, release, serving, starts, stream, wire, fetch, older,
                   screen, told, flipped, crossed, cuts>>

NextExecution ==
    /\ serving /\ current < Executions /\ (current > 0 => current \in ended)
    /\ current' = current + 1
    /\ UNCHANGED <<ended, length, projection, release, serving, starts, stream, wire,
                   fetch, older, screen, told, flipped, crossed, unfolded, cuts>>

Whole(e) == projection[e].version = release /\ projection[e].sequence = length[e]

\* Mutant: a projection is taken as it was left.
LeftAlone(e) == projection[e]
Rebuilt(e) ==
    IF length[e] = 0 \/ Whole(e) THEN projection[e]
    ELSE [sequence |-> length[e], version |-> release, folded |-> release]

\* Executions are recovered, which may go on at once, and then every projection
\* is made whole before the first request is served.
RebuildAll ==
    /\ ~serving /\ serving' = TRUE
    /\ projection' = [e \in All |-> Rebuilt(e)]
    /\ UNCHANGED <<current, ended, length, release, starts, stream, wire, fetch, older,
                   screen, told, flipped, crossed, unfolded, cuts>>

\* With the same code or a newer one.  Answers already under way still arrive.
ServerRestarts ==
    /\ cuts < MaxCuts /\ cuts' = cuts + 1 /\ starts' = starts + 1 /\ serving' = FALSE
    /\ release' \in {release, release + 1}
    /\ stream' = Absent /\ wire' = Absent
    /\ fetch' = IF fetch # Absent /\ fetch.at = "asked" THEN Absent ELSE fetch
    /\ older' = IF older # Absent /\ older.at = "asked" THEN Absent ELSE older
    /\ UNCHANGED <<current, ended, length, projection, screen, told, flipped, crossed,
                   unfolded>>

-----------------------------------------------------------------------------
(* Snapshots                                                               *)

\* An entry carries the execution it is said to be of, and the one it is of.
Entries(said, is, from, to) == {[said |-> said, is |-> is, seq |-> s] : s \in from .. to}
Newest(n) == (IF n > Batch THEN n - Batch ELSE 0) + 1

\* StrategyMonitorService.snapshot: the execution is picked anew.
Snapshot ==
    [generation |-> starts, execution |-> current, seq |-> length[current],
     active |-> current \notin ended,
     entries |-> Entries(current, current, Newest(length[current]), length[current])]

-----------------------------------------------------------------------------
(* The stream                                                              *)

StreamOpens ==
    /\ serving /\ stream = Absent /\ screen # Absent
    /\ stream' = [at |-> "start", execution |-> 0, last |-> 0, seen |-> 0, upTo |-> 0]
    /\ UNCHANGED <<current, ended, length, projection, release, serving, starts, wire,
                   fetch, older, screen, told, flipped, crossed, unfolded, cuts>>

At(where) == stream # Absent /\ stream.at = where

\* A snapshot at first, and whenever the stream cannot go on from where it was;
\* after a gap it keeps the execution it had in mind.
StreamSnapshots ==
    /\ At("start") \/ At("switch") \/ At("gap")
    /\ wire = Absent
    /\ wire' = [what |-> "snapshot", of |-> Snapshot, upTo |-> length[current]]
    /\ stream' = [at |-> "loop", last |-> length[current], seen |-> 0, upTo |-> 0,
                  execution |-> IF At("gap") THEN stream.execution ELSE current]
    /\ UNCHANGED <<current, ended, length, projection, release, serving, starts, fetch,
                   older, screen, told, flipped, crossed, unfolded, cuts>>

\* Mutant: a stream follows the journal of whichever execution.
SameAlways(e) == TRUE
Same(e) == e = current

\* Woken by an event, or after five seconds.
StreamLooks ==
    LET seen == length[current]
    IN  /\ At("loop") /\ wire = Absent
        /\ \/ ~Same(stream.execution) /\ stream' = [stream EXCEPT !.at = "switch"]
           \/ /\ Same(stream.execution)
              /\ projection[current].sequence # seen \/ seen > stream.last + Batch
              /\ stream' = [stream EXCEPT !.at = "gap"]
           \/ /\ Same(stream.execution)
              /\ projection[current].sequence = seen
              /\ seen \in stream.last + 1 .. stream.last + Batch
              /\ stream' = [stream EXCEPT !.at = "rows", !.execution = current, !.seen = seen]
        /\ UNCHANGED <<current, ended, length, projection, release, serving, starts, wire,
                       fetch, older, screen, told, flipped, crossed, unfolded, cuts>>

\* What there is after the last event sent; more than was seen before is a gap.
StreamReads ==
    LET upTo == IF length[stream.execution] > stream.last + Batch
                THEN stream.last + Batch ELSE length[stream.execution]
    IN  /\ At("rows")
        /\ stream' = IF upTo = stream.seen
                     THEN [stream EXCEPT !.at = "delta", !.upTo = upTo]
                     ELSE [stream EXCEPT !.at = "gap"]
        /\ UNCHANGED <<current, ended, length, projection, release, serving, starts, wire,
                       fetch, older, screen, told, flipped, crossed, unfolded, cuts>>

\* The rows read are the entries of a snapshot that picks its execution anew.
StreamSends ==
    /\ At("delta") /\ wire = Absent
    /\ wire' = [what |-> "delta", upTo |-> stream.upTo,
                of |-> [Snapshot EXCEPT !.entries =
                          Entries(current, stream.execution, stream.last + 1, stream.upTo)]]
    /\ stream' = [stream EXCEPT !.at = "loop", !.last = stream.upTo]
    /\ UNCHANGED <<current, ended, length, projection, release, serving, starts, fetch,
                   older, screen, told, flipped, crossed, unfolded, cuts>>

\* The browser opens another stream by itself.
StreamCut ==
    /\ stream # Absent /\ cuts < MaxCuts /\ cuts' = cuts + 1
    /\ stream' = Absent /\ wire' = Absent
    /\ UNCHANGED <<current, ended, length, projection, release, serving, starts, fetch,
                   older, screen, told, flipped, crossed, unfolded>>

-----------------------------------------------------------------------------
(* The page                                                                *)

\* Mutant: what arrives is merged whichever execution it is about.
SameKeyAlways(s, t) == TRUE
SameKey(s, t) == s.generation = t.generation /\ s.execution = t.execution

\* Mutant: what arrives is taken to be newer.
NewerAlways(incoming, s) == TRUE
\* At the same event the times of the two decide, which say the same.
Newer(incoming, s) == incoming.seq >= s.seq

\* An entry that arrives takes the place of the one with its name.
Merged(s, incoming) ==
    incoming.entries \cup
    {l \in s.entries : \A k \in incoming.entries : l.seq # k.seq \/ l.said # k.said}

LastShown(entries) ==
    {l \in entries : Cardinality({k \in entries : k.seq > l.seq}) < ShownMax}

MergeMonitor(s, incoming) ==
    IF s = Absent \/ ~SameKey(s, incoming) THEN incoming
    ELSE [(IF Newer(incoming, s) THEN incoming ELSE s) EXCEPT
             !.entries = LastShown(Merged(s, incoming))]

\* What is remembered of it.
Remember(incoming, upTo) ==
    LET same    == screen # Absent /\ SameKey(screen, incoming)
        foreign == \E l \in incoming.entries : l.is # incoming.execution
    IN  /\ told' = IF foreign THEN (IF same THEN told ELSE 0)
                   ELSE IF same /\ told > upTo THEN told ELSE upTo
        /\ crossed' = (foreign \/ (same /\ crossed))

PageHears ==
    /\ wire # Absent
    /\ screen' = MergeMonitor(screen, wire.of)
    /\ Remember(wire.of, wire.upTo)
    /\ flipped' = (flipped /\ wire.what = "delta")
    /\ wire' = Absent
    /\ UNCHANGED <<current, ended, length, projection, release, serving, starts, stream,
                   fetch, older, unfolded, cuts>>

\* At first, and every two seconds while the execution shown is active.
Fetch ==
    /\ fetch = Absent /\ (screen # Absent => screen.active)
    /\ fetch' = [at |-> "asked"]
    /\ UNCHANGED <<current, ended, length, projection, release, serving, starts, stream,
                   wire, older, screen, told, flipped, crossed, unfolded, cuts>>

FetchAnswered ==
    /\ serving /\ fetch # Absent /\ fetch.at = "asked"
    /\ fetch' = [at |-> "answered", of |-> Snapshot]
    /\ UNCHANGED <<current, ended, length, projection, release, serving, starts, stream,
                   wire, older, screen, told, flipped, crossed, unfolded, cuts>>

FetchArrives ==
    /\ fetch # Absent /\ fetch.at = "answered"
    /\ screen' = MergeMonitor(screen, fetch.of)
    /\ Remember(fetch.of, fetch.of.seq)
    /\ flipped' = (flipped \/ (screen # Absent /\ ~SameKey(screen, fetch.of)))
    /\ fetch' = Absent
    /\ UNCHANGED <<current, ended, length, projection, release, serving, starts, stream,
                   wire, older, unfolded, cuts>>

FetchFails ==
    /\ fetch # Absent /\ cuts < MaxCuts /\ cuts' = cuts + 1
    /\ fetch' = Absent
    /\ UNCHANGED <<current, ended, length, projection, release, serving, starts, stream,
                   wire, older, screen, told, flipped, crossed, unfolded>>

\* The entries before the first one shown.
OldestShown == CHOOSE s \in {l.seq : l \in screen.entries} : \A l \in screen.entries : s <= l.seq

LoadOlder ==
    /\ older = Absent /\ screen # Absent /\ screen.entries # {} /\ OldestShown > 1
    /\ older' = [at |-> "asked", before |-> OldestShown]
    /\ UNCHANGED <<current, ended, length, projection, release, serving, starts, stream,
                   wire, fetch, screen, told, flipped, crossed, unfolded, cuts>>

\* Of the execution that is current by now.
OlderAnswered ==
    LET to == IF older.before - 1 > length[current] THEN length[current] ELSE older.before - 1
    IN  /\ serving /\ older # Absent /\ older.at = "asked"
        /\ older' = [at |-> "answered", entries |-> Entries(current, current, Newest(to), to)]
        /\ UNCHANGED <<current, ended, length, projection, release, serving, starts, stream,
                       wire, fetch, screen, told, flipped, crossed, unfolded, cuts>>

\* They are put in front of whatever is shown by then.
OlderArrives ==
    LET new == older.entries \cup screen.entries
    IN  /\ older # Absent /\ older.at = "answered"
        /\ screen' = [screen EXCEPT !.entries = new]
        /\ crossed' = (crossed \/ \E l \in older.entries : l.said # screen.execution)
        /\ older' = Absent
        /\ UNCHANGED <<current, ended, length, projection, release, serving, starts, stream,
                       wire, fetch, told, flipped, unfolded, cuts>>

-----------------------------------------------------------------------------

FeedNext ==
    \/ Happens \/ Ends \/ NextExecution \/ RebuildAll \/ ServerRestarts
    \/ StreamOpens \/ StreamSnapshots \/ StreamLooks \/ StreamReads \/ StreamSends \/ StreamCut
    \/ PageHears \/ Fetch \/ FetchAnswered \/ FetchArrives \/ FetchFails
    \/ LoadOlder \/ OlderAnswered \/ OlderArrives

FeedInit ==
    /\ current = 0 /\ ended = {} /\ length = [e \in All |-> 0]
    /\ projection = [e \in All |-> [sequence |-> 0, version |-> 0, folded |-> 0]]
    /\ release = 0 /\ serving = TRUE /\ starts = 0
    /\ stream = Absent /\ wire = Absent /\ fetch = Absent /\ older = Absent
    /\ screen = Absent /\ told = 0 /\ flipped = FALSE /\ crossed = FALSE
    /\ unfolded = {} /\ cuts = 0

-----------------------------------------------------------------------------

FeedTypeOK ==
    /\ current \in All /\ ended \subseteq 1 .. current
    /\ \A e \in All : projection[e].sequence \in 0 .. length[e]
    /\ screen # Absent => screen.execution \in All /\ screen.generation \in 0 .. starts
    /\ told \in 0 .. MaxLength + 1

\* What is served was folded from every event by the code that serves it, except
\* of an execution that went on at startup before it was folded anew: its state is
\* of two releases and bears the new one's stamp (append_and_project,
\* _ensure_projection, the order of main_bootstrap.py).
FoldIsWhole ==
    serving => \A e \in All \ unfolded :
        length[e] > 0 =>
            projection[e] = [sequence |-> length[e], version |-> release, folded |-> release]

\* The page does not go back behind an event it was told of, in whichever order
\* stream and requests are heard (mergeMonitor).
NeverBehind == screen # Absent => screen.seq >= told

\* The newest entries are on the page, up to the last one it was told of: a stream
\* that breaks, falls behind or is overtaken leaves no hole in them.  Only an answer
\* to the page about another execution costs it its entries, until the stream sends
\* its next snapshot, and an entry labelled wrongly may take the place of one (strategy_monitor_events, mergeMonitor).
NewestAreShown ==
    screen # Absent /\ ~flipped /\ ~crossed =>
        \A s \in Newest(told) .. told : \E l \in screen.entries : l.seq = s

\* Every entry shown is of the execution shown, except where rows or older entries
\* were read of one execution and labelled after another had begun
\* (StrategyMonitorService.snapshot, loadOlder).
EntriesAreItsOwn ==
    screen # Absent /\ ~crossed =>
        \A l \in screen.entries : l.is = screen.execution /\ l.said = screen.execution
=============================================================================
