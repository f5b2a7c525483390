----------------------------- MODULE AccountLog -----------------------------
(***************************************************************************)
(* The log of one account as a user follows it.  The control plane keeps   *)
(* its own lines in a table and renders the events of the campaign's       *)
(* journal beside them; an answer is the two merged by time                *)
(* (combined_log_updates).  The page asks again and again for what comes   *)
(* after the last line it has, and may clear the log (LogDrawer.tsx).      *)
(*                                                                         *)
(* Whoever writes a line takes its time first and commits it later; an     *)
(* answer reads the table, the boundaries of the last clear and the        *)
(* journal one after another, and a clear reads the journal before it      *)
(* deletes.  Every one of these steps may come between any two others.     *)
(***************************************************************************)
EXTENDS Naturals, FiniteSets, Sequences, SequencesExt

CONSTANTS
    Window,         \* lines kept, merged and shown at most (500)
    Limit,          \* lines of an answer at most (200)
    MaxTime,        \* bound: moments at which lines are written
    MaxLines,       \* bound: lines committed when another is begun
    MaxClears,      \* bound: times the user clears the log
    NoLine

ASSUME LogAssumption ==
    /\ {MaxTime, MaxLines, MaxClears} \subseteq Nat
    /\ Limit \in 1 .. Window /\ Window \in Nat

Kinds == {"system", "event"}

VARIABLES
    clock,
    stamped,    \* for each kind, the time of the line about to be committed
    written,    \* for each kind, the lines committed so far
    table,      \* the control plane's lines still kept
    journal,    \* the events of the campaign
    boundary,   \* the last event the user cleared
    clearing,   \* how far a clear is, and the boundary it has read
    generation, \* of the page's requests
    loop,       \* the generation that asks
    cursor,     \* the last line the page was given
    shown,      \* what the page shows
    asks,       \* the requests under way, by their generation
    missable,   \* lines that came before one already there, or between two reads
    cleared     \* lines a clear has done away with

logVars == <<clock, stamped, written, table, journal, boundary, clearing, generation, loop,
             cursor, shown, asks, missable, cleared>>

Line(kind, n, at) == [kind |-> kind, n |-> n, at |-> at]

\* By time; at the same time the table's lines come first, each kind in its order.
Before(l, k) ==
    \/ l.at < k.at
    \/ l.at = k.at /\ l.kind = "system" /\ k.kind = "event"
    \/ l.at = k.at /\ l.kind = k.kind /\ l.n < k.n

LastOf(s, n)  == IF Len(s) <= n THEN s ELSE SubSeq(s, Len(s) - n + 1, Len(s))
FirstOf(s, n) == IF Len(s) <= n THEN s ELSE SubSeq(s, 1, n)

-----------------------------------------------------------------------------
(* Writers                                                                 *)

LogTick ==
    /\ clock < MaxTime /\ clock' = clock + 1
    /\ UNCHANGED <<stamped, written, table, journal, boundary, clearing, generation, loop,
                   cursor, shown, asks, missable, cleared>>

Stamp(kind) ==
    /\ stamped[kind] = NoLine /\ written["system"] + written["event"] < MaxLines
    /\ stamped' = [stamped EXCEPT ![kind] = clock]
    /\ UNCHANGED <<clock, written, table, journal, boundary, clearing, generation, loop,
                   cursor, shown, asks, missable, cleared>>

\* The table keeps its newest lines.
Kept(lines) == {l \in lines : Cardinality({k \in lines : k.n > l.n}) < Window}

HalfRead == \E g \in DOMAIN asks : asks[g].at \in {"boundary", "journal"}

Commit(kind) ==
    LET line == Line(kind, written[kind] + 1, stamped[kind])
    IN  /\ stamped[kind] # NoLine
        /\ stamped' = [stamped EXCEPT ![kind] = NoLine]
        /\ written' = [written EXCEPT ![kind] = @ + 1]
        /\ table' = IF kind = "system" THEN Kept(table \cup {line}) ELSE table
        /\ journal' = IF kind = "event" THEN journal \cup {line} ELSE journal
        /\ missable' = IF \/ \E l \in table \cup journal \cup cleared : Before(line, l)
                          \/ kind = "system" /\ HalfRead
                       THEN missable \cup {line} ELSE missable
        /\ UNCHANGED <<clock, boundary, clearing, generation, loop, cursor, shown, asks, cleared>>

-----------------------------------------------------------------------------
(* An answer                                                               *)

\* The page asks for what follows its cursor.
Ask ==
    /\ loop \notin DOMAIN asks
    /\ asks' = [g \in {loop} \cup DOMAIN asks |->
                  IF g = loop
                  THEN [at |-> "table", after |-> cursor, system |-> {}, cleared |-> 0, answer |-> <<>>,
                        reset |-> FALSE]
                  ELSE asks[g]]
    /\ UNCHANGED <<clock, stamped, written, table, journal, boundary, clearing, generation, loop,
                   cursor, shown, missable, cleared>>

ReadTable(g) ==
    /\ g \in DOMAIN asks /\ asks[g].at = "table"
    /\ asks' = [asks EXCEPT ![g].at = "boundary", ![g].system = table]
    /\ UNCHANGED <<clock, stamped, written, table, journal, boundary, clearing, generation, loop,
                   cursor, shown, missable, cleared>>

ReadBoundary(g) ==
    /\ g \in DOMAIN asks /\ asks[g].at = "boundary"
    /\ asks' = [asks EXCEPT ![g].at = "journal", ![g].cleared = boundary]
    /\ UNCHANGED <<clock, stamped, written, table, journal, boundary, clearing, generation, loop,
                   cursor, shown, missable, cleared>>

\* The newest events, without those that were cleared.
Rendered(through) ==
    {e \in journal : e.n > through /\ Cardinality({f \in journal : f.n > e.n}) < Window}

\* What an answer says to one who has the lines up to after.
Follows(window, after) ==
    LET here == {i \in DOMAIN window : window[i] = after}
    IN  IF after = NoLine THEN [lines |-> LastOf(window, Limit), reset |-> FALSE]
        ELSE IF here = {} THEN [lines |-> LastOf(window, Limit), reset |-> TRUE]
        ELSE [lines |-> FirstOf(SubSeq(window, (CHOOSE i \in here : TRUE) + 1, Len(window)), Limit),
              reset |-> FALSE]

\* Mutant: a cursor that is gone is not reply.
FollowsQuietly(window, after) == [Follows(window, after) EXCEPT !.reset = FALSE]
Answered(window, after) == Follows(window, after)

ReadJournal(g) ==
    LET lines  == asks[g].system \cup Rendered(asks[g].cleared)
        window == LastOf(SetToSortSeq(lines, Before), Window)
        reply   == Answered(window, asks[g].after)
    IN  /\ g \in DOMAIN asks /\ asks[g].at = "journal"
        /\ asks' = [asks EXCEPT ![g] = [at |-> "answered", after |-> asks[g].after, system |-> {},
                                        cleared |-> 0, answer |-> reply.lines, reset |-> reply.reset]]
        /\ UNCHANGED <<clock, stamped, written, table, journal, boundary, clearing, generation, loop,
                       cursor, shown, missable, cleared>>

\* Mutant: an answer counts whenever it was asked for.
HeededAlways(g) == TRUE
\* An answer asked for before the page began to clear is thrown away.
Heeded(g) == g = generation

\* The page adds the lines it has not got, or starts afresh.
AnswerArrives(g) ==
    LET a    == asks[g]
        had  == IF a.after = NoLine \/ a.reset THEN <<>> ELSE shown
        news == SelectSeq(a.answer, LAMBDA l : ~Contains(had, l))
    IN  /\ g \in DOMAIN asks /\ a.at = "answered"
        /\ IF Heeded(g)
           THEN /\ shown' = LastOf(had \o news, Window)
                /\ cursor' = IF a.answer # <<>> THEN Last(a.answer)
                             ELSE IF a.reset THEN NoLine ELSE a.after
           ELSE UNCHANGED <<shown, cursor>>
        /\ asks' = [h \in DOMAIN asks \ {g} |-> asks[h]]
        /\ UNCHANGED <<clock, stamped, written, table, journal, boundary, clearing, generation, loop,
                       missable, cleared>>

\* It fails, and the page asks again.
AskFails(g) ==
    /\ g \in DOMAIN asks
    /\ asks' = [h \in DOMAIN asks \ {g} |-> asks[h]]
    /\ UNCHANGED <<clock, stamped, written, table, journal, boundary, clearing, generation, loop,
                   cursor, shown, missable, cleared>>

-----------------------------------------------------------------------------
(* A clear                                                                 *)

ClearAsked ==
    /\ clearing.at = "no" /\ generation < 2 * MaxClears
    /\ clearing' = [at |-> "asked", through |-> 0] /\ generation' = generation + 1
    /\ UNCHANGED <<clock, stamped, written, table, journal, boundary, loop, cursor, shown, asks,
                   missable, cleared>>

\* The newest event of the campaign is as far as it clears.
ClearReads ==
    /\ clearing.at = "asked"
    /\ clearing' = [at |-> "read", through |-> written["event"]]
    /\ UNCHANGED <<clock, stamped, written, table, journal, boundary, generation, loop, cursor,
                   shown, asks, missable, cleared>>

\* Mutant: the events are left as they were.
OldBoundary(through) == boundary
ClearedThrough(through) == through

\* One transaction: the table's lines go, the boundary is set.
ClearDeletes ==
    /\ clearing.at = "read"
    /\ cleared' = cleared \cup table \cup {e \in journal : e.n <= clearing.through}
    /\ table' = {} /\ boundary' = ClearedThrough(clearing.through)
    /\ clearing' = [clearing EXCEPT !.at = "deleted"]
    /\ UNCHANGED <<clock, stamped, written, journal, generation, loop, cursor, shown, asks, missable>>

\* The page is emptied and asks anew; after a failure it only asks anew.
ClearEnds ==
    /\ clearing.at # "no"
    /\ \/ clearing.at = "deleted" /\ shown' = <<>>
       \/ UNCHANGED shown
    /\ clearing' = [at |-> "no", through |-> 0]
    /\ generation' = generation + 1 /\ loop' = generation + 1 /\ cursor' = NoLine
    /\ UNCHANGED <<clock, stamped, written, table, journal, boundary, asks, missable, cleared>>

-----------------------------------------------------------------------------

LogNext ==
    \/ LogTick \/ Ask \/ ClearAsked \/ ClearReads \/ ClearDeletes \/ ClearEnds
    \/ \E kind \in Kinds : Stamp(kind) \/ Commit(kind)
    \/ \E g \in DOMAIN asks :
          ReadTable(g) \/ ReadBoundary(g) \/ ReadJournal(g) \/ AnswerArrives(g) \/ AskFails(g)

LogInit ==
    /\ clock = 1 /\ stamped = [kind \in Kinds |-> NoLine] /\ written = [kind \in Kinds |-> 0]
    /\ table = {} /\ journal = {} /\ boundary = 0 /\ clearing = [at |-> "no", through |-> 0]
    /\ generation = 0 /\ loop = 0
    /\ cursor = NoLine /\ shown = <<>> /\ asks = [g \in {} |-> 0]
    /\ missable = {} /\ cleared = {}

-----------------------------------------------------------------------------

LogTypeOK ==
    /\ Cardinality(table) <= Window /\ Len(shown) <= Window
    /\ boundary <= written["event"] /\ DOMAIN asks \subseteq 0 .. generation

\* The page has no hole: between its first line and its cursor it shows every
\* line the control plane still has, but for those that were committed behind a
\* later one or while an answer was being put together, which it never gets
\* (the cursor of combined_log_updates and the page's replacing of its lines).
NoHole ==
    shown # <<>> /\ cursor # NoLine =>
        \A l \in (table \cup Rendered(boundary)) \ missable :
            Before(shown[1], l) /\ Before(l, cursor) => Contains(shown, l)

\* What the user cleared does not come back, though answers asked for before
\* the clear arrive after it; a clear whose answer was lost shows its lines until
\* the page has asked again (the page's generation, the boundaries of a clear).
ClearedStaysAway ==
    clearing.at = "no" /\ cursor # NoLine => \A i \in DOMAIN shown : shown[i] \notin cleared
=============================================================================
