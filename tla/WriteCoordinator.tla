--------------------------- MODULE WriteCoordinator ---------------------------
(* The one writer of the Fleet journal.  Actors hand it critical writes and    *)
(* wait for their commit; a wait heartbeat is put into a map with one place    *)
(* for each campaign, where a newer one replaces it, and is flushed in         *)
(* batches.  A state boundary of a campaign first drops the heartbeat that is  *)
(* pending for it and then hands in its own critical write.                    *)
(*                                                                             *)
(* Producers are the threads that publish monitor events, several of them for  *)
(* one campaign.  What happens under the coordinator's lock is one step.       *)
EXTENDS Naturals, Sequences

CONSTANTS Producers,        \* threads that publish events
          Monitored,        \* campaigns
          CampaignOf,       \* producer -> campaign
          LowBatch,         \* low_priority_batch
          MaxEvents         \* bound: events of one producer

ASSUME CoordinatorAssumption ==
    /\ CampaignOf \in [Producers -> Monitored]
    /\ LowBatch \in Nat \ {0} /\ MaxEvents \in Nat

VARIABLES critical,     \* the queue
          low,          \* campaign -> its pending heartbeat, or Nothing
          batch,        \* heartbeats the writer has popped and not committed
          writer,       \* where the writer thread is
          coordinator,  \* open, closing (closed, sentinel not yet put), closed
          producer,     \* thread -> where it is, events it has published
          written       \* producer -> the last of its events in the journal

writerVars == <<critical, low, batch, writer, coordinator, producer, written>>

Nothing  == <<>>
Sentinel == <<"close">>
Writes   == Producers \X (1..MaxEvents)

WriterTypeOK ==
    /\ critical \in Seq(Writes \union {Sentinel}) /\ batch \in Seq(Writes)
    /\ low \in [Monitored -> Writes \union {Nothing}]
    /\ writer \in {"get", "committed", "flush", "last", "done"}
    /\ coordinator \in {"open", "closing", "closed"}
    /\ producer \in [Producers -> [at : {"free", "boundary", "blocked"}, events : 0..MaxEvents]]
    /\ written \in [Producers -> 0..MaxEvents]

WriterInit ==
    /\ critical = <<>> /\ low = [c \in Monitored |-> Nothing] /\ batch = <<>>
    /\ writer = "get" /\ coordinator = "open"
    /\ producer = [p \in Producers |-> [at |-> "free", events |-> 0]]
    /\ written = [p \in Producers |-> 0]

\* low_priority: the new heartbeat takes the place of one that is pending.
Heartbeat(p) ==
    /\ producer[p].at = "free" /\ producer[p].events < MaxEvents
    /\ producer' = [producer EXCEPT ![p].events = @ + 1]
    /\ low' = IF coordinator = "open"
              THEN [low EXCEPT ![CampaignOf[p]] = <<p, producer'[p].events>>] ELSE low
    /\ UNCHANGED <<critical, batch, writer, coordinator, written>>

\* publish_monitor_event of a boundary: discard_low_priority, then critical.
KeepHeartbeat(c) == low' = low   \* the pending heartbeat is left there
Discard(c) == low' = [low EXCEPT ![c] = Nothing]
Boundary(p) ==
    /\ producer[p].at = "free" /\ producer[p].events < MaxEvents
    /\ Discard(CampaignOf[p])
    /\ producer' = [producer EXCEPT ![p].events = @ + 1, ![p].at = "boundary"]
    /\ UNCHANGED <<critical, batch, writer, coordinator, written>>

\* critical: a closed coordinator refuses.
Critical(p) ==
    /\ producer[p].at = "boundary"
    /\ IF coordinator = "open"
       THEN /\ critical' = Append(critical, <<p, producer[p].events>>)
            /\ producer' = [producer EXCEPT ![p].at = "blocked"]
       ELSE critical' = critical /\ producer' = [producer EXCEPT ![p].at = "free"]
    /\ UNCHANGED <<low, batch, writer, coordinator, written>>

CloseCoordinator ==
    \/ /\ coordinator = "open" /\ coordinator' = "closing" /\ critical' = critical
       /\ UNCHANGED <<low, batch, writer, producer, written>>
    \/ /\ coordinator = "closing" /\ coordinator' = "closed"
       /\ critical' = Append(critical, Sentinel)
       /\ UNCHANGED <<low, batch, writer, producer, written>>

----------------------------------------------------------------------------
(* The writer thread.                                                        *)

\* _commit: the callback may raise, and then the journal is unchanged.
Commit(w) == \E saved \in BOOLEAN : written' = IF saved THEN [written EXCEPT ![w[1]] = w[2]] ELSE written

TakeCritical ==
    /\ writer = "get" /\ critical # <<>> /\ Head(critical) # Sentinel
    /\ Commit(Head(critical)) /\ critical' = Tail(critical) /\ writer' = "committed"
    /\ producer' = [producer EXCEPT ![Head(critical)[1]].at = "free"]
    /\ UNCHANGED <<low, batch, coordinator>>

TakeSentinel ==
    /\ writer = "get" /\ critical # <<>> /\ Head(critical) = Sentinel
    /\ critical' = Tail(critical) /\ writer' = "last"
    /\ UNCHANGED <<low, batch, coordinator, producer, written>>

\* A flush is not due after a commit.
NotFlushed ==
    /\ writer = "committed" /\ writer' = "get"
    /\ UNCHANGED <<critical, low, batch, coordinator, producer, written>>

\* _flush_low: the queue stayed empty, a flush is due, or this is the end.
Pending == {c \in Monitored : low[c] # Nothing}
FlushLow ==
    /\ batch = <<>>
    /\ (writer = "get" /\ critical = <<>>) \/ writer \in {"committed", "last"}
    /\ Pending # {}
    /\ \E n \in 1..LowBatch : \E s \in [1..n -> Pending] :
         /\ \A i, j \in 1..n : i # j => s[i] # s[j]
         /\ n = LowBatch \/ \A c \in Pending : \E i \in 1..n : s[i] = c
         /\ batch' = [i \in 1..n |-> low[s[i]]]
         /\ low' = [c \in Monitored |-> IF \E i \in 1..n : s[i] = c THEN Nothing ELSE low[c]]
    /\ writer' = IF writer = "last" THEN "last" ELSE "flush"
    /\ UNCHANGED <<critical, coordinator, producer, written>>

CommitLow ==
    /\ batch # <<>> /\ Commit(Head(batch)) /\ batch' = Tail(batch)
    /\ writer' = IF writer = "flush" /\ batch' = <<>> THEN "get" ELSE writer
    /\ UNCHANGED <<critical, low, coordinator, producer>>

\* _flush_all_low has nothing left: the thread ends.
WriterEnds ==
    /\ writer = "last" /\ batch = <<>> /\ Pending = {} /\ writer' = "done"
    /\ UNCHANGED <<critical, low, batch, coordinator, producer, written>>

WriterStep ==
    TakeCritical \/ TakeSentinel \/ NotFlushed \/ FlushLow \/ CommitLow \/ WriterEnds

WriterNext ==
    \/ WriterStep \/ CloseCoordinator
    \/ \E p \in Producers : Heartbeat(p) \/ Boundary(p) \/ Critical(p)

\* The writer thread runs.
WriterFairness == WF_writerVars(WriterStep)

WriterSpec == WriterInit /\ [][WriterNext]_writerVars /\ WriterFairness

----------------------------------------------------------------------------
(* Properties.                                                               *)

\* The journal never goes back: no thread's earlier event is written after a
\* later one of its own.  A heartbeat cannot bring a wait back to life after
\* the boundary that ended it, however the flush and the discard interleave.
NoEventComesBack == [][\A p \in Producers : written[p] <= written'[p]]_writerVars

\* A producer that handed in a critical write gets its commit or its failure,
\* also when the coordinator is closed meanwhile.
CriticalReturns(p) == producer[p].at = "blocked" ~> producer[p].at = "free"
=============================================================================
