------------------------ MODULE FleetServicesProofs ------------------------
(***************************************************************************)
(* What TLAPS proves of the services of the control centre, for any number *)
(* of producers, campaigns, cycles and threads.                            *)
(***************************************************************************)
EXTENDS MCFleetServices, FiniteSetTheorems, SequenceTheorems, TLAPS

(***************************************************************************)
(* The journal's writer.  Where an event of a thread can be follows from   *)
(* where the thread is: while it waits for a critical write it has no      *)
(* pending heartbeat, and a batch is committed before the next critical    *)
(* write is taken.                                                         *)
(***************************************************************************)
ProducerRecords == [at : {"free", "boundary", "blocked"}, events : 0..MaxEvents]

WriterTyped ==
    /\ critical \in Seq(Writes \union {Sentinel}) /\ batch \in Seq(Writes)
    /\ low \in [Monitored -> Writes \union {Nothing}]
    /\ writer \in {"get", "committed", "flush", "last", "done"}
    /\ coordinator \in {"open", "closing", "closed"}
    /\ producer \in [Producers -> ProducerRecords]
    /\ written \in [Producers -> 0..MaxEvents]

\* The event w is not older than what the journal has of its thread, and not
\* newer than the thread's last.
Fresh(w) == written[w[1]] <= w[2] /\ w[2] <= producer[w[1]].events

BatchFirst == writer \in {"get", "committed", "done"} => batch = <<>>
LowInv == \A c \in Monitored : low[c] # Nothing =>
    /\ CampaignOf[low[c][1]] = c /\ Fresh(low[c]) /\ producer[low[c][1]].at = "free"
    /\ \A i \in DOMAIN batch : batch[i][1] = low[c][1] => batch[i][2] <= low[c][2]
BatchInv == \A i \in DOMAIN batch :
    /\ Fresh(batch[i])
    /\ \A j \in DOMAIN batch : i # j => batch[i][1] # batch[j][1]
CriticalInv == \A i \in DOMAIN critical : critical[i] # Sentinel =>
    /\ producer[critical[i][1]].at = "blocked"
    /\ critical[i][2] = producer[critical[i][1]].events
    /\ \A j \in DOMAIN critical :
          i # j /\ critical[j] # Sentinel => critical[i][1] # critical[j][1]
ThreadsInv == \A p \in Producers :
    /\ written[p] <= producer[p].events
    /\ producer[p].at # "free" => producer[p].events > 0

WriterInv == WriterTyped /\ BatchFirst /\ LowInv /\ BatchInv /\ CriticalInv /\ ThreadsInv

LEMMA SentinelIsNoWrite == Sentinel \notin Writes /\ Nothing \notin Writes
BY DEF Sentinel, Nothing, Writes

LEMMA EventsTyped ==
    ASSUME WriterTyped
    PROVE  /\ \A i \in DOMAIN batch : batch[i] \in Writes
           /\ \A i \in DOMAIN critical : critical[i] # Sentinel => critical[i] \in Writes
           /\ \A c \in Monitored : low[c] # Nothing => low[c] \in Writes
           /\ \A w \in Writes : /\ w[1] \in Producers /\ w[2] \in 1..MaxEvents
                                /\ w = <<w[1], w[2]>>
BY CoordinatorAssumption DEF WriterTyped, Writes

LEMMA ThreadsTyped ==
    ASSUME WriterTyped
    PROVE  \A p \in Producers :
               /\ producer[p] \in ProducerRecords /\ producer[p].at \in {"free", "boundary", "blocked"}
               /\ producer[p].events \in Nat /\ producer[p].events <= MaxEvents
               /\ written[p] \in Nat /\ written[p] <= MaxEvents
BY CoordinatorAssumption DEF WriterTyped, ProducerRecords

LEMMA InitWriter == WriterInit => WriterInv
<1> SUFFICES ASSUME WriterInit PROVE WriterInv
    OBVIOUS
<1> USE CoordinatorAssumption DEF WriterInit
<1>1. WriterTyped
    BY DEF WriterTyped, ProducerRecords
<1>2. BatchFirst /\ LowInv /\ BatchInv /\ CriticalInv
    BY DEF BatchFirst, LowInv, BatchInv, CriticalInv
<1>3. ThreadsInv
    BY DEF ThreadsInv
<1> QED
    BY <1>1, <1>2, <1>3 DEF WriterInv

\* What is committed is an event of its thread that the journal does not have yet.
LEMMA CommitTyped ==
    ASSUME WriterTyped, NEW w \in Writes, Commit(w), written[w[1]] <= w[2]
    PROVE  /\ written' \in [Producers -> 0..MaxEvents]
           /\ \A p \in Producers : /\ written[p] <= written'[p]
                                   /\ written'[p] # written[p] => p = w[1] /\ written'[p] = w[2]
<1>1. w[1] \in Producers /\ w[2] \in 1..MaxEvents /\ MaxEvents \in Nat
    BY CoordinatorAssumption DEF Writes
<1> QED
    BY <1>1 DEF Commit, WriterTyped

LEMMA HeartbeatKeeps == ASSUME WriterInv, NEW p \in Producers, Heartbeat(p) PROVE WriterInv'
<1> USE CoordinatorAssumption
<1>1. /\ WriterTyped /\ BatchFirst /\ LowInv /\ BatchInv /\ CriticalInv /\ ThreadsInv
      /\ UNCHANGED <<critical, batch, writer, coordinator, written>>
      /\ producer[p] \in ProducerRecords /\ MaxEvents \in Nat
    BY DEF WriterInv, Heartbeat, WriterTyped
<1>2. /\ producer[p].at = "free" /\ producer[p].events \in 0..MaxEvents - 1
      /\ producer' \in [Producers -> ProducerRecords]
      /\ producer'[p].at = "free" /\ producer'[p].events = producer[p].events + 1
      /\ \A q \in Producers : q # p => producer'[q] = producer[q]
  <2>1. /\ producer[p].at = "free" /\ producer[p].events \in 0..MaxEvents
        /\ producer[p].events < MaxEvents
      BY <1>1 DEF Heartbeat, ProducerRecords
  <2>2. producer[p] = [at |-> "free", events |-> producer[p].events]
      BY <1>1, <2>1 DEF ProducerRecords
  <2>3. producer'[p] = [at |-> "free", events |-> producer[p].events + 1]
      BY <1>1, <2>2 DEF Heartbeat, WriterTyped
  <2>4. producer'[p] \in ProducerRecords
      BY <1>1, <2>1, <2>3 DEF ProducerRecords
  <2>5. /\ producer' \in [Producers -> ProducerRecords]
        /\ \A q \in Producers : q # p => producer'[q] = producer[q]
      BY <1>1, <2>4 DEF Heartbeat, WriterTyped
  <2> QED
      BY <1>1, <2>1, <2>3, <2>5
<1>3. <<p, producer'[p].events>> \in Writes
    BY <1>2 DEF Writes
<1>4. /\ low' \in [Monitored -> Writes \union {Nothing}]
      /\ \A c \in Monitored : \/ low'[c] = low[c]
                              \/ c = CampaignOf[p] /\ low'[c] = <<p, producer'[p].events>>
    BY <1>1, <1>3 DEF Heartbeat, WriterTyped
<1>5. WriterTyped'
    BY <1>1, <1>2, <1>4 DEF WriterTyped
<1>6. \A w \in Writes : Fresh(w) => Fresh(w)'
  <2>1. \A q \in Producers : producer[q].events <= producer'[q].events
      BY <1>1, <1>2, ThreadsTyped
  <2> QED
      BY <1>1, <1>2, <2>1, ThreadsTyped DEF Fresh, Writes
<1>7. \A i \in DOMAIN batch : batch[i] \in Writes
    BY <1>1 DEF WriterTyped
<1>8. LowInv'
  <2> SUFFICES ASSUME NEW c \in Monitored, low'[c] # Nothing
               PROVE  /\ CampaignOf[low'[c][1]] = c /\ Fresh(low[c])'
                      /\ producer'[low'[c][1]].at = "free"
                      /\ \A i \in DOMAIN batch : batch[i][1] = low'[c][1] => batch[i][2] <= low'[c][2]
      BY <1>1 DEF LowInv
  <2>1. CASE low'[c] = low[c]
    <3>1. low[c] \in Writes
        BY <1>1, <2>1 DEF WriterTyped
    <3>2. low[c][1] \in Producers /\ Fresh(low[c])'
        BY <1>1, <1>6, <2>1, <3>1 DEF LowInv, Writes, Fresh
    <3> QED
        BY <1>1, <1>2, <2>1, <3>1, <3>2 DEF LowInv
  <2>2. CASE c = CampaignOf[p] /\ low'[c] = <<p, producer'[p].events>>
    <3>1. Fresh(low[c])'
        BY <1>1, <1>2, <2>2 DEF Fresh, ThreadsInv, WriterTyped
    <3>2. \A i \in DOMAIN batch : batch[i][1] = p => batch[i][2] <= producer'[p].events
        BY <1>1, <1>2, <1>7 DEF BatchInv, Fresh, Writes
    <3> QED
        BY <1>2, <2>2, <3>1, <3>2
  <2> QED
      BY <1>4, <2>1, <2>2
<1>9. BatchInv'
    BY <1>1, <1>6, <1>7 DEF BatchInv, Fresh
<1>10. CriticalInv'
    BY <1>1, <1>2, EventsTyped DEF CriticalInv
<1>11. ThreadsInv'
  <2> SUFFICES ASSUME NEW q \in Producers
               PROVE  /\ written[q] <= producer'[q].events
                      /\ producer'[q].at # "free" => producer'[q].events > 0
      BY <1>1 DEF ThreadsInv
  <2>1. /\ written[q] <= producer[q].events /\ written[q] \in Nat /\ producer[q].events \in Nat
        /\ producer[q].at # "free" => producer[q].events > 0
      BY <1>1, ThreadsTyped DEF ThreadsInv
  <2>2. CASE q = p
      BY <1>2, <2>1, <2>2
  <2>3. CASE q # p
      BY <1>2, <2>1, <2>3
  <2> QED
      BY <2>2, <2>3
<1> QED
    BY <1>1, <1>5, <1>8, <1>9, <1>10, <1>11 DEF WriterInv, BatchFirst

\* A boundary drops the heartbeat of its campaign, whichever thread put it there.
LEMMA BoundaryKeeps == ASSUME WriterInv, NEW p \in Producers, Boundary(p) PROVE WriterInv'
<1> USE CoordinatorAssumption
<1>1. /\ WriterTyped /\ BatchFirst /\ LowInv /\ BatchInv /\ CriticalInv /\ ThreadsInv
      /\ UNCHANGED <<critical, batch, writer, coordinator, written>>
      /\ producer[p] \in ProducerRecords /\ CampaignOf[p] \in Monitored
    BY DEF WriterInv, Boundary, WriterTyped
<1>2. /\ producer[p].at = "free" /\ producer[p].events \in 0..MaxEvents - 1
      /\ producer' \in [Producers -> ProducerRecords]
      /\ producer'[p].events = producer[p].events + 1
      /\ \A q \in Producers : q # p => producer'[q] = producer[q]
    BY <1>1 DEF Boundary, WriterTyped, ProducerRecords
<1>3. /\ low' \in [Monitored -> Writes \union {Nothing}]
      /\ \A c \in Monitored : low'[c] = Nothing \/ (c # CampaignOf[p] /\ low'[c] = low[c])
    BY <1>1 DEF Boundary, Discard, WriterTyped
<1>4. WriterTyped'
    BY <1>1, <1>2, <1>3 DEF WriterTyped
<1>5. \A w \in Writes : Fresh(w) => Fresh(w)'
  <2>1. \A q \in Producers : producer[q].events <= producer'[q].events
      BY <1>1, <1>2, ThreadsTyped
  <2> QED
      BY <1>1, <1>2, <2>1, ThreadsTyped DEF Fresh, Writes
<1>6. LowInv'
  <2> SUFFICES ASSUME NEW c \in Monitored, low'[c] # Nothing
               PROVE  /\ CampaignOf[low'[c][1]] = c /\ Fresh(low[c])'
                      /\ producer'[low'[c][1]].at = "free"
                      /\ \A i \in DOMAIN batch : batch[i][1] = low'[c][1] => batch[i][2] <= low'[c][2]
      BY <1>1 DEF LowInv
  <2>1. low'[c] = low[c] /\ c # CampaignOf[p] /\ low[c] \in Writes /\ low[c][1] \in Producers
      BY <1>1, <1>3, EventsTyped
  <2>2. Fresh(low[c])'
      BY <1>1, <1>5, <2>1 DEF LowInv, Fresh
  <2>3. low[c][1] # p
      BY <1>1, <2>1 DEF LowInv
  <2> QED
      BY <1>1, <1>2, <2>1, <2>2, <2>3 DEF LowInv
<1>7. BatchInv'
    BY <1>1, <1>5, EventsTyped DEF BatchInv, Fresh
<1>8. CriticalInv'
    BY <1>1, <1>2, EventsTyped DEF CriticalInv
<1>9. ThreadsInv'
    BY <1>1, <1>2, ThreadsTyped DEF ThreadsInv
<1> QED
    BY <1>1, <1>4, <1>6, <1>7, <1>8, <1>9 DEF WriterInv, BatchFirst

\* A thread hands in one critical write and waits for it.
LEMMA CriticalKeeps == ASSUME WriterInv, NEW p \in Producers, Critical(p) PROVE WriterInv'
<1> USE CoordinatorAssumption
<1>1. /\ WriterTyped /\ BatchFirst /\ LowInv /\ BatchInv /\ CriticalInv /\ ThreadsInv
      /\ UNCHANGED <<low, batch, writer, coordinator, written>>
      /\ producer[p] \in ProducerRecords /\ producer[p].at = "boundary"
    BY DEF WriterInv, Critical, WriterTyped
<1>2. PICK at \in {"blocked", "free"} :
         /\ producer' = [producer EXCEPT ![p].at = at]
         /\ \/ at = "free" /\ critical' = critical
            \/ at = "blocked" /\ critical' = Append(critical, <<p, producer[p].events>>)
    BY DEF Critical
<1>3. /\ producer' \in [Producers -> ProducerRecords]
      /\ producer'[p].at = at /\ producer'[p].events = producer[p].events
      /\ \A q \in Producers : q # p => producer'[q] = producer[q]
    BY <1>1, <1>2 DEF WriterTyped, ProducerRecords
<1>4. \A w \in Writes : Fresh(w) => Fresh(w)'
    BY <1>1, <1>3 DEF Fresh, Writes
<1>5. LowInv'
  <2> SUFFICES ASSUME NEW c \in Monitored, low[c] # Nothing
               PROVE  Fresh(low[c])' /\ producer'[low[c][1]].at = "free"
      BY <1>1 DEF LowInv
  <2>1. low[c] \in Writes /\ low[c][1] \in Producers /\ low[c][1] # p
      BY <1>1, EventsTyped DEF LowInv
  <2> QED
      BY <1>1, <1>3, <1>4, <2>1 DEF LowInv, Fresh
<1>6. BatchInv'
    BY <1>1, <1>4, EventsTyped DEF BatchInv, Fresh
<1>7. ThreadsInv'
    BY <1>1, <1>3 DEF ThreadsInv
<1>8. producer[p].events \in 0..MaxEvents
    BY <1>1 DEF ProducerRecords
<1>9. <<p, producer[p].events>> \in Writes
    BY <1>1, <1>8 DEF ThreadsInv, Writes
<1>10. WriterTyped'
  <2> DEFINE Queued == Writes \union {Sentinel}
  <2>1. critical \in Seq(Queued) /\ <<p, producer[p].events>> \in Queued
      BY <1>1, <1>9 DEF WriterTyped
  <2> HIDE DEF Queued
  <2>2. critical' \in Seq(Queued)
      <3> DEFINE w == <<p, producer[p].events>>
      <3>1. w \in Queued
          BY <2>1
      <3> HIDE DEF w
      <3>2. critical' = critical \/ critical' = Append(critical, w)
          BY <1>2 DEF w
      <3> QED
          BY <2>1, <3>1, <3>2, AppendProperties
  <2> QED
      BY <1>1, <1>3, <2>2 DEF WriterTyped, Queued
<1>11. \A i \in DOMAIN critical : critical[i] # Sentinel =>
           critical[i][1] \in Producers /\ critical[i][1] # p
    BY <1>1, EventsTyped DEF CriticalInv
<1>12. CriticalInv'
  <2>1. CASE at = "free"
      BY <1>1, <1>2, <1>3, <1>11, <2>1 DEF CriticalInv
  <2>2. CASE at = "blocked" /\ critical' = Append(critical, <<p, producer[p].events>>)
    <3>1. /\ Len(critical') = Len(critical) + 1
          /\ \A i \in 1..Len(critical) : critical'[i] = critical[i]
          /\ critical'[Len(critical) + 1] = <<p, producer[p].events>>
          /\ DOMAIN critical' = 1..Len(critical) + 1 /\ DOMAIN critical = 1..Len(critical)
        BY <1>1, <1>9, <2>2 DEF WriterTyped
    <3>2. \A i \in DOMAIN critical' : \/ i \in DOMAIN critical /\ critical'[i] = critical[i]
                                      \/ i = Len(critical) + 1
        BY <3>1
    <3> QED
        BY <1>1, <1>3, <1>11, <2>2, <3>1, <3>2 DEF CriticalInv
  <2> QED
      BY <1>2, <2>1, <2>2
<1> QED
    BY <1>1, <1>5, <1>6, <1>7, <1>10, <1>12 DEF WriterInv, BatchFirst

LEMMA CloseKeeps == ASSUME WriterInv, CloseCoordinator PROVE WriterInv'
<1>1. /\ WriterTyped /\ BatchFirst /\ LowInv /\ BatchInv /\ CriticalInv /\ ThreadsInv
      /\ UNCHANGED <<low, batch, writer, producer, written>>
      /\ coordinator' \in {"open", "closing", "closed"}
    BY DEF WriterInv, CloseCoordinator
<1>2. critical' = critical \/ critical' = Append(critical, Sentinel)
    BY DEF CloseCoordinator
<1> DEFINE Queued == Writes \union {Sentinel}
<1>a. critical \in Seq(Queued) /\ Sentinel \in Queued
    BY <1>1 DEF WriterTyped
<1> HIDE DEF Queued
<1>b. critical' \in Seq(Queued)
    BY <1>2, <1>a, AppendProperties
<1>3. WriterTyped'
    BY <1>1, <1>b DEF WriterTyped, Queued
<1>4. \A i \in DOMAIN critical' : critical'[i] # Sentinel =>
          i \in DOMAIN critical /\ critical'[i] = critical[i]
  <2> DEFINE n == Len(critical)
  <2>1. critical' = critical \/ /\ critical' \in Seq(Queued) /\ Len(critical') = n + 1
                                /\ critical'[n + 1] = Sentinel
                                /\ \A i \in 1..n : critical'[i] = critical[i]
      BY <1>2, <1>a, AppendProperties
  <2>2. n \in Nat /\ DOMAIN critical = 1..n /\ DOMAIN critical' = 1..Len(critical')
      BY <1>a, <1>b
  <2> SUFFICES ASSUME NEW i \in DOMAIN critical', critical'[i] # Sentinel
               PROVE  i \in DOMAIN critical /\ critical'[i] = critical[i]
      OBVIOUS
  <2>3. CASE critical' = critical
      BY <2>3
  <2>4. CASE /\ Len(critical') = n + 1 /\ critical'[n + 1] = Sentinel
             /\ \A k \in 1..n : critical'[k] = critical[k]
    <3> HIDE DEF n
    <3>1. i \in 1..n
        BY <2>2, <2>4
    <3> QED
        BY <2>2, <2>4, <3>1
  <2> QED
      BY <2>1, <2>3, <2>4
<1>5. CriticalInv'
    BY <1>1, <1>4 DEF CriticalInv
<1>6. LowInv' /\ BatchInv' /\ ThreadsInv'
    BY <1>1 DEF LowInv, BatchInv, ThreadsInv, Fresh
<1> QED
    BY <1>1, <1>3, <1>5, <1>6 DEF WriterInv, BatchFirst

\* A critical write is taken only when no batch is left, and its thread has no
\* heartbeat pending: nothing of the thread is older and not yet written.
LEMMA TakeKeeps ==
    ASSUME WriterInv, TakeCritical
    PROVE  WriterInv' /\ \A p \in Producers : written[p] <= written'[p]
<1> USE CoordinatorAssumption
<1>1. /\ WriterTyped /\ BatchFirst /\ LowInv /\ BatchInv /\ CriticalInv /\ ThreadsInv
      /\ UNCHANGED <<low, batch, coordinator>> /\ batch = <<>>
      /\ writer' = "committed" /\ critical # <<>> /\ critical' = Tail(critical)
    BY DEF WriterInv, TakeCritical, BatchFirst
<1> DEFINE w == Head(critical)
<1>2. w = critical[1] /\ 1 \in DOMAIN critical /\ w # Sentinel
    BY <1>1 DEF TakeCritical, WriterTyped
<1>3. /\ w \in Writes /\ w[1] \in Producers /\ w[2] \in 1..MaxEvents
      /\ producer[w[1]].at = "blocked" /\ w[2] = producer[w[1]].events
    BY <1>1, <1>2, EventsTyped DEF CriticalInv
<1>4. /\ Commit(w) /\ producer' = [producer EXCEPT ![w[1]].at = "free"]
    BY DEF TakeCritical
<1> HIDE DEF w
<1>5. /\ producer' \in [Producers -> ProducerRecords]
      /\ \A q \in Producers : /\ producer'[q].events = producer[q].events
                              /\ q # w[1] => producer'[q] = producer[q]
                              /\ q = w[1] => producer'[q].at = "free"
    BY <1>1, <1>3, <1>4 DEF WriterTyped, ProducerRecords
<1>6. written[w[1]] <= w[2]
    BY <1>1, <1>3 DEF ThreadsInv
<1>7. /\ written' \in [Producers -> 0..MaxEvents]
      /\ \A p \in Producers : /\ written[p] <= written'[p]
                              /\ written'[p] # written[p] => p = w[1] /\ written'[p] = w[2]
    BY <1>1, <1>3, <1>4, <1>6, CommitTyped
<1>8. /\ critical' \in Seq(Writes \union {Sentinel})
      /\ \A i \in DOMAIN critical' : i + 1 \in DOMAIN critical /\ critical'[i] = critical[i + 1]
    BY <1>1 DEF WriterTyped
<1>9. WriterTyped'
    BY <1>1, <1>5, <1>7, <1>8 DEF WriterTyped
<1>10. \A i \in DOMAIN critical' : critical'[i] # Sentinel =>
           critical'[i][1] \in Producers /\ critical'[i][1] # w[1]
  <2> SUFFICES ASSUME NEW i \in DOMAIN critical', critical'[i] # Sentinel
               PROVE  critical'[i][1] \in Producers /\ critical'[i][1] # w[1]
      OBVIOUS
  <2>1. i + 1 \in DOMAIN critical /\ critical'[i] = critical[i + 1] /\ i + 1 # 1
      BY <1>1, <1>8 DEF WriterTyped
  <2>2. critical[1] = w
      BY <1>2
  <2> QED
      BY <1>1, <1>2, <2>1, <2>2, EventsTyped DEF CriticalInv
<1>11. CriticalInv'
  <2> SUFFICES ASSUME NEW i \in DOMAIN critical', critical'[i] # Sentinel
               PROVE  /\ producer'[critical'[i][1]].at = "blocked"
                      /\ critical'[i][2] = producer'[critical'[i][1]].events
                      /\ \A j \in DOMAIN critical' :
                            i # j /\ critical'[j] # Sentinel => critical'[i][1] # critical'[j][1]
      BY DEF CriticalInv
  <2>1. /\ i + 1 \in DOMAIN critical /\ critical'[i] = critical[i + 1]
        /\ i \in Int
        /\ \A j \in DOMAIN critical' :
              j \in Int /\ j + 1 \in DOMAIN critical /\ critical'[j] = critical[j + 1]
      BY <1>1, <1>8 DEF WriterTyped
  <2>2. \A j \in DOMAIN critical' : i # j => i + 1 # j + 1
      BY <2>1
  <2> QED
      BY <1>1, <1>5, <1>10, <2>1, <2>2 DEF CriticalInv
<1>12. LowInv'
  <2> SUFFICES ASSUME NEW c \in Monitored, low[c] # Nothing
               PROVE  Fresh(low[c])' /\ producer'[low[c][1]].at = "free"
      BY <1>1 DEF LowInv
  <2>1. /\ low[c][1] \in Producers /\ producer[low[c][1]].at = "free"
        /\ written[low[c][1]] <= low[c][2] /\ low[c][2] <= producer[low[c][1]].events
      BY <1>1, EventsTyped DEF LowInv, Fresh
  <2>2. low[c][1] # w[1]
      BY <1>3, <2>1
  <2> QED
      BY <1>1, <1>5, <1>7, <2>1, <2>2 DEF Fresh
<1>13. BatchInv'
    BY <1>1 DEF BatchInv
<1>14. ThreadsInv'
    BY <1>1, <1>3, <1>5, <1>7 DEF ThreadsInv, WriterTyped
<1> QED
    BY <1>1, <1>7, <1>9, <1>11, <1>12, <1>13, <1>14 DEF WriterInv, BatchFirst

\* A flush pops heartbeats of different campaigns, so of different threads.
LEMMA FlushKeeps == ASSUME WriterInv, FlushLow PROVE WriterInv'
<1> USE CoordinatorAssumption
<1>1. /\ WriterTyped /\ BatchFirst /\ LowInv /\ BatchInv /\ CriticalInv /\ ThreadsInv
      /\ UNCHANGED <<critical, coordinator, producer, written>> /\ batch = <<>>
      /\ writer' \in {"last", "flush"}
    BY DEF WriterInv, FlushLow
<1>2. PICK n \in 1..LowBatch : \E s \in [1..n -> Pending] :
         /\ \A i, j \in 1..n : i # j => s[i] # s[j]
         /\ batch' = [i \in 1..n |-> low[s[i]]]
         /\ low' = [c \in Monitored |-> IF \E i \in 1..n : s[i] = c THEN Nothing ELSE low[c]]
    BY DEF FlushLow
<1>3. PICK s \in [1..n -> Pending] :
         /\ \A i, j \in 1..n : i # j => s[i] # s[j]
         /\ batch' = [i \in 1..n |-> low[s[i]]]
         /\ low' = [c \in Monitored |-> IF \E i \in 1..n : s[i] = c THEN Nothing ELSE low[c]]
    BY <1>2
<1>4. \A i \in 1..n : /\ s[i] \in Monitored /\ low[s[i]] # Nothing /\ low[s[i]] \in Writes
                      /\ low[s[i]][1] \in Producers /\ CampaignOf[low[s[i]][1]] = s[i]
                      /\ Fresh(low[s[i]]) /\ batch'[i] = low[s[i]]
    BY <1>1, <1>3, EventsTyped DEF Pending, LowInv
<1>5. batch' \in Seq(Writes) /\ DOMAIN batch' = 1..n
    BY <1>3, <1>4
<1>6. /\ low' \in [Monitored -> Writes \union {Nothing}]
      /\ \A c \in Monitored : low'[c] # Nothing =>
            low'[c] = low[c] /\ \A i \in 1..n : s[i] # c
    BY <1>1, <1>3 DEF WriterTyped
<1>7. WriterTyped'
    BY <1>1, <1>5, <1>6 DEF WriterTyped
<1>8. BatchInv'
    BY <1>1, <1>3, <1>4, <1>5 DEF BatchInv, Fresh
<1>9. LowInv'
    BY <1>1, <1>4, <1>5, <1>6 DEF LowInv, Fresh
<1> QED
    BY <1>1, <1>7, <1>8, <1>9 DEF WriterInv, BatchFirst, CriticalInv, ThreadsInv

LEMMA CommitKeeps ==
    ASSUME WriterInv, CommitLow
    PROVE  WriterInv' /\ \A p \in Producers : written[p] <= written'[p]
<1> USE CoordinatorAssumption
<1>1. /\ WriterTyped /\ BatchFirst /\ LowInv /\ BatchInv /\ CriticalInv /\ ThreadsInv
      /\ UNCHANGED <<critical, low, coordinator, producer>>
      /\ batch # <<>> /\ batch' = Tail(batch)
      /\ writer' = IF writer = "flush" /\ batch' = <<>> THEN "get" ELSE writer
    BY DEF WriterInv, CommitLow
<1> DEFINE w == Head(batch)
<1>2. /\ w = batch[1] /\ 1 \in DOMAIN batch /\ w \in Writes /\ w[1] \in Producers
      /\ w[2] \in 1..MaxEvents /\ Fresh(w) /\ Commit(w)
    BY SMTT(40), <1>1, EventsTyped DEF CommitLow, BatchInv, WriterTyped
<1>3. \A i \in DOMAIN batch : i # 1 => batch[i][1] # w[1]
    BY <1>1, <1>2 DEF BatchInv
<1> HIDE DEF w
<1>4. /\ written' \in [Producers -> 0..MaxEvents]
      /\ \A p \in Producers : /\ written[p] <= written'[p]
                              /\ written'[p] # written[p] => p = w[1] /\ written'[p] = w[2]
    BY <1>1, <1>2, CommitTyped DEF Fresh
<1>5. /\ batch' \in Seq(Writes)
      /\ \A i \in DOMAIN batch' :
            i \in Int /\ i + 1 \in DOMAIN batch /\ i + 1 # 1 /\ batch'[i] = batch[i + 1]
    BY <1>1 DEF WriterTyped
<1>6. WriterTyped'
    BY <1>1, <1>4, <1>5 DEF WriterTyped
<1>7. BatchFirst'
    BY <1>1 DEF BatchFirst
<1>8. BatchInv'
  <2> SUFFICES ASSUME NEW i \in DOMAIN batch'
               PROVE  /\ Fresh(batch[i])'
                      /\ \A j \in DOMAIN batch' : i # j => batch'[i][1] # batch'[j][1]
      BY DEF BatchInv
  <2>1. batch'[i] = batch[i + 1] /\ i + 1 \in DOMAIN batch /\ batch[i + 1][1] # w[1]
        /\ batch[i + 1][1] \in Producers
      BY <1>1, <1>3, <1>5, EventsTyped
  <2>2. written'[batch[i + 1][1]] = written[batch[i + 1][1]]
      BY <1>4, <2>1
  <2>3. Fresh(batch[i])'
      BY <1>1, <2>1, <2>2 DEF BatchInv, Fresh
  <2>4. \A j \in DOMAIN batch' : i # j => i + 1 # j + 1
      BY <1>5
  <2> QED
      BY <1>1, <1>5, <2>3, <2>4 DEF BatchInv
<1>9. LowInv'
  <2> SUFFICES ASSUME NEW c \in Monitored, low[c] # Nothing
               PROVE  /\ Fresh(low[c])'
                      /\ \A i \in DOMAIN batch' : batch'[i][1] = low[c][1] => batch'[i][2] <= low[c][2]
      BY <1>1 DEF LowInv
  <2>1. low[c][1] \in Producers /\ low[c][2] \in Int
      BY <1>1, EventsTyped
  <2>2. w[1] = low[c][1] => w[2] <= low[c][2]
      BY <1>1, <1>2 DEF LowInv
  <2>3. Fresh(low[c])'
      BY <1>1, <1>2, <1>4, <2>1, <2>2 DEF LowInv, Fresh
  <2> QED
      <3> SUFFICES ASSUME NEW i \in DOMAIN batch', batch'[i][1] = low[c][1]
                   PROVE  batch'[i][2] <= low[c][2]
          BY <2>3
      <3>1. i + 1 \in DOMAIN batch /\ batch'[i] = batch[i + 1]
          BY <1>5
      <3>2. \A k \in DOMAIN batch : batch[k][1] = low[c][1] => batch[k][2] <= low[c][2]
          BY <1>1 DEF LowInv
      <3> QED
          BY <3>1, <3>2
<1>10. ThreadsInv'
    BY <1>1, <1>2, <1>4 DEF ThreadsInv, Fresh, WriterTyped
<1> QED
    BY <1>1, <1>4, <1>6, <1>7, <1>8, <1>9, <1>10 DEF WriterInv, CriticalInv

LEMMA SentinelKeeps == ASSUME WriterInv, TakeSentinel PROVE WriterInv'
<1>1. /\ WriterTyped /\ BatchFirst /\ LowInv /\ BatchInv /\ CriticalInv /\ ThreadsInv
      /\ UNCHANGED <<low, batch, coordinator, producer, written>>
      /\ writer' = "last" /\ critical # <<>> /\ critical' = Tail(critical)
    BY DEF WriterInv, TakeSentinel
<1>2. /\ critical' \in Seq(Writes \union {Sentinel})
      /\ \A i \in DOMAIN critical' :
            i \in Int /\ i + 1 \in DOMAIN critical /\ critical'[i] = critical[i + 1]
    BY <1>1 DEF WriterTyped
<1>3. CriticalInv'
  <2> SUFFICES ASSUME NEW i \in DOMAIN critical', critical'[i] # Sentinel
               PROVE  /\ producer'[critical'[i][1]].at = "blocked"
                      /\ critical'[i][2] = producer'[critical'[i][1]].events
                      /\ \A j \in DOMAIN critical' :
                            i # j /\ critical'[j] # Sentinel => critical'[i][1] # critical'[j][1]
      BY DEF CriticalInv
  <2>1. \A j \in DOMAIN critical' : i # j => i + 1 # j + 1
      BY <1>2
  <2> QED
      BY <1>1, <1>2, <2>1 DEF CriticalInv
<1> QED
    BY <1>1, <1>2, <1>3 DEF WriterInv, WriterTyped, BatchFirst, LowInv, BatchInv, ThreadsInv, Fresh

LEMMA RestKeeps ==
    ASSUME WriterInv, NotFlushed \/ WriterEnds \/ UNCHANGED writerVars PROVE WriterInv'
<1>1. /\ WriterTyped /\ BatchFirst /\ LowInv /\ BatchInv /\ CriticalInv /\ ThreadsInv
      /\ UNCHANGED <<critical, low, batch, coordinator, producer, written>>
      /\ \/ writer' = writer
         \/ writer' = "get" /\ writer = "committed"
         \/ writer' = "done" /\ batch = <<>>
    BY DEF WriterInv, NotFlushed, WriterEnds, writerVars
<1> QED
    BY <1>1 DEF WriterInv, WriterTyped, BatchFirst, LowInv, BatchInv, CriticalInv, ThreadsInv, Fresh

LEMMA NextWriter ==
    WriterInv /\ [WriterNext]_writerVars =>
        WriterInv' /\ \A p \in Producers : written[p] <= written'[p]
<1> SUFFICES ASSUME WriterInv, [WriterNext]_writerVars
             PROVE  WriterInv' /\ \A p \in Producers : written[p] <= written'[p]
    OBVIOUS
<1>1. WriterInv'
    BY HeartbeatKeeps, BoundaryKeeps, CriticalKeeps, CloseKeeps, TakeKeeps, FlushKeeps,
       CommitKeeps, SentinelKeeps, RestKeeps DEF WriterNext, WriterStep
<1>2. CASE UNCHANGED written
    BY <1>1, <1>2, ThreadsTyped DEF WriterInv
<1>3. UNCHANGED written \/ TakeCritical \/ CommitLow
    BY DEF WriterNext, WriterStep, writerVars, TakeSentinel, NotFlushed, FlushLow, WriterEnds,
           CloseCoordinator, Heartbeat, Boundary, Critical
<1> QED
    BY <1>1, <1>2, <1>3, TakeKeeps, CommitKeeps

\* The journal never goes back: whatever threads, flush and boundaries do, no
\* event of a thread is written after a later one of its own, for any number of
\* threads, campaigns and events, and any size of a batch.
THEOREM JournalNeverGoesBack == WriterSpec => NoEventComesBack
<1>1. WriterInv /\ [WriterNext]_writerVars
         => WriterInv' /\ [\A p \in Producers : written[p] <= written'[p]]_writerVars
    BY NextWriter
<1> QED
    BY <1>1, InitWriter, PTL DEF WriterSpec, NoEventComesBack

(***************************************************************************)
(* The paired runtime.  Sums of fills are left out: what the projection    *)
(* says was generated is a fold over the ledger.                           *)
(***************************************************************************)
Fields == {"status", "stage", "active", "completed", "pause", "verified", "exposure",
           "generated", "base", "wait"}
OpFields == {"at", "by", "seen", "result"}
Done == {"completed", "recorded", "manual"}

Shapes ==
    /\ DOMAIN inst = Fields /\ inst.completed \in 0..MaxCycles
    /\ DOMAIN op = OpFields
    /\ DOMAIN journal = Cycles /\ \A n \in Cycles : DOMAIN journal[n] = {"status", "leg"}

\* What the operation that holds the lock may rely on, from await to await.
HeldInv ==
    /\ op.at # "publish" => op.result = "none"
    /\ op.at = "allocate" => inst.status = "running" /\ Record = "none" /\ Sequence \in Cycles
    /\ op.at = "open" => Record = "planned"
    /\ op.at = "close" => Record = "opened"
    /\ op.at = "check" => BetaPaused
    /\ op.at = "cancel" /\ op.by = "gone" => ~doubt
    /\ op.at = "publish" /\ op.result \in Done => Record = "completed"

\* The projection and the journal agree on which cycle is next.
InOrder ==
    \A n \in Cycles : /\ n <= inst.completed => journal[n].status = "completed"
                      /\ n > inst.completed + 1 => journal[n].status = "none"

DoubtInv == doubt => inst.status \in {"error", "stopped"} /\ inst.pause # "none"

PairedInv == Shapes /\ HeldInv /\ InOrder /\ FillsAreJournalled /\ DoubtInv

LEMMA FillFacts ==
    ASSUME NEW n, NEW m, NEW phase, NEW L
    PROVE  /\ Fill(n, "close") \cap Fill(m, "close") # {} => n = m
           /\ Fill(n, "close") \cap Fill(m, "open") = {}
           /\ Fill(n, "close") \cap {<<m, "close", leg>> : leg \in L} # {} => n = m
           /\ Fill(n, "close") \cap {<<m, "snapshot", leg>> : leg \in L} = {}
BY DEF Fill

LEMMA InitPaired == PairedInit => PairedInv
<1> SUFFICES ASSUME PairedInit PROVE PairedInv
    OBVIOUS
<1> USE PairedAssumption DEF PairedInit
<1>1. Shapes
    BY DEF Shapes, Fields, OpFields, Idle, Cycles
<1>2. HeldInv /\ DoubtInv
    BY DEF HeldInv, DoubtInv, Idle
<1>3. InOrder /\ FillsAreJournalled
    BY DEF InOrder, FillsAreJournalled, Cycles
<1> QED
    BY <1>1, <1>2, <1>3 DEF PairedInv

\* A step that writes no record and counts no cycle.
LEMMA NothingJournalled ==
    ASSUME Shapes, InOrder, FillsAreJournalled, UNCHANGED <<journal, ledger>>,
           inst'.completed = inst.completed
    PROVE  InOrder' /\ FillsAreJournalled' /\ Sequence' = Sequence /\ Record' = Record
BY DEF InOrder, FillsAreJournalled, Fill, Sequence, Record

\* A step that gives the record of the cycle its next status.
LEMMA Journalled ==
    ASSUME Shapes, InOrder, FillsAreJournalled, Sequence \in Cycles,
           inst'.completed = inst.completed, ledger \subseteq ledger',
           NEW s, s # "none", journal'[Sequence].status = s,
           \A n \in Cycles \ {Sequence} : journal'[n].status = journal[n].status,
           s \in {"opened", "completed"} => Fill(Sequence, "open") \subseteq ledger',
           \A n \in Cycles : Fill(n, "close") \cap ledger' # {} =>
               \/ n = Sequence /\ s \in {"completed", "uncertain"}
               \/ n # Sequence /\ Fill(n, "close") \cap ledger # {}
    PROVE  InOrder' /\ FillsAreJournalled' /\ Sequence' = Sequence /\ Record' = s
<1>1. Sequence' = Sequence /\ Sequence = inst.completed + 1 /\ inst.completed \in Nat
    BY DEF Sequence, Shapes
<1>2. Record' = s
    BY <1>1 DEF Record
<1>3. \A n \in Cycles : n \in Int
    BY PairedAssumption DEF Cycles
<1>4. InOrder'
    BY <1>1, <1>3 DEF InOrder
<1>5. \A n \in Cycles : Fill(n, "open")' = Fill(n, "open") /\ Fill(n, "close")' = Fill(n, "close")
    BY DEF Fill
<1>6. FillsAreJournalled'
    BY <1>5 DEF FillsAreJournalled
<1> QED
    BY <1>1, <1>2, <1>4, <1>6

LEMMA RecordFacts ==
    ASSUME Shapes, FillsAreJournalled, Record # "none"
    PROVE  /\ Sequence \in Cycles /\ Record = journal[Sequence].status
           /\ Record \in {"opened", "completed"} => Fill(Sequence, "open") \subseteq ledger
           /\ Record \notin {"completed", "uncertain"} => Fill(Sequence, "close") \cap ledger = {}
BY DEF Record, FillsAreJournalled

LEMMA FinishFacts ==
    ASSUME Shapes, Sequence \in Cycles, NEW s, Finish(s)
    PROVE  /\ DOMAIN journal' = Cycles /\ \A n \in Cycles : DOMAIN journal'[n] = {"status", "leg"}
           /\ journal'[Sequence].status = s
           /\ \A n \in Cycles \ {Sequence} : journal'[n].status = journal[n].status
BY DEF Shapes, Finish

-----------------------------------------------------------------------------
(* Operator, Beta service, and the steps of a poll that only look.           *)

LEMMA OperatorKeeps == ASSUME PairedInv, Operator \/ Poll("poll") PROVE PairedInv'
<1>1. Shapes /\ HeldInv /\ InOrder /\ FillsAreJournalled /\ DoubtInv
    BY DEF PairedInv
<1>2. UNCHANGED <<journal, ledger>>
    BY DEF Operator, Start, Pause, Stop, Flatten, BetaDown, BetaUp, Poll
<1>3. DOMAIN inst' = Fields /\ inst'.completed = inst.completed /\ DOMAIN op' = OpFields
    BY <1>1 DEF Operator, Start, Pause, Stop, Flatten, BetaDown, BetaUp, Poll, Shapes, Fields,
                OpFields, Idle
<1>4. Shapes' /\ InOrder' /\ FillsAreJournalled'
    BY <1>1, <1>2, <1>3, NothingJournalled DEF Shapes
<1>5. /\ op'.at \in {"idle", "cancel", "collect"} /\ op'.result = "none"
      /\ op'.at = "cancel" => op'.by # "gone"
    BY <1>1 DEF Operator, Start, Pause, Stop, Flatten, BetaDown, BetaUp, Poll, HeldInv, Idle
<1>6. HeldInv'
    BY <1>5 DEF HeldInv
<1>7. DoubtInv'
    BY <1>1 DEF Operator, Start, Pause, Stop, Flatten, BetaDown, BetaUp, BetaPaused, Poll,
                DoubtInv, Shapes, Fields
<1> QED
    BY <1>4, <1>6, <1>7 DEF PairedInv

\* A poll that only looks, and what may stop it.
Looks == \/ PollFails \/ FoundMismatch \/ JustLook \/ LookAtBeta
         \/ CloseDue \/ NotDue \/ AskAllocation

LEMMA LooksKeep == ASSUME PairedInv, Looks PROVE PairedInv'
<1>1. Shapes /\ HeldInv /\ InOrder /\ FillsAreJournalled /\ DoubtInv
    BY DEF PairedInv
<1>2. UNCHANGED <<journal, ledger, doubt>>
    BY DEF Looks, PollFails, FoundMismatch, JustLook, LookAtBeta, CloseDue, NotDue, AskAllocation
<1>3. CASE PollFails
  <2>1. /\ DOMAIN inst' = Fields /\ inst'.completed = inst.completed /\ inst'.pause = inst.pause
        /\ inst'.status = inst.status \/ inst.status \in {"running", "warning"}
        /\ op' = Idle
      BY <1>1, <1>3 DEF PollFails, Suspended, Shapes, Fields
  <2>2. Shapes' /\ InOrder' /\ FillsAreJournalled'
      BY <1>1, <1>2, <2>1, NothingJournalled DEF Shapes, Idle, OpFields
  <2> QED
      BY <1>1, <1>2, <2>1, <2>2 DEF PairedInv, HeldInv, DoubtInv, Idle
<1>4. CASE FoundMismatch
  <2>1. /\ DOMAIN inst' = Fields /\ inst'.completed = inst.completed
        /\ DOMAIN op' = OpFields /\ op'.at = "cancel" /\ op'.result = "none"
        /\ inst.status \in {"running", "paused"}
      BY <1>1, <1>4 DEF FoundMismatch, Mismatched, Watching, Shapes, Fields, OpFields
  <2>2. Shapes' /\ InOrder' /\ FillsAreJournalled'
      BY <1>1, <1>2, <2>1, NothingJournalled DEF Shapes
  <2> QED
      BY <1>1, <1>2, <2>1, <2>2 DEF PairedInv, HeldInv, DoubtInv
<1>5. CASE JustLook \/ LookAtBeta \/ CloseDue \/ NotDue \/ AskAllocation
  <2>1. /\ inst' = inst /\ DOMAIN op' = OpFields /\ op'.result = "none"
        /\ op'.at \in {"publish", "check", "close", "allocate"}
      BY <1>1, <1>5 DEF JustLook, LookAtBeta, CloseDue, NotDue, AskAllocation, Executing, Shapes,
                        OpFields, HeldInv
  <2>2. Shapes' /\ InOrder' /\ FillsAreJournalled' /\ Sequence' = Sequence /\ Record' = Record
      BY <1>1, <1>2, <2>1, NothingJournalled DEF Shapes
  <2>3. /\ op'.at = "close" => Record = "opened"
        /\ op'.at = "check" => BetaPaused
        /\ op'.at = "allocate" => inst.status = "running" /\ Record = "none" /\ Sequence \in Cycles
      BY <1>1, <1>5 DEF JustLook, LookAtBeta, CloseDue, NotDue, AskAllocation, Executing, Shapes,
                        OpFields
  <2> QED
      BY <1>1, <1>2, <2>1, <2>2, <2>3 DEF PairedInv, HeldInv, DoubtInv, BetaPaused, Done
<1> QED
    BY <1>3, <1>4, <1>5 DEF Looks

LEMMA CheckKeeps == ASSUME PairedInv, NEW available \in BOOLEAN, CheckAllocation(available) PROVE PairedInv'
<1>1. Shapes /\ HeldInv /\ InOrder /\ FillsAreJournalled /\ DoubtInv
    BY DEF PairedInv
<1>2. /\ UNCHANGED <<journal, ledger, doubt>> /\ DOMAIN inst' = Fields
      /\ inst'.completed = inst.completed /\ DOMAIN op' = OpFields /\ op'.at = "publish"
      /\ op'.result = "none" /\ inst.status = "paused"
    BY <1>1 DEF CheckAllocation, Shapes, Fields, OpFields, HeldInv, BetaPaused
<1>3. Shapes' /\ InOrder' /\ FillsAreJournalled'
    BY <1>1, <1>2, NothingJournalled DEF Shapes
<1> QED
    BY <1>1, <1>2, <1>3 DEF PairedInv, HeldInv, DoubtInv, Done

LEMMA UnavailableKeeps == ASSUME PairedInv, Unavailable PROVE PairedInv'
<1>1. Shapes /\ HeldInv /\ InOrder /\ FillsAreJournalled /\ DoubtInv
    BY DEF PairedInv
<1>2. /\ UNCHANGED <<journal, ledger, doubt>> /\ DOMAIN inst' = Fields
      /\ inst'.completed = inst.completed /\ DOMAIN op' = OpFields /\ op'.at = "cancel"
      /\ op'.by = "unavailable" /\ op'.result = "none" /\ inst.status = "running"
    BY <1>1 DEF Unavailable, Shapes, Fields, OpFields, HeldInv
<1>3. Shapes' /\ InOrder' /\ FillsAreJournalled'
    BY <1>1, <1>2, NothingJournalled DEF Shapes
<1> QED
    BY <1>1, <1>2, <1>3 DEF PairedInv, HeldInv, DoubtInv

-----------------------------------------------------------------------------
(* The cycle.                                                                *)

LEMMA RecordFoundKeeps == ASSUME PairedInv, RecordFound PROVE PairedInv'
<1>1. Shapes /\ HeldInv /\ InOrder /\ FillsAreJournalled /\ DoubtInv
    BY DEF PairedInv
<1>2. /\ UNCHANGED <<inst, ledger, doubt>> /\ Record # "none" /\ DOMAIN op' = OpFields
      /\ op'.at = "publish"
    BY <1>1 DEF RecordFound, Executing, Shapes, OpFields
<1> DEFINE s == IF Record = "planned" THEN "uncertain" ELSE Record
<1>3. Finish(s) /\ (op'.result \in Done => s = "completed")
    BY <1>1 DEF RecordFound, Shapes, OpFields, Done
<1>4. /\ Sequence \in Cycles /\ s # "none"
      /\ s \in {"opened", "completed"} => Record = s
      /\ s \notin {"completed", "uncertain"} => Record \notin {"completed", "uncertain"}
    BY <1>1, <1>2, RecordFacts
<1>5. /\ s \in {"opened", "completed"} => Fill(Sequence, "open") \subseteq ledger
      /\ Fill(Sequence, "close") \cap ledger # {} => s \in {"completed", "uncertain"}
    BY <1>1, <1>2, <1>4, RecordFacts
<1> HIDE DEF s
<1>6. /\ DOMAIN journal' = Cycles /\ \A n \in Cycles : DOMAIN journal'[n] = {"status", "leg"}
      /\ journal'[Sequence].status = s
      /\ \A n \in Cycles \ {Sequence} : journal'[n].status = journal[n].status
    BY <1>1, <1>3, <1>4, FinishFacts
<1>7. Shapes' /\ InOrder' /\ FillsAreJournalled' /\ Record' = s
    BY <1>1, <1>2, <1>4, <1>5, <1>6, Journalled DEF Shapes
<1> QED
    BY <1>1, <1>2, <1>3, <1>7 DEF PairedInv, HeldInv, DoubtInv

LEMMA PlanKeeps == ASSUME PairedInv, Plan PROVE PairedInv'
<1>1. Shapes /\ HeldInv /\ InOrder /\ FillsAreJournalled /\ DoubtInv
    BY DEF PairedInv
<1>2. /\ UNCHANGED <<inst, ledger, doubt>> /\ Record = "none" /\ DOMAIN op' = OpFields
      /\ op'.at = "open" /\ op'.result = "none" /\ Sequence \in Cycles
    BY <1>1 DEF Plan, Shapes, OpFields, HeldInv
<1>3. PICK leg : Begin(leg)
    BY DEF Plan
<1>4. /\ DOMAIN journal' = Cycles /\ \A n \in Cycles : DOMAIN journal'[n] = {"status", "leg"}
      /\ journal'[Sequence].status = "planned"
      /\ \A n \in Cycles \ {Sequence} : journal'[n].status = journal[n].status
    BY <1>1, <1>2, <1>3 DEF Begin, Shapes
<1>5. Fill(Sequence, "close") \cap ledger = {}
    BY <1>1, <1>2 DEF Record, FillsAreJournalled
<1>6. Shapes' /\ InOrder' /\ FillsAreJournalled' /\ Record' = "planned"
    BY <1>1, <1>2, <1>4, <1>5, Journalled DEF Shapes
<1> QED
    BY <1>1, <1>2, <1>6 DEF PairedInv, HeldInv, DoubtInv

\* The ledger gains, if anything, fills of the phase that is under way.
LEMMA ExecutionKeeps ==
    ASSUME PairedInv, Opened \/ Rejected \/ Unknown \/ Closed PROVE PairedInv'
<1>1. Shapes /\ HeldInv /\ InOrder /\ FillsAreJournalled /\ DoubtInv
    BY DEF PairedInv
<1>2. /\ UNCHANGED <<inst, doubt>> /\ DOMAIN op' = OpFields /\ op'.at = "publish"
      /\ op.at \in {"open", "close"}
    BY <1>1 DEF Opened, Rejected, Unknown, Closed, Shapes, OpFields
<1>3. /\ Record = (IF op.at = "open" THEN "planned" ELSE "opened")
      /\ Sequence \in Cycles
      /\ op.at = "close" => Fill(Sequence, "open") \subseteq ledger
      /\ Fill(Sequence, "close") \cap ledger = {}
    BY <1>1, <1>2, RecordFacts DEF HeldInv
<1>4. PICK s \in {"opened", "rejected", "uncertain", "completed"} :
         /\ Finish(s)
         /\ op'.result \in Done => s = "completed"
         /\ s = "opened" => ledger' = ledger \union Fill(Sequence, "open")
         /\ s = "completed" => op.at = "close" /\ ledger' = ledger \union Fill(Sequence, "close")
         /\ s = "rejected" => ledger' = ledger
         /\ s = "uncertain" => \E f \in {{}, Fill(Sequence, "open"), Fill(Sequence, "close")} :
                                  ledger' = ledger \union f
    BY <1>1, <1>2 DEF Opened, Rejected, Unknown, Closed, Done, Shapes, OpFields, Phase
<1>5. \E f \in {{}, Fill(Sequence, "open"), Fill(Sequence, "close")} :
          /\ ledger' = ledger \union f
          /\ f = Fill(Sequence, "close") => s \in {"completed", "uncertain"}
  <2>a. Fill(Sequence, "close") # {} /\ Fill(Sequence, "open") # Fill(Sequence, "close")
    <3>1. <<Sequence, "close", "btc">> \in Fill(Sequence, "close")
        BY DEF Fill, Legs
    <3>2. <<Sequence, "close", "btc">> \notin Fill(Sequence, "open")
        BY DEF Fill
    <3> QED
        BY <3>1, <3>2
  <2>1. CASE s = "rejected"
    <3>1. ledger' = ledger \union {}
        BY <1>4, <2>1
    <3> QED
        BY <2>a, <3>1
  <2>2. CASE s = "opened"
      BY <1>4, <2>2, <2>a
  <2>3. CASE s \in {"completed", "uncertain"}
      BY <1>4, <2>3
  <2> QED
      BY <1>4, <2>1, <2>2, <2>3
<1>6. /\ ledger \subseteq ledger'
      /\ s \in {"opened", "completed"} => Fill(Sequence, "open") \subseteq ledger'
    BY <1>3, <1>4, <1>5
<1>7. \A n \in Cycles : Fill(n, "close") \cap ledger' # {} =>
          \/ n = Sequence /\ s \in {"completed", "uncertain"}
          \/ n # Sequence /\ Fill(n, "close") \cap ledger # {}
  <2> SUFFICES ASSUME NEW n \in Cycles, Fill(n, "close") \cap ledger' # {}
               PROVE  \/ n = Sequence /\ s \in {"completed", "uncertain"}
                      \/ n # Sequence /\ Fill(n, "close") \cap ledger # {}
      OBVIOUS
  <2>1. PICK f \in {{}, Fill(Sequence, "open"), Fill(Sequence, "close")} :
            /\ ledger' = ledger \union f
            /\ f = Fill(Sequence, "close") => s \in {"completed", "uncertain"}
      BY <1>5
  <2>2. CASE Fill(n, "close") \cap f = {}
      BY <1>3, <2>1, <2>2
  <2>3. CASE Fill(n, "close") \cap f # {}
      BY <1>3, <2>1, <2>3, FillFacts
  <2> QED
      BY <2>2, <2>3
<1>8. /\ DOMAIN journal' = Cycles /\ \A n \in Cycles : DOMAIN journal'[n] = {"status", "leg"}
      /\ journal'[Sequence].status = s
      /\ \A n \in Cycles \ {Sequence} : journal'[n].status = journal[n].status
    BY <1>1, <1>3, <1>4, FinishFacts
<1>9. Shapes' /\ InOrder' /\ FillsAreJournalled' /\ Record' = s
    BY <1>1, <1>2, <1>3, <1>4, <1>6, <1>7, <1>8, Journalled DEF Shapes
<1> QED
    BY <1>1, <1>2, <1>4, <1>9 DEF PairedInv, HeldInv, DoubtInv

-----------------------------------------------------------------------------
(* Cancellation, the close by the operator, and the end of a poll.           *)

LEMMA CancelKeeps ==
    ASSUME PairedInv, Unverified \/ Verified \/ VerifiedFlatten PROVE PairedInv'
<1>1. Shapes /\ HeldInv /\ InOrder /\ FillsAreJournalled /\ DoubtInv
    BY DEF PairedInv
<1>2. /\ UNCHANGED <<journal, ledger>> /\ op.at = "cancel" /\ op.result = "none"
    BY <1>1 DEF Unverified, Verified, VerifiedFlatten, HeldInv
<1>3. /\ DOMAIN op' = OpFields /\ op'.result = "none" /\ op'.at \in {"publish", "idle", "flatten"}
    BY <1>1, <1>2 DEF Unverified, Verified, VerifiedFlatten, Shapes, OpFields, Idle
<1>4. /\ DOMAIN inst' = Fields /\ inst'.completed = inst.completed
      /\ \/ doubt' = doubt /\ inst'.pause = inst.pause /\ inst'.status \in {inst.status, "error"}
         \/ inst'.status = "error" /\ inst'.pause # "none"
  <2>1. CASE Unverified
      BY <1>1, <2>1 DEF Unverified, CancelFailed, Shapes, Fields
  <2>2. CASE Verified
      BY <1>1, <2>2 DEF Verified, Shapes, Fields
  <2>3. CASE VerifiedFlatten
      BY <1>1, <2>3 DEF VerifiedFlatten, ExecutionFailed, Shapes, Fields
  <2> QED
      BY <2>1, <2>2, <2>3
<1>5. Shapes' /\ InOrder' /\ FillsAreJournalled'
    BY <1>1, <1>2, <1>3, <1>4, NothingJournalled DEF Shapes
<1> QED
    BY <1>1, <1>3, <1>4, <1>5 DEF PairedInv, HeldInv, DoubtInv, Done

\* The pair of the record is finished, and its fills of the closing are in the ledger.
LEMMA MatchedFacts ==
    ASSUME Shapes, InOrder, FillsAreJournalled, Matched, Finish("completed"),
           UNCHANGED ledger \/ ledger' = ledger \union CloseIds, inst'.completed = inst.completed
    PROVE  /\ InOrder' /\ FillsAreJournalled' /\ Record' = "completed" /\ Sequence' = Sequence
           /\ DOMAIN journal' = Cycles /\ \A n \in Cycles : DOMAIN journal'[n] = {"status", "leg"}
<1>1. /\ Sequence \in Cycles /\ Fill(Sequence, "open") \subseteq ledger
      /\ Fill(Sequence, "close") \cap ledger = {}
    BY RecordFacts DEF Matched
<1>2. CloseIds = {<<Sequence, "close", leg>> : leg \in inst.exposure}
    BY DEF CloseIds
<1>3. \A n \in Cycles : Fill(n, "close") \cap CloseIds # {} => n = Sequence
    BY <1>2, FillFacts
<1>4. \A n \in Cycles : Fill(n, "close") \cap ledger' # {} =>
          n = Sequence \/ Fill(n, "close") \cap ledger # {}
    BY <1>3
<1>5. /\ DOMAIN journal' = Cycles /\ \A n \in Cycles : DOMAIN journal'[n] = {"status", "leg"}
      /\ journal'[Sequence].status = "completed"
      /\ \A n \in Cycles \ {Sequence} : journal'[n].status = journal[n].status
    BY <1>1, FinishFacts
<1>6. ledger \subseteq ledger' /\ Fill(Sequence, "open") \subseteq ledger'
    BY <1>1
<1>7. \A n \in Cycles : Fill(n, "close") \cap ledger' # {} =>
          \/ n = Sequence /\ "completed" \in {"completed", "uncertain"}
          \/ n # Sequence /\ Fill(n, "close") \cap ledger # {}
    BY <1>4
<1> QED
    BY <1>1, <1>5, <1>6, <1>7, Journalled

LEMMA GoneKeeps == ASSUME PairedInv, VerifiedGone PROVE PairedInv'
<1>1. Shapes /\ HeldInv /\ InOrder /\ FillsAreJournalled /\ DoubtInv
    BY DEF PairedInv
<1>2. ~doubt /\ ~doubt' /\ UNCHANGED ledger /\ op'.at = "publish" /\ DOMAIN op' = OpFields
    BY <1>1 DEF VerifiedGone, HeldInv, Shapes, OpFields
<1>3. CASE Matched
  <2>1. Finish("completed") /\ inst' = inst
      BY <1>3 DEF VerifiedGone
  <2> QED
      BY <1>1, <1>2, <1>3, <2>1, MatchedFacts DEF PairedInv, Shapes, HeldInv, DoubtInv
<1>4. CASE ~Matched
  <2>1. /\ journal' = journal /\ DOMAIN inst' = Fields /\ inst'.completed = inst.completed
        /\ op'.result = "none"
      BY <1>1, <1>4 DEF VerifiedGone, Mismatched, Shapes, Fields, OpFields, HeldInv
  <2>2. Shapes' /\ InOrder' /\ FillsAreJournalled'
      BY <1>1, <1>2, <2>1, NothingJournalled DEF Shapes
  <2> QED
      BY <1>1, <1>2, <2>1, <2>2 DEF PairedInv, HeldInv, DoubtInv, Done
<1> QED
    BY <1>3, <1>4

LEMMA RestsKeep ==
    ASSUME PairedInv, RoundPauseOver \/ (\E legs \in Positions \ {Legs} : Hand(legs))
                        \/ UNCHANGED pairedVars
    PROVE  PairedInv'
<1>1. Shapes /\ HeldInv /\ InOrder /\ FillsAreJournalled /\ DoubtInv
    BY DEF PairedInv
<1>2. /\ UNCHANGED <<journal, ledger, op, doubt>> /\ DOMAIN inst' = Fields
      /\ inst'.completed = inst.completed /\ inst'.status = inst.status /\ inst'.pause = inst.pause
    BY <1>1 DEF RoundPauseOver, Hand, pairedVars, Shapes, Fields
<1>3. Shapes' /\ InOrder' /\ FillsAreJournalled' /\ Sequence' = Sequence /\ Record' = Record
    BY <1>1, <1>2, NothingJournalled DEF Shapes
<1> QED
    BY <1>1, <1>2, <1>3 DEF PairedInv, HeldInv, DoubtInv, BetaPaused

\* The close of the operator: the record of a matched pair is finished, another
\* exposure is closed as it stands, under fills that belong to no cycle.
LEMMA FlattenedKeeps == ASSUME PairedInv, Flattened PROVE PairedInv'
<1>1. Shapes /\ HeldInv /\ InOrder /\ FillsAreJournalled /\ DoubtInv
    BY DEF PairedInv
<1>2. /\ ledger' = ledger \union CloseIds /\ doubt' = doubt /\ op' = Idle
      /\ IF Matched THEN Finish("completed") ELSE journal' = journal
    BY DEF Flattened
<1>3. /\ DOMAIN inst' = Fields /\ inst'.pause = inst.pause
      /\ inst'.completed = (IF Matched THEN Sequence ELSE inst.completed)
      /\ inst'.status \in {inst.status, "stopped"}
    BY <1>1 DEF Flattened, Shapes, Fields
<1>4. HeldInv' /\ DoubtInv' /\ DOMAIN op' = OpFields
    BY <1>1, <1>2, <1>3 DEF HeldInv, DoubtInv, Idle, OpFields
<1>5. CASE Matched
  <2>1. /\ Sequence \in Cycles /\ Fill(Sequence, "open") \subseteq ledger
        /\ Fill(Sequence, "close") \cap ledger = {}
        /\ CloseIds = {<<Sequence, "close", leg>> : leg \in inst.exposure}
      BY <1>1, <1>5, RecordFacts DEF Matched, CloseIds
  <2>2. /\ DOMAIN journal' = Cycles /\ \A n \in Cycles : DOMAIN journal'[n] = {"status", "leg"}
        /\ journal'[Sequence].status = "completed"
        /\ \A n \in Cycles \ {Sequence} : journal'[n].status = journal[n].status
      BY <1>1, <1>2, <1>5, <2>1, FinishFacts
  <2>3. Sequence = inst.completed + 1 /\ inst.completed \in 0..MaxCycles
        /\ \A n \in Cycles : n \in Int
      BY <1>1, PairedAssumption DEF Sequence, Shapes, Cycles
  <2>4. inst'.completed = Sequence /\ Sequence \in 0..MaxCycles
      BY <1>3, <1>5, <2>1 DEF Cycles
  <2>5. InOrder'
      BY <1>1, <2>2, <2>3, <2>4 DEF InOrder
  <2>6. \A n \in Cycles : Fill(n, "close") \cap CloseIds # {} => n = Sequence
      BY <2>1, FillFacts
  <2>7. \A n \in Cycles : Fill(n, "open")' = Fill(n, "open") /\ Fill(n, "close")' = Fill(n, "close")
      BY DEF Fill
  <2>8. FillsAreJournalled'
    <3> SUFFICES ASSUME NEW n \in Cycles
                 PROVE  /\ journal'[n].status \in {"opened", "completed"} => Fill(n, "open") \subseteq ledger'
                        /\ Fill(n, "close") \cap ledger' # {} => journal'[n].status \in {"completed", "uncertain"}
        BY <2>7 DEF FillsAreJournalled
    <3>1. CASE n = Sequence
        BY <1>2, <2>1, <2>2, <3>1
    <3>2. CASE n # Sequence
        BY <1>1, <1>2, <2>2, <2>6, <3>2 DEF FillsAreJournalled
    <3> QED
        BY <3>1, <3>2
  <2> QED
      BY <1>1, <1>3, <1>4, <2>2, <2>4, <2>5, <2>8 DEF PairedInv, Shapes
<1>6. CASE ~Matched
  <2>1. journal' = journal /\ inst'.completed = inst.completed
      BY <1>2, <1>3, <1>6
  <2>2. CloseIds = {<<inst.completed, "snapshot", leg>> : leg \in inst.exposure}
      BY <1>6 DEF CloseIds
  <2>3. \A n \in Cycles : Fill(n, "close") \cap CloseIds = {}
      BY <2>2, FillFacts
  <2>4. FillsAreJournalled'
    <3>1. \A n \in Cycles : Fill(n, "open")' = Fill(n, "open") /\ Fill(n, "close")' = Fill(n, "close")
        BY DEF Fill
    <3> QED
        BY <1>1, <1>2, <2>1, <2>3, <3>1 DEF FillsAreJournalled
  <2>5. InOrder' /\ Shapes'
      BY <1>1, <1>3, <1>4, <2>1 DEF InOrder, Shapes
  <2> QED
      BY <1>4, <2>4, <2>5 DEF PairedInv
<1> QED
    BY <1>5, <1>6

LEMMA FlattenFailsKeeps ==
    ASSUME PairedInv, NEW how \in {"rejected", "uncertain", "timeout"}, FlattenFails(how)
    PROVE  PairedInv'
<1>1. Shapes /\ HeldInv /\ InOrder /\ FillsAreJournalled /\ DoubtInv
    BY DEF PairedInv
<1>2. /\ ledger' = ledger /\ doubt' = doubt /\ op' = Idle /\ DOMAIN op' = OpFields
      /\ IF how = "timeout" \/ ~Matched THEN journal' = journal ELSE Finish(how)
    BY DEF FlattenFails, Idle, OpFields
<1>3. /\ DOMAIN inst' = Fields /\ inst'.pause = inst.pause /\ inst'.completed = inst.completed
      /\ inst'.status = "error"
    BY <1>1 DEF FlattenFails, ExecutionFailed, Shapes, Fields
<1>4. HeldInv' /\ DoubtInv'
    BY <1>1, <1>2, <1>3 DEF HeldInv, DoubtInv, Idle
<1>5. CASE journal' = journal
    BY <1>1, <1>2, <1>3, <1>4, <1>5, NothingJournalled DEF PairedInv, Shapes
<1>6. CASE Matched /\ how # "timeout" /\ Finish(how)
  <2>1. Sequence \in Cycles /\ Fill(Sequence, "close") \cap ledger = {}
      BY <1>1, <1>6, RecordFacts DEF Matched
  <2>2. /\ DOMAIN journal' = Cycles /\ \A n \in Cycles : DOMAIN journal'[n] = {"status", "leg"}
        /\ journal'[Sequence].status = how
        /\ \A n \in Cycles \ {Sequence} : journal'[n].status = journal[n].status
      BY <1>1, <1>6, <2>1, FinishFacts
  <2>3. InOrder' /\ FillsAreJournalled'
      BY <1>1, <1>2, <1>3, <1>6, <2>1, <2>2, Journalled
  <2> QED
      BY <1>1, <1>2, <1>3, <1>4, <2>2, <2>3 DEF PairedInv, Shapes
<1> QED
    BY <1>2, <1>5, <1>6

\* What is projected: the cycle is counted once its record has completed.
LEMMA ObservedFacts ==
    ASSUME Shapes, HeldInv, op.at = "publish"
    PROVE  /\ DOMAIN Observed = Fields /\ Observed.status = inst.status
           /\ Observed.pause = inst.pause
           /\ Observed.completed =
                 (IF op.result \in {"completed", "recorded", "manual"} THEN Sequence ELSE inst.completed)
           /\ op.result \in {"completed", "recorded", "manual"} =>
                 Sequence \in Cycles /\ journal[Sequence].status = "completed"
<1>1. op.result \in {"completed", "recorded", "manual"} => Record = "completed"
    BY DEF HeldInv, Done
<1> QED
    BY <1>1 DEF Observed, Record, Shapes, Fields

\* A count that follows the record.
LEMMA CountedInOrder ==
    ASSUME Shapes, InOrder, FillsAreJournalled, UNCHANGED <<journal, ledger>>,
           \/ inst'.completed = inst.completed
           \/ /\ inst'.completed = Sequence /\ Sequence \in Cycles
              /\ journal[Sequence].status = "completed"
    PROVE  InOrder' /\ FillsAreJournalled' /\ inst'.completed \in 0..MaxCycles
<1>1. FillsAreJournalled'
    BY DEF FillsAreJournalled, Fill
<1>2. Sequence = inst.completed + 1 /\ inst.completed \in 0..MaxCycles
      /\ \A n \in Cycles : n \in Int
    BY PairedAssumption DEF Sequence, Shapes, Cycles
<1>3. inst'.completed \in 0..MaxCycles
    BY <1>2 DEF Cycles
<1>4. InOrder'
    BY <1>2 DEF InOrder
<1> QED
    BY <1>1, <1>3, <1>4

LEMMA PublishKeeps ==
    ASSUME PairedInv, Publish \/ \E applied \in BOOLEAN : PublishFails(applied) PROVE PairedInv'
<1>1. Shapes /\ HeldInv /\ InOrder /\ FillsAreJournalled /\ DoubtInv /\ op.at = "publish"
    BY DEF PairedInv, Publish, PublishFails
<1>2. /\ UNCHANGED <<journal, ledger, doubt>> /\ op' = Idle
      /\ \/ inst' = Projected(Observed)
         \/ inst' = Suspended(Observed)
         \/ inst' = Suspended(inst)
    BY DEF Publish, PublishFails
<1> DEFINE Said(p) == /\ DOMAIN p = Fields /\ p.pause = inst.pause
                      /\ p.status \in {inst.status, "error", "stopped"}
                            \/ inst.status \in {"running", "warning"}
                      /\ \/ p.completed = inst.completed
                         \/ /\ p.completed = Sequence /\ Sequence \in Cycles
                            /\ journal[Sequence].status = "completed"
<1>3. Said(inst) /\ Said(Observed)
    BY <1>1, ObservedFacts DEF Shapes
<1>4. \A p : Said(p) /\ p.status = inst.status => Said(Suspended(p))
    BY DEF Suspended, Fields
<1>5. \A p : Said(p) => Said(Projected(p))
  <2> SUFFICES ASSUME NEW p, Said(p) PROVE Said(Projected(p))
      OBVIOUS
  <2> DEFINE failed == [p EXCEPT !.status = "error"]
             gotOpened == [p EXCEPT !.stage = "holding", !.active = inst.completed + 1]
             done == [p EXCEPT !.stage = IF p.generated >= Target THEN "complete" ELSE "cooldown",
                               !.status = IF p.generated >= Target THEN "stopped" ELSE @,
                               !.active = 0, !.wait = ~(p.generated >= Target)]
  <2>1. Said(failed)
      BY DEF Fields
  <2>2. Said(gotOpened)
      BY DEF Fields
  <2>3. Said(done)
      BY DEF Fields
  <2>4. Projected(p) \in {failed, gotOpened, done, p}
      BY DEF Projected, ExecutionFailed
  <2> QED
      BY <2>1, <2>2, <2>3, <2>4
<1>6. Said(inst')
    BY <1>1, <1>2, <1>3, <1>4, <1>5, ObservedFacts
<1>7. InOrder' /\ FillsAreJournalled' /\ inst'.completed \in 0..MaxCycles
    BY <1>1, <1>2, <1>6, CountedInOrder
<1>8. Shapes'
    BY <1>1, <1>2, <1>6, <1>7 DEF Shapes, Idle, OpFields
<1>9. HeldInv' /\ DoubtInv'
    BY <1>1, <1>2, <1>6 DEF HeldInv, DoubtInv, Idle
<1> QED
    BY <1>7, <1>8, <1>9 DEF PairedInv

\* A restart gives up every record that is under way, with the fills it may have left.
LEMMA RestartKeeps == ASSUME PairedInv, Restart PROVE PairedInv'
<1>1. Shapes /\ HeldInv /\ InOrder /\ FillsAreJournalled /\ DoubtInv
    BY DEF PairedInv
<1>2. /\ op' = Idle /\ doubt' = doubt /\ DOMAIN inst' = Fields
      /\ inst'.completed = inst.completed /\ inst'.pause = inst.pause
      /\ inst'.status \in {inst.status, "stopped"}
    BY <1>1 DEF Restart, Rested, Shapes, Fields
<1>3. /\ DOMAIN journal' = Cycles
      /\ \A n \in Cycles :
            /\ DOMAIN journal'[n] = {"status", "leg"}
            /\ journal'[n].status = (IF journal[n].status \in Unresolved THEN "uncertain"
                                     ELSE journal[n].status)
    BY <1>1 DEF Restart, GiveUp, Shapes
<1>4. InOrder'
    BY <1>1, <1>2, <1>3 DEF InOrder, Unresolved
<1>5. PICK f : /\ ledger' = ledger \union f
               /\ \/ f = {}
                  \/ op.at = "open" /\ f = Fill(Sequence, "open")
                  \/ op.at = "close" /\ f = Fill(Sequence, "close")
                  \/ op.at = "flatten" /\ f = CloseIds
  <2>1. CASE op.at \in {"open", "close", "flatten"}
      BY <2>1 DEF Restart, Phase
  <2>2. CASE op.at \notin {"open", "close", "flatten"}
    <3>1. ledger' = ledger \union {}
        BY <2>2 DEF Restart
    <3> QED
        BY <3>1
  <2> QED
      BY <2>1, <2>2
<1>6. \A n \in Cycles : Fill(n, "close") \cap f # {} => journal[n].status = "opened"
  <2> SUFFICES ASSUME NEW n \in Cycles, Fill(n, "close") \cap f # {}
               PROVE  journal[n].status = "opened"
      OBVIOUS
  <2>1. op.at = "close" \/ (op.at = "flatten" /\ f = CloseIds)
      BY <1>5, FillFacts
  <2>2. CASE op.at = "close"
    <3>1. n = Sequence /\ Record = "opened"
        BY <1>1, <1>5, <2>2, FillFacts DEF HeldInv
    <3> QED
        BY <1>1, <3>1, RecordFacts
  <2>3. CASE op.at = "flatten" /\ f = CloseIds
    <3>1. Matched
        BY <2>3, FillFacts DEF CloseIds
    <3>2. Fill(n, "close") \cap {<<Sequence, "close", leg>> : leg \in inst.exposure} # {}
        BY <2>3, <3>1 DEF CloseIds
    <3>3. n = Sequence /\ Record = "opened"
        BY <3>1, <3>2 DEF Matched, Fill
    <3> QED
        BY <1>1, <3>3, RecordFacts
  <2> QED
      BY <2>1, <2>2, <2>3
<1>7. \A n \in Cycles : Fill(n, "open")' = Fill(n, "open") /\ Fill(n, "close")' = Fill(n, "close")
    BY DEF Fill
<1>8. FillsAreJournalled'
  <2> SUFFICES ASSUME NEW n \in Cycles
               PROVE  /\ journal'[n].status \in {"opened", "completed"} => Fill(n, "open") \subseteq ledger'
                      /\ Fill(n, "close") \cap ledger' # {} => journal'[n].status \in {"completed", "uncertain"}
      BY <1>7 DEF FillsAreJournalled
  <2>1. /\ journal[n].status \in {"opened", "completed"} => Fill(n, "open") \subseteq ledger
        /\ Fill(n, "close") \cap ledger # {} => journal[n].status \in {"completed", "uncertain"}
      BY <1>1 DEF FillsAreJournalled
  <2>2. Fill(n, "close") \cap ledger' # {} =>
            journal[n].status \in {"completed", "uncertain", "opened"}
      BY <1>5, <1>6, <2>1
  <2> QED
      BY <1>3, <1>5, <2>1, <2>2 DEF Unresolved
<1>9. Shapes' /\ HeldInv' /\ DoubtInv'
    BY <1>1, <1>2, <1>3 DEF Shapes, HeldInv, DoubtInv, Idle, OpFields
<1> QED
    BY <1>4, <1>8, <1>9 DEF PairedInv

LEMMA NextPaired == PairedInv /\ [PairedNext]_pairedVars => PairedInv'
<1> SUFFICES ASSUME PairedInv, [PairedNext]_pairedVars PROVE PairedInv'
    OBVIOUS
<1>1. CASE PollStep
  <2>1. CASE \E available \in BOOLEAN : CheckAllocation(available)
      BY <2>1, CheckKeeps
  <2>2. CASE \E how \in {"rejected", "uncertain", "timeout"} : FlattenFails(how)
      BY <2>2, FlattenFailsKeeps
  <2>3. CASE Looks
      BY <2>3, LooksKeep
  <2> QED
      BY <1>1, <2>1, <2>2, <2>3, RecordFoundKeeps, PlanKeeps, ExecutionKeeps, UnavailableKeeps,
         CancelKeeps, GoneKeeps, FlattenedKeeps, PublishKeeps DEF PollStep, Looks
<1>2. CASE Poll("poll") \/ Operator
    BY <1>2, OperatorKeeps
<1>3. CASE RoundPauseOver \/ (\E legs \in Positions \ {Legs} : Hand(legs)) \/ UNCHANGED pairedVars
    BY <1>3, RestsKeep
<1>4. CASE Restart
    BY <1>4, RestartKeeps
<1> QED
    BY <1>1, <1>2, <1>3, <1>4 DEF PairedNext

THEOREM PairedInvariant == PairedSpec => []PairedInv
<1> QED
    BY InitPaired, NextPaired, PTL DEF PairedSpec

\* An account whose cancellation could not be verified does not run until the
\* operator has stopped it, whatever polls, the Beta service, the owner of the
\* account and restarts do (record_order_cancel_failure, apply_action).
THEOREM DoubtIsHeld == PairedSpec => []UnverifiedStandsStill
<1>1. PairedInv => UnverifiedStandsStill
    BY DEF PairedInv, DoubtInv, UnverifiedStandsStill
<1> QED
    BY <1>1, PairedInvariant, PTL

LEMMA JournalFollows == PairedInv => JournalIsSound
<1> SUFFICES ASSUME PairedInv PROVE NoCycleOverDoubt
    BY DEF PairedInv, JournalIsSound
<1>1. Shapes /\ InOrder
    BY DEF PairedInv
<1>2. SUFFICES ASSUME NEW n \in Cycles, journal[n].status # "none", NEW m \in 1..(n - 1)
               PROVE  journal[m].status = "completed"
    BY DEF NoCycleOverDoubt
<1>3. m \in Cycles /\ m < n /\ n <= inst.completed + 1 /\ m \in Int /\ n \in Int
    BY <1>1, <1>2, PairedAssumption DEF InOrder, Shapes, Cycles
<1> QED
    BY <1>1, <1>3 DEF InOrder, Shapes

\* The journal of cycles is sound over timeouts, failed projections and restarts:
\* no cycle is planned over one that is in doubt, and the fills in the ledger are
\* those of the records.
THEOREM CyclesAreSound == PairedSpec => []JournalIsSound
<1> QED
    BY JournalFollows, PairedInvariant, PTL

(***************************************************************************)
(* The pool of leased resources.  The reference count of a lease bounds    *)
(* the threads that hold it from above (a sweep that raises leaves it      *)
(* counted), so a lease without references has no holder and may go.       *)
(***************************************************************************)
\* Who holds the lease of a key: it was handed out, and not yet given back.
Holds(t, k) == leaser[t].at \in {"sweep", "use"} /\ leaser[t].mine # 0 /\ leaser[t].key = k
Holders(k)  == {t \in Leasers : Holds(t, k)}
Opens(t)    == leaser[t].at = "open" \/ (leaser[t].at = "sweep" /\ leaser[t].mine = 0)

\* A lease is counted for each of its holders while the pool is open.
CountedInv == ~poolClosed => \A k \in LeaseKeys :
    /\ Cardinality(Holders(k)) <= leases[k].references
    /\ \A t \in Leasers : Holds(t, k) => leases[k].resource = leaser[t].mine
\* A key is opened by one thread, and has no lease meanwhile.
OpeningInv == \A t \in Leasers : Opens(t) =>
    /\ leaser[t].key \in opening
    /\ \A u \in Leasers : Opens(u) /\ leaser[u].key = leaser[t].key => u = t
OpenedInv == \A k \in opening : leases[k].resource = 0
\* A lease has an open resource of its own, which nobody is about to close.
AliveInv ==
    /\ \A k \in LeaseKeys : leases[k].resource # 0 =>
          /\ leases[k].resource \in alive /\ leases[k].resource <= opened
          /\ \A m \in LeaseKeys : leases[m].resource = leases[k].resource => m = k
          /\ \A t \in Leasers : leases[k].resource \notin leaser[t].stale
    /\ \A t \in Leasers : \A s \in leaser[t].stale : s <= opened
    /\ \A t \in Leasers : leaser[t].at = "use" => leaser[t].mine # 0

PoolInv == PoolTypeOK /\ CountedInv /\ OpeningInv /\ OpenedInv /\ AliveInv

LeaserRecords == [at : {"out", "asleep", "woken", "sweep", "open", "use"}, key : LeaseKeys,
                  mine : {0} \union Resources, stale : SUBSET Resources]

LEMMA OutsideTyped == Outside \in LeaserRecords /\ Outside.at = "out" /\ Outside.stale = {}
<1>1. (CHOOSE k \in LeaseKeys : TRUE) \in LeaseKeys
    BY PoolAssumption
<1> QED
    BY <1>1 DEF Outside, LeaserRecords

LEMMA HoldersAreFinite ==
    ASSUME NEW k PROVE IsFiniteSet(Holders(k)) /\ Cardinality(Holders(k)) \in Nat
BY PoolAssumption, FS_Subset, FS_CardinalityType DEF Holders

LEMMA HoldersAreFiniteLater ==
    ASSUME NEW k PROVE IsFiniteSet(Holders(k)') /\ Cardinality(Holders(k)') \in Nat
BY PoolAssumption, FS_Subset, FS_CardinalityType DEF Holders

LEMMA NobodyHolds ==
    ASSUME PoolInv, ~poolClosed, NEW k \in LeaseKeys,
           leases[k].references = 0 \/ leases[k].resource = 0, NEW t \in Leasers
    PROVE  ~Holds(t, k)
<1> SUFFICES ASSUME Holds(t, k) PROVE FALSE
    OBVIOUS
<1>1. leases[k].resource = leaser[t].mine /\ leases[k].references = 0
    BY DEF PoolInv, CountedInv, Holds
<1>2. Cardinality(Holders(k)) = 0
    BY <1>1, HoldersAreFinite DEF PoolInv, CountedInv
<1>3. Holders(k) = {}
    BY <1>2, HoldersAreFinite, FS_EmptySet
<1> QED
    BY <1>3 DEF Holders

\* What a step adds to the holders of a key, or takes away from them.
LEMMA HoldersMove ==
    ASSUME NEW k, NEW t \in Leasers,
           \A u \in Leasers : u # t => (Holds(u, k)' <=> Holds(u, k))
    PROVE  /\ ~Holds(t, k)' => Cardinality(Holders(k)') <= Cardinality(Holders(k))
           /\ ~Holds(t, k)' /\ Holds(t, k) => Cardinality(Holders(k)') = Cardinality(Holders(k)) - 1
                                            /\ Cardinality(Holders(k)) > 0
           /\ Holds(t, k) => Cardinality(Holders(k)') <= Cardinality(Holders(k))
           /\ Cardinality(Holders(k)') <= Cardinality(Holders(k)) + 1
<1>1. CASE Holds(t, k)' <=> Holds(t, k)
  <2>1. Holders(k)' = Holders(k)
    BY <1>1 DEF Holders
  <2> QED
    BY <1>1, <2>1, HoldersAreFinite
<1>2. CASE Holds(t, k)' /\ ~Holds(t, k)
  <2>1. Holders(k)' = Holders(k) \union {t} /\ t \notin Holders(k)
    BY <1>2 DEF Holders
  <2>2. Cardinality(Holders(k)') = Cardinality(Holders(k)) + 1
    BY <2>1, HoldersAreFinite, FS_AddElement
  <2> QED
    BY <1>2, <2>2, HoldersAreFinite
<1>3. CASE ~Holds(t, k)' /\ Holds(t, k)
  <2>1. Holders(k)' = Holders(k) \ {t} /\ t \in Holders(k)
    BY <1>3 DEF Holders
  <2>2. Cardinality(Holders(k)') = Cardinality(Holders(k)) - 1
    BY <2>1, HoldersAreFinite, FS_RemoveElement
  <2> QED
    BY <1>3, <2>2, HoldersAreFinite, HoldersAreFiniteLater
<1> QED
    BY <1>1, <1>2, <1>3

\* A turn of the acquiring loop: the thread had no lease and opened nothing, the entries
\* are the pool's without some that nobody holds, and what was taken out is stale.
LEMMA TurnKeeps ==
    ASSUME PoolInv, NEW t \in Leasers, leaser[t].at \in {"out", "woken"}, NEW key \in LeaseKeys,
           NEW entries \in [LeaseKeys -> [resource : {0} \union Resources, references : Nat]],
           NEW stale \in SUBSET Resources,
           \A k \in LeaseKeys : \/ entries[k] = leases[k]
                                \/ leases[k].references = 0 /\ entries[k] = NoLease,
           \A s \in stale : s <= opened /\ \A k \in LeaseKeys : entries[k].resource # s,
           Turn(t, key, entries, stale), UNCHANGED <<poolClosed, alive, opened, abandoned>>
    PROVE  PoolInv'
<1> USE PoolAssumption DEF PoolInv, PoolTypeOK, NoLease
<1>1. ~Holds(t, key) /\ ~Opens(t) /\ \A k \in LeaseKeys : ~Holds(t, k)
    BY DEF Holds, Opens
<1>2. PICK x \in LeaserRecords :
         /\ leaser' = [leaser EXCEPT ![t] = x] /\ x.at \in {"out", "sweep", "asleep"}
         /\ x.stale = stale \/ x = Outside
         /\ \/ leases' = entries /\ opening' = opening /\ x.at \in {"out", "asleep"}
            \/ /\ ~poolClosed /\ entries[key].resource # 0 /\ opening' = opening
               /\ leases' = [entries EXCEPT ![key].references = @ + 1]
               /\ x.at = "sweep" /\ x.key = key /\ x.mine = entries[key].resource
            \/ /\ ~poolClosed /\ entries[key].resource = 0 /\ key \notin opening
               /\ opening' = opening \union {key} /\ leases' = entries
               /\ x.at = "sweep" /\ x.key = key /\ x.mine = 0
    <2> DEFINE y(at, mine) == [at |-> at, key |-> key, mine |-> mine, stale |-> stale]
    <2>1. /\ y("sweep", entries[key].resource) \in LeaserRecords /\ y("sweep", 0) \in LeaserRecords
          /\ y("asleep", 0) \in LeaserRecords
        BY DEF LeaserRecords
    <2> QED
        BY <2>1, OutsideTyped DEF Turn
<1>3. leaser'[t] = x /\ \A u \in Leasers \ {t} : leaser'[u] = leaser[u]
    BY <1>2
<1>4. PoolTypeOK'
  <2>1. leases' \in [LeaseKeys -> [resource : {0} \union Resources, references : Nat]]
    BY <1>2
  <2>2. leaser' \in [Leasers -> LeaserRecords]
    BY <1>2 DEF LeaserRecords
  <2> QED
    BY <1>2, <2>1, <2>2 DEF LeaserRecords
<1>5. \A k \in LeaseKeys : leases'[k].resource = entries[k].resource
  <2>1. leases' = entries \/ leases' = [entries EXCEPT ![key].references = @ + 1]
    BY <1>2
  <2> SUFFICES ASSUME NEW k \in LeaseKeys PROVE leases'[k].resource = entries[k].resource
    OBVIOUS
  <2>2. CASE leases' = entries
    BY <2>2
  <2>3. CASE leases' = [entries EXCEPT ![key].references = @ + 1]
    <3>1. CASE k = key
      BY <2>3, <3>1
    <3>2. CASE k # key
      BY <2>3, <3>2
    <3> QED
      BY <3>1, <3>2
  <2> QED
    BY <2>1, <2>2, <2>3
<1>6. CountedInv'
  <2> SUFFICES ASSUME ~poolClosed, NEW k \in LeaseKeys
               PROVE  /\ Cardinality(Holders(k)') <= leases'[k].references
                      /\ \A u \in Leasers : Holds(u, k)' => leases'[k].resource = leaser'[u].mine
    BY DEF CountedInv
  <2>1. \A u \in Leasers : u # t => (Holds(u, k)' <=> Holds(u, k))
    BY <1>3 DEF Holds
  <2>2. \A u \in Leasers : Holds(u, k) => entries[k] = leases[k]
    BY NobodyHolds
  <2>3. Cardinality(Holders(k)) <= entries[k].references
    <3>1. CASE entries[k] = leases[k]
      BY <3>1 DEF CountedInv
    <3>2. CASE leases[k].references = 0
      <4>1. Cardinality(Holders(k)) = 0
        BY <3>2, HoldersAreFinite DEF CountedInv
      <4> QED
        BY <4>1
    <3> QED
      BY <3>1, <3>2
  <2>4. CASE Holds(t, k)'
    <3>1. k = key /\ leases'[k].references = entries[k].references + 1 /\ x.mine = entries[k].resource
      BY <1>2, <1>3, <2>4 DEF Holds
    <3>2. Cardinality(Holders(k)') <= Cardinality(Holders(k)) + 1
      BY <2>1, HoldersMove
    <3>3. Cardinality(Holders(k)') <= leases'[k].references
      BY <2>3, <3>1, <3>2, HoldersAreFinite, HoldersAreFiniteLater
    <3>4. ASSUME NEW u \in Leasers, Holds(u, k)' PROVE leases'[k].resource = leaser'[u].mine
      <4>1. CASE u = t
        BY <1>3, <1>5, <3>1, <4>1
      <4>2. CASE u # t
        <5>1. leases[k].resource = leaser[u].mine /\ entries[k] = leases[k]
          BY <2>1, <2>2, <3>4, <4>2 DEF CountedInv
        <5> QED
          BY <1>3, <1>5, <4>2, <5>1
      <4> QED
        BY <4>1, <4>2
    <3> QED
      BY <3>3, <3>4
  <2>5. CASE ~Holds(t, k)'
    <3>1. Cardinality(Holders(k)') <= Cardinality(Holders(k))
      BY <2>1, <2>5, HoldersMove
    <3>2. entries[k].references <= leases'[k].references
      BY <1>2
    <3>3. Cardinality(Holders(k)') <= leases'[k].references
      BY <2>3, <3>1, <3>2, <1>4, HoldersAreFinite, HoldersAreFiniteLater
    <3> QED
      BY <1>3, <1>5, <2>1, <2>2, <2>5, <3>3 DEF CountedInv, Holds
  <2> QED
    BY <2>4, <2>5
<1>7. OpeningInv'
    BY <1>1, <1>2, <1>3 DEF OpeningInv, Opens
<1>8. OpenedInv'
    BY <1>2, <1>5 DEF OpenedInv
<1>9. AliveInv'
  <2>1. x.stale \subseteq stale
    BY <1>2, OutsideTyped
  <2> QED
    BY <1>2, <1>3, <1>5, <2>1 DEF AliveInv
<1> QED
    BY <1>4, <1>6, <1>7, <1>8, <1>9

LEMMA LeaseKeeps ==
    ASSUME PoolInv, NEW t \in Leasers, NEW key \in LeaseKeys, Lease(t, key) PROVE PoolInv'
<1> USE DEF PoolInv, PoolTypeOK
<1>1. PICK old \in SUBSET Discardable : Turn(t, key, Without(old), ResourcesOf(old))
    BY DEF Lease
<1>2. /\ Without(old) \in [LeaseKeys -> [resource : {0} \union Resources, references : Nat]]
      /\ ResourcesOf(old) \in SUBSET Resources
      /\ \A k \in LeaseKeys : \/ Without(old)[k] = leases[k]
                              \/ leases[k].references = 0 /\ Without(old)[k] = NoLease
    BY DEF Without, ResourcesOf, Discardable, NoLease
<1>3. \A s \in ResourcesOf(old) :
         s <= opened /\ \A k \in LeaseKeys : Without(old)[k].resource # s
    BY DEF Without, ResourcesOf, Discardable, NoLease, AliveInv
<1> QED
    BY <1>1, <1>2, <1>3, TurnKeeps DEF Lease

LEMMA RetryKeeps == ASSUME PoolInv, NEW t \in Leasers, Retry(t) PROVE PoolInv'
<1> USE DEF PoolInv, PoolTypeOK
<1>1. leaser[t].key \in LeaseKeys /\ leaser[t].stale \in SUBSET Resources
    BY DEF Retry
<1>2. \A s \in leaser[t].stale : s <= opened /\ \A k \in LeaseKeys : leases[k].resource # s
    BY DEF AliveInv, Resources
<1> QED
    BY <1>1, <1>2, TurnKeeps DEF Retry

\* Waking threads changes nothing for the pool.
LEMMA NotifiedAlike ==
    ASSUME NEW threads \in [Leasers -> LeaserRecords]
    PROVE  /\ Notified(threads) \in [Leasers -> LeaserRecords]
           /\ \A u \in Leasers :
                 /\ Notified(threads)[u].key = threads[u].key
                 /\ Notified(threads)[u].mine = threads[u].mine
                 /\ Notified(threads)[u].stale = threads[u].stale
                 /\ \A place \in {"sweep", "open", "use"} :
                       Notified(threads)[u].at = place <=> threads[u].at = place
BY DEF Notified, LeaserRecords

\* A step in which one thread gives up what it held or opened, if anything.
LEMMA GivesUp ==
    ASSUME PoolInv, PoolTypeOK', NEW t \in Leasers, UNCHANGED <<poolClosed, opened>>,
           ~Opens(t)', \A k \in LeaseKeys : ~Holds(t, k)', leaser'[t].stale = {}, leaser'[t].at # "use",
           \A u \in Leasers \ {t} :
              /\ leaser'[u].key = leaser[u].key /\ leaser'[u].mine = leaser[u].mine
              /\ leaser'[u].stale = leaser[u].stale
              /\ \A place \in {"sweep", "open", "use"} : leaser'[u].at = place <=> leaser[u].at = place,
           \/ opening' = opening
           \/ Opens(t) /\ opening' = opening \ {leaser[t].key},
           \A k \in LeaseKeys :
              /\ leases'[k].resource = leases[k].resource
              /\ ~poolClosed => Cardinality(Holders(k)') <= leases'[k].references,
           \A k \in LeaseKeys : leases[k].resource # 0 => leases[k].resource \in alive'
    PROVE  PoolInv'
<1> USE DEF PoolInv, PoolTypeOK
<1>1. \A u \in Leasers \ {t} : /\ Opens(u)' <=> Opens(u)
                               /\ \A k \in LeaseKeys : Holds(u, k)' <=> Holds(u, k)
    BY DEF Opens, Holds
<1>2. CountedInv'
    BY <1>1 DEF CountedInv
<1>3. OpeningInv'
  <2> SUFFICES ASSUME NEW u \in Leasers, Opens(u)'
               PROVE  /\ leaser'[u].key \in opening'
                      /\ \A v \in Leasers : Opens(v)' /\ leaser'[v].key = leaser'[u].key => v = u
    BY DEF OpeningInv
  <2>1. u # t /\ Opens(u) /\ leaser'[u].key = leaser[u].key
    BY <1>1
  <2>2. leaser[u].key \in opening /\ (Opens(t) => leaser[u].key # leaser[t].key)
    BY <2>1 DEF OpeningInv
  <2>3. ASSUME NEW v \in Leasers, Opens(v)', leaser'[v].key = leaser'[u].key PROVE v = u
    <3>1. v # t /\ Opens(v) /\ leaser[v].key = leaser[u].key
      BY <1>1, <2>1, <2>3
    <3> QED
      BY <2>1, <3>1 DEF OpeningInv
  <2> QED
    BY <2>1, <2>2, <2>3
<1>4. OpenedInv'
    BY DEF OpenedInv
<1>5. AliveInv'
  <2>1. UNCHANGED opened /\ \A u \in Leasers : leaser'[u].stale \subseteq leaser[u].stale
    OBVIOUS
  <2>2. \A u \in Leasers : leaser'[u].at = "use" => leaser'[u].mine # 0
    BY DEF AliveInv
  <2>3. \A k \in LeaseKeys : leases'[k].resource = leases[k].resource
    OBVIOUS
  <2>4. ASSUME NEW k \in LeaseKeys, leases'[k].resource # 0
        PROVE  /\ leases'[k].resource \in alive' /\ leases'[k].resource <= opened'
               /\ \A m \in LeaseKeys : leases'[m].resource = leases'[k].resource => m = k
               /\ \A u \in Leasers : leases'[k].resource \notin leaser'[u].stale
    BY <2>1, <2>3, <2>4 DEF AliveInv
  <2> QED
    BY <2>1, <2>2, <2>4 DEF AliveInv
<1> QED
    BY <1>2, <1>3, <1>4, <1>5

LEMMA SweepKeeps == ASSUME PoolInv, NEW t \in Leasers, Sweep(t) PROVE PoolInv'
<1> USE DEF PoolInv, PoolTypeOK
<1> DEFINE x == [at |-> IF leaser[t].mine = 0 THEN "open" ELSE "use", key |-> leaser[t].key,
                 mine |-> leaser[t].mine, stale |-> {}]
<1>1. x \in LeaserRecords /\ leaser' = [leaser EXCEPT ![t] = x]
    BY DEF Sweep, LeaserRecords
<1>2. leaser'[t] = x /\ \A u \in Leasers \ {t} : leaser'[u] = leaser[u]
    BY <1>1
<1>3. \A u \in Leasers : /\ Opens(u)' <=> Opens(u) /\ leaser'[u].key = leaser[u].key
                         /\ leaser'[u].mine = leaser[u].mine
                         /\ \A k \in LeaseKeys : Holds(u, k)' <=> Holds(u, k)
    BY <1>2 DEF Opens, Holds, Sweep
<1>4. PoolTypeOK'
    BY <1>1 DEF Sweep, LeaserRecords
<1>5. CountedInv'
  <2>1. \A k \in LeaseKeys : Holders(k)' = Holders(k)
    BY <1>3 DEF Holders
  <2> QED
    BY <1>3, <2>1 DEF CountedInv, Sweep
<1>6. OpeningInv' /\ OpenedInv'
    BY <1>3 DEF OpeningInv, OpenedInv, Sweep
<1>7. AliveInv'
    BY <1>2 DEF AliveInv, Sweep
<1> QED
    BY <1>4, <1>5, <1>6, <1>7

LEMMA LeavesTyped ==
    ASSUME PoolInv, NEW t \in Leasers
    PROVE  /\ [leaser EXCEPT ![t] = Outside] \in [Leasers -> LeaserRecords]
           /\ Notified([leaser EXCEPT ![t] = Outside]) \in [Leasers -> LeaserRecords]
           /\ leaser' = [leaser EXCEPT ![t] = Outside] \/ leaser' = Notified([leaser EXCEPT ![t] = Outside])
              => /\ ~Opens(t)' /\ (\A k \in LeaseKeys : ~Holds(t, k)')
                 /\ leaser'[t].stale = {} /\ leaser'[t].at # "use"
                 /\ \A u \in Leasers \ {t} :
                       /\ leaser'[u].key = leaser[u].key /\ leaser'[u].mine = leaser[u].mine
                       /\ leaser'[u].stale = leaser[u].stale
                       /\ \A place \in {"sweep", "open", "use"} :
                             leaser'[u].at = place <=> leaser[u].at = place
                 /\ \A k \in LeaseKeys : Cardinality(Holders(k)') <= Cardinality(Holders(k))
                                      /\ (Holds(t, k) => /\ Cardinality(Holders(k)') = Cardinality(Holders(k)) - 1
                                                         /\ Cardinality(Holders(k)) > 0)
<1> DEFINE away == [leaser EXCEPT ![t] = Outside]
<1>1. away \in [Leasers -> LeaserRecords] /\ away[t] = Outside /\ \A u \in Leasers \ {t} : away[u] = leaser[u]
    BY OutsideTyped DEF PoolInv, PoolTypeOK, LeaserRecords
<1> HIDE DEF away
<1>2. Notified(away) \in [Leasers -> LeaserRecords]
    BY <1>1, NotifiedAlike
<1>3. ASSUME leaser' = away \/ leaser' = Notified(away)
      PROVE  /\ leaser'[t].stale = {} /\ leaser'[t].at \notin {"sweep", "open", "use"}
             /\ \A u \in Leasers \ {t} :
                   /\ leaser'[u].key = leaser[u].key /\ leaser'[u].mine = leaser[u].mine
                   /\ leaser'[u].stale = leaser[u].stale
                   /\ \A place \in {"sweep", "open", "use"} :
                         leaser'[u].at = place <=> leaser[u].at = place
    BY <1>1, <1>3, NotifiedAlike, OutsideTyped
<1>4. ASSUME leaser' = away \/ leaser' = Notified(away), NEW k \in LeaseKeys
      PROVE  /\ ~Holds(t, k)' /\ ~Opens(t)'
             /\ Cardinality(Holders(k)') <= Cardinality(Holders(k))
             /\ Holds(t, k) => /\ Cardinality(Holders(k)') = Cardinality(Holders(k)) - 1
                               /\ Cardinality(Holders(k)) > 0
  <2>1. ~Holds(t, k)' /\ ~Opens(t)' /\ \A u \in Leasers : u # t => (Holds(u, k)' <=> Holds(u, k))
    BY <1>3, <1>4 DEF Holds, Opens
  <2> QED
    BY <2>1, HoldersMove
<1>5. PICK m \in LeaseKeys : TRUE
    BY PoolAssumption
<1> QED
    BY <1>1, <1>2, <1>3, <1>4, <1>5 DEF away

LEMMA SweepRaisesKeeps == ASSUME PoolInv, NEW t \in Leasers, SweepRaises(t) PROVE PoolInv'
<1>1. PICK done \in SUBSET leaser[t].stale : alive' = alive \ done
    BY DEF SweepRaises
<1>2. leaser' = [leaser EXCEPT ![t] = Outside] /\ UNCHANGED <<leases, opening, poolClosed, opened>>
      /\ leaser' \in [Leasers -> LeaserRecords]
    BY LeavesTyped DEF SweepRaises
<1>3. PoolTypeOK'
    BY <1>1, <1>2 DEF PoolInv, PoolTypeOK, LeaserRecords, SweepRaises
<1>4. \A k \in LeaseKeys :
         /\ ~poolClosed => Cardinality(Holders(k)') <= leases'[k].references
         /\ leases[k].resource # 0 => leases[k].resource \in alive'
  <2>1. \A k \in LeaseKeys : Cardinality(Holders(k)') <= Cardinality(Holders(k)) /\ leases[k].references \in Nat
    BY <1>2, LeavesTyped DEF PoolInv, PoolTypeOK
  <2>2. \A k \in LeaseKeys : leases[k].resource # 0 => leases[k].resource \in alive'
    BY <1>1 DEF PoolInv, PoolTypeOK, AliveInv
  <2>3. \A k \in LeaseKeys : ~poolClosed => Cardinality(Holders(k)) <= leases[k].references
    BY DEF PoolInv, CountedInv
  <2> QED
    BY <1>2, <2>1, <2>2, <2>3, HoldersAreFinite, HoldersAreFiniteLater
<1> QED
    BY <1>2, <1>3, <1>4, LeavesTyped, GivesUp

LEMMA OpenFailsKeeps == ASSUME PoolInv, NEW t \in Leasers, OpenFails(t) PROVE PoolInv'
<1>1. /\ leaser' = Notified([leaser EXCEPT ![t] = Outside])
      /\ UNCHANGED <<leases, poolClosed, opened, alive>> /\ opening' = opening \ {leaser[t].key} /\ Opens(t)
      /\ leaser' \in [Leasers -> LeaserRecords]
    BY LeavesTyped DEF OpenFails, Opens
<1>2. PoolTypeOK'
    BY <1>1 DEF PoolInv, PoolTypeOK, LeaserRecords, OpenFails
<1>3. \A k \in LeaseKeys :
         /\ ~poolClosed => Cardinality(Holders(k)') <= leases'[k].references
         /\ leases[k].resource # 0 => leases[k].resource \in alive'
  <2>1. \A k \in LeaseKeys : Cardinality(Holders(k)') <= Cardinality(Holders(k)) /\ leases[k].references \in Nat
    BY <1>1, LeavesTyped DEF PoolInv, PoolTypeOK
  <2>2. \A k \in LeaseKeys : ~poolClosed => Cardinality(Holders(k)) <= leases[k].references
    BY DEF PoolInv, CountedInv
  <2>3. \A k \in LeaseKeys : leases[k].resource # 0 => leases[k].resource \in alive'
    BY <1>1 DEF PoolInv, AliveInv
  <2> QED
    BY <1>1, <2>1, <2>2, <2>3, HoldersAreFinite, HoldersAreFiniteLater
<1> QED
    BY <1>1, <1>2, <1>3, LeavesTyped, GivesUp

LEMMA ReleaseKeeps == ASSUME PoolInv, NEW t \in Leasers, Release(t) PROVE PoolInv'
<1> DEFINE key == leaser[t].key
<1>1. /\ leaser' = [leaser EXCEPT ![t] = Outside] /\ UNCHANGED <<opening, poolClosed, alive, opened, abandoned>>
      /\ leaser' \in [Leasers -> LeaserRecords] /\ key \in LeaseKeys /\ Holds(t, key)
    BY LeavesTyped DEF Release, PoolInv, PoolTypeOK, AliveInv, Holds
<1>2. /\ leases' \in [LeaseKeys -> [resource : {0} \union Resources, references : Nat]]
      /\ \A k \in LeaseKeys :
            /\ leases'[k].resource = leases[k].resource
            /\ k # key => leases'[k].references = leases[k].references
            /\ leases[key].resource # 0 /\ leases[key].references > 0
                  => leases'[key].references = leases[key].references - 1
  <2>1. /\ leases \in [LeaseKeys -> [resource : {0} \union Resources, references : Nat]]
        /\ leases' = IF leases[key].resource = 0 THEN leases
                      ELSE [leases EXCEPT ![key].references = IF @ = 0 THEN 0 ELSE @ - 1]
    BY DEF Release, PoolInv, PoolTypeOK
  <2> HIDE DEF key
  <2>2. CASE leases[key].resource = 0
    BY <2>1, <2>2
  <2>3. CASE leases[key].resource # 0
    <3> DEFINE n == IF leases[key].references = 0 THEN 0 ELSE leases[key].references - 1
    <3>1. n \in Nat /\ (leases[key].references > 0 => n = leases[key].references - 1)
      BY <1>1, <2>1
    <3>2. leases' = [leases EXCEPT ![key].references = n]
      BY <1>1, <2>1, <2>3
    <3> HIDE DEF n
    <3> QED
      BY <1>1, <2>1, <2>3, <3>1, <3>2
  <2> QED
    BY <2>2, <2>3
<1>3. PoolTypeOK'
    BY <1>1, <1>2 DEF PoolInv, PoolTypeOK, LeaserRecords
<1>4. \A k \in LeaseKeys : ~poolClosed => Cardinality(Holders(k)') <= leases'[k].references
  <2> SUFFICES ASSUME ~poolClosed, NEW k \in LeaseKeys
               PROVE  Cardinality(Holders(k)') <= leases'[k].references
    OBVIOUS
  <2>1. Cardinality(Holders(k)) <= leases[k].references /\ leases[k].references \in Nat
    BY DEF PoolInv, CountedInv, PoolTypeOK
  <2>2. Cardinality(Holders(k)') <= Cardinality(Holders(k))
        /\ (Holds(t, k) => /\ Cardinality(Holders(k)') = Cardinality(Holders(k)) - 1
                           /\ Cardinality(Holders(k)) > 0)
    BY <1>1, LeavesTyped
  <2>3. CASE k # key
    BY <1>2, <2>1, <2>2, <2>3, HoldersAreFinite, HoldersAreFiniteLater
  <2>4. CASE k = key
    <3>1. leases[key].resource # 0
      BY <1>1 DEF PoolInv, CountedInv, Holds
    <3>2. leases[k].references > 0
      BY <1>1, <2>1, <2>2, <2>4, HoldersAreFinite
    <3> QED
      BY <1>1, <1>2, <2>1, <2>2, <2>4, <3>1, <3>2, HoldersAreFinite, HoldersAreFiniteLater
  <2> QED
    BY <2>3, <2>4
<1>5. \A k \in LeaseKeys : leases[k].resource # 0 => leases[k].resource \in alive'
    BY <1>1 DEF PoolInv, AliveInv
<1> QED
    BY ZenonT(60), <1>1, <1>2, <1>3, <1>4, <1>5, LeavesTyped, GivesUp

LEMMA OpenSucceedsKeeps == ASSUME PoolInv, NEW t \in Leasers, OpenSucceeds(t) PROVE PoolInv'
<1>0. PICK key \in LeaseKeys : key = leaser[t].key
    BY DEF PoolInv, PoolTypeOK
<1>1. /\ Opens(t) /\ opened' = opened + 1 /\ opened' \in 1..MaxOpens /\ opening' = opening \ {key}
      /\ opened' \in 0..MaxOpens /\ opened \in 0..MaxOpens /\ MaxOpens \in Nat
      /\ poolClosed' = poolClosed /\ abandoned' = abandoned /\ opened \in Nat
    BY <1>0, PoolAssumption DEF OpenSucceeds, Opens, PoolInv, PoolTypeOK
<1>2. CASE poolClosed
  <2>1. /\ leaser' = Notified([leaser EXCEPT ![t] = Outside]) /\ UNCHANGED <<leases, alive>>
        /\ leaser' \in [Leasers -> LeaserRecords]
    BY <1>2, LeavesTyped DEF OpenSucceeds
  <2>2. PoolTypeOK'
    BY <1>1, <2>1 DEF PoolInv, PoolTypeOK, LeaserRecords
  <2>3. \A u \in Leasers \ {t} : Opens(u)' <=> Opens(u)
    BY <2>1, LeavesTyped DEF Opens
  <2>4. CountedInv'
    BY <1>1, <1>2 DEF CountedInv
  <2>5. OpeningInv' /\ OpenedInv'
    <3>1. ~Opens(t)' /\ \A u \in Leasers \ {t} : leaser'[u].key = leaser[u].key
      BY <2>1, LeavesTyped
    <3> QED
      BY <1>0, <1>1, <2>1, <2>3, <3>1 DEF PoolInv, OpeningInv, OpenedInv
  <2>6. AliveInv'
    <3>1. \A u \in Leasers : /\ leaser'[u].stale \subseteq leaser[u].stale
                             /\ leaser'[u].at = "use" => leaser[u].at = "use" /\ leaser'[u].mine = leaser[u].mine
      BY <2>1, LeavesTyped
    <3>2. \A n \in {0} \union Resources : n <= opened => n <= opened'
      BY <1>1 DEF Resources
    <3>3. \A k \in LeaseKeys : leases[k].resource \in {0} \union Resources
      BY DEF PoolInv, PoolTypeOK
    <3>4. \A u \in Leasers : leaser[u].stale \subseteq Resources
      BY DEF PoolInv, PoolTypeOK
    <3> QED
      BY <2>1, <3>1, <3>2, <3>3, <3>4 DEF PoolInv, AliveInv
  <2> QED
    BY <2>2, <2>4, <2>5, <2>6 DEF PoolInv
<1>3. CASE ~poolClosed
  <2> DEFINE x == [at |-> "use", key |-> key, mine |-> opened', stale |-> {}]
             threads == [leaser EXCEPT ![t] = x]
             lease == [resource |-> opened', references |-> 1]
  <2>1. /\ leaser[t] \in LeaserRecords /\ x \in LeaserRecords
        /\ leases' = [leases EXCEPT ![key] = lease] /\ alive' = alive \union {opened'}
        /\ leaser' = Notified(threads)
    <3>1. leaser[t] \in LeaserRecords
      BY DEF PoolInv, PoolTypeOK, LeaserRecords
    <3>2. x \in LeaserRecords
      BY <1>1, <3>1 DEF LeaserRecords, Resources
    <3> QED
      BY <1>0, <1>3, <3>1, <3>2 DEF OpenSucceeds, x, threads
  <2>2. threads \in [Leasers -> LeaserRecords] /\ threads[t] = x
        /\ \A u \in Leasers \ {t} : threads[u] = leaser[u]
    BY <2>1 DEF PoolInv, PoolTypeOK, LeaserRecords
  <2>3. /\ leaser' \in [Leasers -> LeaserRecords]
        /\ leaser'[t].at = "use" /\ leaser'[t].key = key /\ leaser'[t].mine = opened'
        /\ leaser'[t].stale = {}
    <3> HIDE DEF threads
    <3> QED
      BY <2>1, <2>2, NotifiedAlike
  <2>4. \A u \in Leasers \ {t} :
           /\ leaser'[u].key = leaser[u].key /\ leaser'[u].mine = leaser[u].mine
           /\ leaser'[u].stale = leaser[u].stale
           /\ \A place \in {"sweep", "open", "use"} : leaser'[u].at = place <=> leaser[u].at = place
    <3> HIDE DEF threads
    <3> QED
      BY <2>1, <2>2, NotifiedAlike
  <2>5. /\ leases \in [LeaseKeys -> [resource : {0} \union Resources, references : Nat]]
        /\ leases'[key].resource = opened' /\ leases'[key].references = 1
        /\ \A k \in LeaseKeys \ {key} : leases'[k] = leases[k]
        /\ leases' \in [LeaseKeys -> [resource : {0} \union Resources, references : Nat]]
    BY <1>1, <2>1 DEF PoolInv, PoolTypeOK, Resources
  <2>6. key \in opening /\ leases[key].resource = 0
    BY <1>0, <1>1 DEF PoolInv, OpeningInv, OpenedInv
  <2> HIDE DEF x, threads, lease
  <2>7. PoolTypeOK'
    BY <1>1, <2>1, <2>3, <2>5 DEF PoolInv, PoolTypeOK, LeaserRecords, Resources
  <2>8. \A u \in Leasers \ {t} : /\ Opens(u)' <=> Opens(u)
                                 /\ \A k \in LeaseKeys : Holds(u, k)' <=> Holds(u, k)
    BY <2>4 DEF Opens, Holds
  <2>9. ~Opens(t)' /\ (\A k \in LeaseKeys : Holds(t, k)' <=> k = key) /\ \A k \in LeaseKeys : ~Holds(t, k)
    BY <1>1, <2>3 DEF Opens, Holds, OpenSucceeds
  <2>10. CountedInv'
    <3> SUFFICES ASSUME NEW k \in LeaseKeys
                 PROVE  /\ Cardinality(Holders(k)') <= leases'[k].references
                        /\ \A u \in Leasers : Holds(u, k)' => leases'[k].resource = leaser'[u].mine
      BY DEF CountedInv
    <3>1. CASE k = key
      <4>1. \A u \in Leasers : ~Holds(u, k)
        BY <1>3, <2>6, <3>1, NobodyHolds
      <4>2. Holders(k)' = {t}
        BY <2>8, <2>9, <3>1, <4>1 DEF Holders
      <4>3. Cardinality({t}) = 1
        BY FS_Singleton
      <4>4. Cardinality(Holders(k)') <= leases'[k].references
        BY <2>5, <3>1, <4>2, <4>3
      <4>5. \A u \in Leasers : Holds(u, k)' => u = t
        BY <2>8, <4>1
      <4> QED
        BY <2>3, <2>5, <3>1, <4>4, <4>5
    <3>2. CASE k # key
      <4>1. Holders(k)' = Holders(k)
        BY <2>8, <2>9, <3>2 DEF Holders
      <4>2. leases'[k] = leases[k]
        BY <2>5, <3>2
      <4>3. \A u \in Leasers : Holds(u, k)' => Holds(u, k) /\ leaser'[u].mine = leaser[u].mine
        BY <2>4, <2>8, <2>9, <3>2
      <4> QED
        BY <1>3, <4>1, <4>2, <4>3 DEF PoolInv, CountedInv
    <3> QED
      BY <3>1, <3>2
  <2>11. OpeningInv'
    <3> SUFFICES ASSUME NEW u \in Leasers, Opens(u)'
                 PROVE  /\ leaser'[u].key \in opening'
                        /\ \A v \in Leasers : Opens(v)' /\ leaser'[v].key = leaser'[u].key => v = u
      BY DEF OpeningInv
    <3>1. u # t /\ Opens(u) /\ leaser'[u].key = leaser[u].key
      BY <2>4, <2>8, <2>9
    <3>2. leaser[u].key \in opening /\ leaser[u].key # key
      BY <1>0, <1>1, <3>1 DEF PoolInv, OpeningInv
    <3>3. ASSUME NEW v \in Leasers, Opens(v)', leaser'[v].key = leaser'[u].key PROVE v = u
      <4>1. v # t /\ Opens(v) /\ leaser[v].key = leaser[u].key
        BY <2>4, <2>8, <2>9, <3>1, <3>3
      <4> QED
        BY <3>1, <4>1 DEF PoolInv, OpeningInv
    <3> QED
      BY <1>1, <3>1, <3>2, <3>3
  <2>12. OpenedInv'
    BY <1>1, <2>5 DEF PoolInv, PoolTypeOK, OpenedInv
  <2>13. AliveInv'
    <3>1. \A u \in Leasers : leaser'[u].stale \subseteq leaser[u].stale /\ leaser[u].stale \subseteq Resources
      BY <2>3, <2>4 DEF PoolInv, PoolTypeOK
    <3>2. \A u \in Leasers : \A s \in leaser'[u].stale : s <= opened /\ s # opened' /\ s <= opened'
      BY <1>1, <3>1 DEF PoolInv, AliveInv, Resources
    <3>3. \A k \in LeaseKeys : leases[k].resource # 0 => leases[k].resource <= opened
                               /\ leases[k].resource # opened' /\ leases[k].resource <= opened'
      BY <1>1, <2>5 DEF PoolInv, AliveInv, Resources
    <3>4. \A u \in Leasers : leaser'[u].at = "use" => leaser'[u].mine # 0
      BY <1>1, <2>3, <2>4 DEF PoolInv, AliveInv
    <3>5. ASSUME NEW k \in LeaseKeys, leases'[k].resource # 0
          PROVE  /\ leases'[k].resource \in alive' /\ leases'[k].resource <= opened'
                 /\ \A m \in LeaseKeys : leases'[m].resource = leases'[k].resource => m = k
                 /\ \A u \in Leasers : leases'[k].resource \notin leaser'[u].stale
      <4>1. CASE k = key
        BY <1>1, <2>1, <2>5, <3>2, <3>3, <4>1
      <4>2. CASE k # key
        <5>1. leases'[k] = leases[k] /\ leases[k].resource # 0
          BY <2>5, <3>5, <4>2
        <5>2. \A m \in LeaseKeys : leases'[m].resource = leases'[k].resource => m = k
          BY <2>5, <3>3, <4>2, <5>1 DEF PoolInv, AliveInv
        <5> QED
          BY <2>1, <3>1, <3>3, <5>1, <5>2 DEF PoolInv, AliveInv
      <4> QED
        BY <4>1, <4>2
    <3> QED
      BY <3>2, <3>4, <3>5 DEF AliveInv
  <2> QED
    BY <2>7, <2>10, <2>11, <2>12, <2>13 DEF PoolInv
<1> QED
    BY <1>2, <1>3

\* Leases that nobody holds are taken out and their resources closed.
LEMMA DropsIdle ==
    ASSUME PoolInv, NEW old \in SUBSET LeaseKeys, leases' = Without(old),
           alive' = alive \ ResourcesOf(old), UNCHANGED <<opening, opened>>,
           leaser' = leaser \/ leaser' = Notified(leaser),
           poolClosed' \in BOOLEAN, abandoned' = abandoned,
           ~poolClosed' => ~poolClosed /\ old \subseteq Discardable
    PROVE  PoolInv'
<1>1. /\ leaser' \in [Leasers -> LeaserRecords]
      /\ \A u \in Leasers :
            /\ leaser'[u].key = leaser[u].key /\ leaser'[u].mine = leaser[u].mine
            /\ leaser'[u].stale = leaser[u].stale
            /\ \A place \in {"sweep", "open", "use"} : leaser'[u].at = place <=> leaser[u].at = place
  <2>1. leaser \in [Leasers -> LeaserRecords]
    BY DEF PoolInv, PoolTypeOK, LeaserRecords
  <2> QED
    BY <2>1, NotifiedAlike
<1>2. /\ leases' \in [LeaseKeys -> [resource : {0} \union Resources, references : Nat]]
      /\ \A k \in LeaseKeys : /\ k \in old => leases'[k].resource = 0
                              /\ k \notin old => leases'[k] = leases[k]
    BY DEF Without, NoLease, PoolInv, PoolTypeOK
<1>3. PoolTypeOK'
    BY <1>1, <1>2 DEF PoolInv, PoolTypeOK, LeaserRecords
<1>4. \A u \in Leasers : /\ Opens(u)' <=> Opens(u)
                         /\ \A k \in LeaseKeys : Holds(u, k)' <=> Holds(u, k)
    BY <1>1 DEF Opens, Holds
<1>5. CountedInv'
  <2> SUFFICES ASSUME ~poolClosed', NEW k \in LeaseKeys
               PROVE  /\ Cardinality(Holders(k)') <= leases'[k].references
                      /\ \A u \in Leasers : Holds(u, k)' => leases'[k].resource = leaser'[u].mine
    BY DEF CountedInv
  <2>1. Holders(k)' = Holders(k)
    BY <1>4 DEF Holders
  <2>2. CASE k \in old
    <3>1. \A u \in Leasers : ~Holds(u, k)
      BY <2>2, NobodyHolds DEF Discardable
    <3>2. Holders(k) = {} /\ Cardinality({}) = 0
      BY <3>1, FS_EmptySet DEF Holders
    <3> QED
      BY <1>2, <1>4, <2>1, <3>1, <3>2
  <2>3. CASE k \notin old
    BY <1>1, <1>2, <1>4, <2>1, <2>3 DEF PoolInv, CountedInv
  <2> QED
    BY <2>2, <2>3
<1>6. OpeningInv' /\ OpenedInv'
    BY <1>1, <1>2, <1>4 DEF PoolInv, PoolTypeOK, OpeningInv, OpenedInv
<1>7. AliveInv'
  <2>1. \A k \in LeaseKeys : leases'[k].resource # 0 => k \notin old /\ leases'[k] = leases[k]
    BY <1>2
  <2>2. \A k \in LeaseKeys : leases'[k].resource # 0 => leases'[k].resource \in alive'
    BY <2>1 DEF PoolInv, AliveInv, ResourcesOf
  <2> QED
    BY <1>1, <2>1, <2>2 DEF PoolInv, AliveInv
<1> QED
    BY <1>3, <1>5, <1>6, <1>7 DEF PoolInv

LEMMA CollectKeeps == ASSUME PoolInv, Collect PROVE PoolInv'
<1>1. PICK old \in SUBSET Discardable : leases' = Without(old) /\ alive' = alive \ ResourcesOf(old)
    BY DEF Collect
<1>2. /\ old \in SUBSET LeaseKeys /\ poolClosed \in BOOLEAN
      /\ UNCHANGED <<opening, opened, poolClosed, leaser, abandoned>>
    BY DEF Collect, Discardable, PoolInv, PoolTypeOK
<1> QED
    BY <1>1, <1>2, DropsIdle

LEMMA ClosePoolKeeps == ASSUME PoolInv, ClosePool PROVE PoolInv'
BY DropsIdle DEF ClosePool

LEMMA PoolStarts == PoolInit => PoolInv
<1> SUFFICES ASSUME PoolInit PROVE PoolInv
    OBVIOUS
<1>1. \A t \in Leasers : leaser[t] \in LeaserRecords /\ leaser[t].at = "out" /\ leaser[t].stale = {}
    BY OutsideTyped DEF PoolInit
<1>2. PoolTypeOK
  <2>1. leaser \in [Leasers -> LeaserRecords]
    BY OutsideTyped DEF PoolInit
  <2>2. 0 \in 0..MaxOpens
    BY PoolAssumption
  <2> QED
    BY <2>1, <2>2 DEF PoolInit, PoolTypeOK, LeaserRecords, NoLease
<1>3. \A k \in LeaseKeys : Holders(k) = {} /\ Cardinality(Holders(k)) = 0
  <2>1. \A k \in LeaseKeys : Holders(k) = {}
    BY <1>1 DEF Holders, Holds
  <2> QED
    BY <2>1, FS_EmptySet
<1>4. CountedInv
    BY <1>1, <1>3 DEF CountedInv, PoolInit, NoLease, Holds
<1>5. OpeningInv /\ OpenedInv /\ AliveInv
    BY <1>1 DEF OpeningInv, OpenedInv, AliveInv, PoolInit, NoLease, Opens
<1> QED
    BY <1>2, <1>4, <1>5 DEF PoolInv

LEMMA PoolSteps == PoolInv /\ [PoolNext]_poolVars => PoolInv'
<1> SUFFICES ASSUME PoolInv, [PoolNext]_poolVars PROVE PoolInv'
    OBVIOUS
<1>1. ASSUME NEW t \in Leasers, Served(t) PROVE PoolInv'
    BY <1>1, SweepKeeps, OpenSucceedsKeeps, OpenFailsKeeps, ReleaseKeeps DEF Served
<1>2. CASE \E t \in Leasers : Retry(t) \/ SweepRaises(t)
    BY <1>2, RetryKeeps, SweepRaisesKeeps
<1>3. CASE \E t \in Leasers, key \in LeaseKeys : Lease(t, key)
    BY <1>3, LeaseKeeps
<1>4. CASE Collect \/ ClosePool
    BY <1>4, CollectKeeps, ClosePoolKeeps
<1>5. CASE UNCHANGED poolVars
    BY <1>5 DEF poolVars, PoolInv, PoolTypeOK, CountedInv, OpeningInv, OpenedInv, AliveInv,
                Holders, Holds, Opens
<1> QED
    BY <1>1, <1>2, <1>3, <1>4, <1>5 DEF PoolNext

LEMMA SharedFollows == PoolInv => UsersShareOneOpen
<1> SUFFICES ASSUME PoolInv, ~poolClosed, NEW t \in Leasers, NEW u \in Leasers, leaser[t].at = "use"
               PROVE  /\ leaser[t].mine \in alive
                      /\ leaser[u].at = "use" /\ leaser[t].key = leaser[u].key
                            => leaser[t].mine = leaser[u].mine
    BY DEF UsersShareOneOpen
<1>1. leaser[t].key \in LeaseKeys /\ Holds(t, leaser[t].key)
        /\ (leaser[u].at = "use" => Holds(u, leaser[u].key))
    BY DEF PoolInv, PoolTypeOK, AliveInv, Holds
<1> QED
    BY <1>1 DEF PoolInv, CountedInv, AliveInv, Holds

\* Users of one key use the same resource, and it is open: the lease counts its holders,
\* so nothing takes it out while one of them is left.
THEOREM OneOpenResource == PoolSpec => []UsersShareOneOpen
<1> QED
    BY SharedFollows, PoolStarts, PoolSteps, PTL DEF PoolSpec


(***************************************************************************)
(* The services side by side: the initial state picks one of them, and a   *)
(* step is a step of one.                                                  *)
(***************************************************************************)
LEMMA ServiceSteps ==
    [Next]_vars => [PairedNext]_pairedVars /\ [PoolNext]_poolVars /\ [WriterNext]_writerVars
BY DEF Next, vars

\* The pool and the journal's writer keep their types, the users of a key share
\* one open resource, and the journal of cycles is sound, whichever service runs.
THEOREM ServicesHold == Spec => []ServicesAreSound
<1>1. Init => PairedInv /\ PoolInv /\ WriterInv
    BY InitPaired, PoolStarts, InitWriter DEF Init
<1>2. PairedInv /\ PoolInv /\ WriterInv /\ [Next]_vars => (PairedInv /\ PoolInv /\ WriterInv)'
    BY ServiceSteps, NextPaired, PoolSteps, NextWriter
<1>3. PairedInv => JournalIsSound
    BY JournalFollows
<1>4. WriterInv => WriterTypeOK
    BY DEF WriterInv, WriterTyped, WriterTypeOK, ProducerRecords
<1>5. PoolInv => PoolTypeOK /\ UsersShareOneOpen
    BY SharedFollows DEF PoolInv
<1>6. PairedInv /\ PoolInv /\ WriterInv => ServicesAreSound
    BY <1>3, <1>4, <1>5 DEF ServicesAreSound
<1> QED
    BY <1>1, <1>2, <1>6, PTL DEF Spec
=============================================================================
