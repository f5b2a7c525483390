-------------------------- MODULE FleetActorsProofs --------------------------
(***************************************************************************)
(* What holds of the campaign actors for any number of actors, proxies,    *)
(* slots and rounds, any size of a cycle and any target: the types, the    *)
(* slots of the capacity gate, and the volume that a campaign counts.      *)
(***************************************************************************)
EXTENDS FleetActors, TLAPS, FiniteSetTheorems

Verdicts == {"none", "completed", "stopped", "uncertain", "failed"}

FlowTyped ==
    /\ at \in [Actors -> Places] /\ caught \in [Actors -> 0..2] /\ verdict \in [Actors -> Verdicts]
    /\ stop \subseteq Actors /\ opened \subseteq Actors
VolumeTyped ==
    /\ pos \in [Actors -> 0..Lots] /\ legs \in [Actors -> Nat] /\ total \in [Actors -> Nat]
    /\ traded \in [Actors -> Nat] /\ cycles \in [Actors -> Nat]
    /\ \A a \in Actors : cycles[a] <= MaxRounds[a]
GateTyped ==
    /\ queue \in Seq(Actors) /\ active \subseteq Actors
    /\ cooling \subseteq Proxies \cup {Rate} /\ early \subseteq Actors
TypeInv == FlowTyped /\ VolumeTyped /\ GateTyped

\* The gate: what SlotsAreInUse says, of a set of slots that is finite.
SlotInv == IsFiniteSet(active) /\ SlotsAreInUse

\* While a cycle is open, its legs are what the total still lacks.
Closing(a) == at[a] \in {"hold", "close_wait", "market", "queue_close", "close"}
Counts(a) ==
    /\ total[a] <= traded[a]
    /\ at[a] = "prepare" \/ BetweenRounds(a)
         => total[a] = traded[a] /\ pos[a] = 0 /\ ~TargetReached(total[a])
    /\ at[a] = "open" => total[a] = traded[a] /\ legs[a] = 0
    /\ Closing(a) => total[a] + legs[a] = traded[a]
    /\ verdict[a] = "completed" => total[a] = traded[a] /\ at[a] \in {"finish", "leave", "done"}
CountInv == \A a \in Actors : Counts(a)

(***************************************************************************)
(* Operators                                                               *)
(***************************************************************************)
LEMMA WithoutTyped ==
    ASSUME NEW q \in Seq(Actors), NEW a PROVE Without(q, a) \in Seq(Actors)
<1>1. CASE ~Contains(q, a)
    BY <1>1 DEF Without
<1>2. CASE Contains(q, a)
  <2> DEFINE i == CHOOSE i \in 1..Len(q) : q[i] = a
  <2>1. i \in 1..Len(q) /\ Len(q) \in Nat
    BY <1>2 DEF Contains
  <2>2. Without(q, a) = SubSeq(q, 1, i - 1) \o SubSeq(q, i + 1, Len(q))
    BY <1>2 DEF Without, RemoveAt
  <2> HIDE DEF i
  <2>3. SubSeq(q, 1, i - 1) \in Seq(Actors) /\ SubSeq(q, i + 1, Len(q)) \in Seq(Actors)
    BY <2>1
  <2> QED
    BY <2>2, <2>3
<1> QED
    BY <1>1, <1>2

\* What an exception does: the actor goes where nothing is opened any more.
Aftermath == {"safe_stop", "finish", "leave"}
LEMMA RaisesMoves ==
    ASSUME FlowTyped, NEW a \in Actors, Raises(a)
    PROVE  \E place \in Aftermath, c \in 0..2, v \in {"stopped", "failed"} :
              /\ at' = [at EXCEPT ![a] = place]
              /\ caught' = [caught EXCEPT ![a] = c]
              /\ verdict' = [verdict EXCEPT ![a] = v]
<1>1. caught[a] \in 0..2 /\ caught = [caught EXCEPT ![a] = caught[a]]
    BY DEF FlowTyped
<1>2. CASE caught[a] = 0 /\ a \in opened
    BY <1>2 DEF Raises, Goto, Aftermath
<1>3. CASE caught[a] < 2 /\ ~(caught[a] = 0 /\ a \in opened)
    BY <1>3 DEF Raises, Goto, Aftermath
<1>4. CASE ~(caught[a] < 2) /\ ~(caught[a] = 0 /\ a \in opened)
    BY <1>1, <1>4 DEF Raises, Goto, Aftermath
<1> QED
    BY <1>2, <1>3, <1>4

LEMMA StopsMoves ==
    ASSUME NEW a \in Actors, NEW cycle, StopsWith(a, cycle)
    PROVE  \E place \in Aftermath : at' = [at EXCEPT ![a] = place]
           /\ verdict' = [verdict EXCEPT ![a] = "stopped"]
    BY DEF StopsWith, Goto, Aftermath

LEMMA NextPlace ==
    ASSUME NEW quote, NEW t, NEW flat \in BOOLEAN, NEW soft \in BOOLEAN, NEW uncertain \in BOOLEAN,
           NEW next \in AfterCycle(quote, t, flat, soft, uncertain)
    PROVE  /\ next.place \in {"finish", "wait"} /\ next.verdict \in Verdicts
           /\ next.verdict = "completed" => next.place = "finish"
           /\ next.place = "wait" => flat /\ ~TargetReached(t)
<1>1. CASE uncertain
    BY <1>1 DEF AfterCycle, Verdicts
<1>2. CASE ~uncertain /\ TargetReached(t)
  <2>1. next \in [place : {"finish"}, verdict : IF flat THEN {"completed", "uncertain"} ELSE {"uncertain"}]
    BY <1>2 DEF AfterCycle
  <2> QED
    BY <2>1 DEF Verdicts
<1>3. CASE ~uncertain /\ ~TargetReached(t) /\ flat /\ (soft \/ quote = 0)
  <2>1. next = [place |-> "wait", verdict |-> "none"]
    BY <1>3 DEF AfterCycle
  <2> QED
    BY <1>3, <2>1 DEF Verdicts
<1>4. CASE ~uncertain /\ ~TargetReached(t) /\ ~(flat /\ (soft \/ quote = 0))
  <2>1. \/ next \in [place : {"finish"}, verdict : {"stopped"}]
        \/ flat /\ next = [place |-> "wait", verdict |-> "none"]
    BY <1>4 DEF AfterCycle
  <2> QED
    BY <1>4, <2>1 DEF Verdicts
<1> QED
    BY <1>1, <1>2, <1>3, <1>4

(***************************************************************************)
(* What one step of an actor does to its own entries, and that it leaves   *)
(* the others' alone                                                       *)
(***************************************************************************)
\* the actor moves to place with verdict v
Flows(a, place, v) ==
    /\ at' = [at EXCEPT ![a] = place]
    /\ verdict' = [verdict EXCEPT ![a] = v]
    /\ \E c \in 0..2 : caught' = [caught EXCEPT ![a] = c]
    /\ opened' \subseteq opened \cup {a}

SameCaught(a) == \E c \in 0..2 : caught' = [caught EXCEPT ![a] = c]

LEMMA Unmoved ==
    ASSUME FlowTyped, NEW a \in Actors
    PROVE  /\ UNCHANGED caught => SameCaught(a)
           /\ UNCHANGED verdict => verdict' = [verdict EXCEPT ![a] = verdict[a]]
    BY DEF FlowTyped, SameCaught

LEMMA FlowsTyped ==
    ASSUME FlowTyped, NEW a \in Actors, NEW place \in Places, NEW v \in Verdicts, Flows(a, place, v),
           UNCHANGED stop
    PROVE  /\ FlowTyped' /\ at'[a] = place /\ verdict'[a] = v
           /\ \A b \in Actors : b # a => at'[b] = at[b] /\ verdict'[b] = verdict[b]
    BY DEF FlowTyped, Flows

\* the volume the actor has afterwards
Books(a, p, l, t, r) ==
    /\ pos' = [pos EXCEPT ![a] = p] /\ legs' = [legs EXCEPT ![a] = l]
    /\ total' = [total EXCEPT ![a] = t] /\ traded' = [traded EXCEPT ![a] = r]

LEMMA BooksTyped ==
    ASSUME VolumeTyped, NEW a \in Actors, NEW p \in 0..Lots, NEW l \in Nat, NEW t \in Nat, NEW r \in Nat,
           Books(a, p, l, t, r),
           UNCHANGED cycles \/ (cycles' = [cycles EXCEPT ![a] = @ + 1] /\ cycles[a] < MaxRounds[a])
    PROVE  /\ VolumeTyped' /\ pos'[a] = p /\ legs'[a] = l /\ total'[a] = t /\ traded'[a] = r
           /\ \A b \in Actors : b # a => /\ pos'[b] = pos[b] /\ legs'[b] = legs[b]
                                         /\ total'[b] = total[b] /\ traded'[b] = traded[b]
<1>1. cycles' \in [Actors -> Nat] /\ \A b \in Actors : cycles'[b] <= MaxRounds[b]
  <2>1. CASE UNCHANGED cycles
    BY <2>1 DEF VolumeTyped
  <2>2. CASE cycles' = [cycles EXCEPT ![a] = @ + 1] /\ cycles[a] < MaxRounds[a]
    <3>1. cycles' \in [Actors -> Nat] /\ cycles'[a] = cycles[a] + 1
          /\ \A b \in Actors : b # a => cycles'[b] = cycles[b]
      BY <2>2 DEF VolumeTyped
    <3>a. MaxRounds[a] \in Nat
      BY ActorsAssumption
    <3>b. cycles[a] \in Nat
      BY DEF VolumeTyped
    <3>2. cycles[a] + 1 <= MaxRounds[a]
      BY <2>2, <3>a, <3>b
    <3>3. \A b \in Actors : cycles[b] <= MaxRounds[b]
      BY DEF VolumeTyped
    <3> QED
      BY <3>1, <3>2, <3>3
  <2> QED
    BY <2>1, <2>2
<1>2. /\ pos' \in [Actors -> 0..Lots] /\ legs' \in [Actors -> Nat] /\ total' \in [Actors -> Nat]
      /\ traded' \in [Actors -> Nat]
      /\ pos'[a] = p /\ legs'[a] = l /\ total'[a] = t /\ traded'[a] = r
      /\ \A b \in Actors : b # a => /\ pos'[b] = pos[b] /\ legs'[b] = legs[b]
                                    /\ total'[b] = total[b] /\ traded'[b] = traded[b]
    BY DEF VolumeTyped, Books
<1> QED
    BY <1>1, <1>2 DEF VolumeTyped

LEMMA SameBooks ==
    ASSUME VolumeTyped, NEW a \in Actors, UNCHANGED <<pos, legs, total, traded>>
    PROVE  Books(a, pos[a], legs[a], total[a], traded[a])
    BY DEF VolumeTyped, Books

\* what Counts says, of the values an actor comes to have
CountsAs(place, v, p, l, t, r) ==
    /\ t <= r
    /\ place \in {"prepare", "check", "wait", "queue_open", "plan", "plan_wait"}
         => t = r /\ p = 0 /\ ~TargetReached(t)
    /\ place = "open" => t = r /\ l = 0
    /\ place \in {"hold", "close_wait", "market", "queue_close", "close"} => t + l = r
    /\ v = "completed" => t = r /\ place \in {"finish", "leave", "done"}

Advances(a) == UNCHANGED cycles \/ (cycles' = [cycles EXCEPT ![a] = @ + 1] /\ cycles[a] < MaxRounds[a])
Accounted(a) == \E place \in Places, v \in Verdicts, p \in 0..Lots, l, t, r \in Nat :
    Flows(a, place, v) /\ Books(a, p, l, t, r) /\ CountsAs(place, v, p, l, t, r)

LEMMA AccountedIf ==
    ASSUME NEW a \in Actors, NEW place \in Places, NEW v \in Verdicts, NEW p \in 0..Lots,
           NEW l \in Nat, NEW t \in Nat, NEW r \in Nat,
           Flows(a, place, v), Books(a, p, l, t, r), CountsAs(place, v, p, l, t, r)
    PROVE  Accounted(a)
    BY DEF Accounted

\* Whatever is accounted for keeps the types and the counts.
LEMMA AccountedKeeps ==
    ASSUME FlowTyped, VolumeTyped, CountInv, NEW a \in Actors, Accounted(a), Advances(a), UNCHANGED stop
    PROVE  /\ FlowTyped' /\ VolumeTyped' /\ CountInv'
           /\ \A b \in Actors : b # a => at'[b] = at[b]
<1>1. PICK place \in Places, v \in Verdicts, p \in 0..Lots, l \in Nat, t \in Nat, r \in Nat :
         Flows(a, place, v) /\ Books(a, p, l, t, r) /\ CountsAs(place, v, p, l, t, r)
    BY DEF Accounted
<1>2. /\ FlowTyped' /\ at'[a] = place /\ verdict'[a] = v
      /\ \A b \in Actors : b # a => at'[b] = at[b] /\ verdict'[b] = verdict[b]
    BY <1>1, FlowsTyped
<1>3. /\ VolumeTyped' /\ pos'[a] = p /\ legs'[a] = l /\ total'[a] = t /\ traded'[a] = r
      /\ \A b \in Actors : b # a => /\ pos'[b] = pos[b] /\ legs'[b] = legs[b]
                                    /\ total'[b] = total[b] /\ traded'[b] = traded[b]
    BY <1>1, BooksTyped DEF Advances
<1>4. Counts(a)'
    BY <1>1, <1>2, <1>3 DEF CountsAs, Counts, Closing, BetweenRounds, TargetReached
<1>5. \A b \in Actors : b # a => Counts(b)'
    BY <1>2, <1>3 DEF CountInv, Counts, Closing, BetweenRounds, TargetReached
<1> QED
    BY <1>2, <1>3, <1>4, <1>5 DEF CountInv

LEMMA ActorTyped ==
    ASSUME FlowTyped, VolumeTyped, CountInv, NEW a \in Actors
    PROVE  /\ at[a] \in Places /\ verdict[a] \in Verdicts
           /\ pos[a] \in 0..Lots /\ legs[a] \in Nat /\ total[a] \in Nat /\ traded[a] \in Nat
           /\ CountsAs(at[a], verdict[a], pos[a], legs[a], total[a], traded[a])
<1>1. /\ at[a] \in Places /\ verdict[a] \in Verdicts
      /\ pos[a] \in 0..Lots /\ legs[a] \in Nat /\ total[a] \in Nat /\ traded[a] \in Nat
    BY DEF FlowTyped, VolumeTyped
<1> QED
    BY <1>1 DEF CountInv, Counts, CountsAs, Closing, BetweenRounds

\* A step that trades and counts nothing.
LEMMA QuietStep ==
    ASSUME FlowTyped, VolumeTyped, CountInv, NEW a \in Actors, NEW place \in Places, NEW v \in Verdicts,
           Flows(a, place, v), UNCHANGED volume,
           CountsAs(place, v, pos[a], legs[a], total[a], traded[a])
    PROVE  Accounted(a) /\ Advances(a)
<1>1. Books(a, pos[a], legs[a], total[a], traded[a])
    BY SameBooks DEF volume
<1> QED
    BY <1>1, ActorTyped, AccountedIf DEF Advances, volume

\* Where nothing is opened any more, it is enough not to count too much.
LEMMA AftermathCounts ==
    ASSUME NEW place \in Aftermath, NEW v \in {"stopped", "uncertain", "failed"}, NEW p, NEW l,
           NEW t \in Nat, NEW r \in Nat, t <= r
    PROVE  CountsAs(place, v, p, l, t, r) /\ place \in Places /\ v \in Verdicts
    BY DEF CountsAs, Aftermath, Places, Verdicts

LEMMA RaisesFlows ==
    ASSUME FlowTyped, NEW a \in Actors, Raises(a), opened' \subseteq opened \cup {a}
    PROVE  \E place \in Aftermath, v \in {"stopped", "uncertain", "failed"} : Flows(a, place, v)
    BY RaisesMoves DEF Flows

LEMMA StopsFlows ==
    ASSUME FlowTyped, NEW a \in Actors, NEW cycle, StopsWith(a, cycle), UNCHANGED <<opened, caught>>
    PROVE  \E place \in Aftermath, v \in {"stopped", "uncertain", "failed"} : Flows(a, place, v)
<1>1. SameCaught(a)
    BY Unmoved
<1> QED
    BY <1>1, StopsMoves DEF Flows, SameCaught

LEMMA GotoFlows ==
    ASSUME FlowTyped, NEW a \in Actors, NEW place, Goto(a, place), UNCHANGED <<verdict, caught>>,
           opened' \subseteq opened \cup {a}
    PROVE  Flows(a, place, verdict[a])
    BY Unmoved DEF Flows, SameCaught, Goto

\* the same with a verdict
LEMMA EndsFlows ==
    ASSUME FlowTyped, NEW a \in Actors, NEW place, Goto(a, place), UNCHANGED caught, NEW v,
           verdict' = [verdict EXCEPT ![a] = v], opened' \subseteq opened \cup {a}
    PROVE  Flows(a, place, v)
    BY Unmoved DEF Flows, SameCaught, Goto

(***************************************************************************)
(* One lemma per action: it is accounted for                               *)
(***************************************************************************)
Done(a) == Accounted(a) /\ Advances(a)

LEMMA QuietRaises ==
    ASSUME FlowTyped, VolumeTyped, CountInv, NEW a \in Actors, Raises(a), UNCHANGED <<opened, volume>>
    PROVE  Done(a)
<1>1. PICK place \in Aftermath, v \in {"stopped", "uncertain", "failed"} : Flows(a, place, v)
    BY RaisesFlows
<1>2. CountsAs(place, v, pos[a], legs[a], total[a], traded[a]) /\ place \in Places /\ v \in Verdicts
    BY ActorTyped, AftermathCounts DEF CountsAs
<1> QED
    BY <1>1, <1>2, QuietStep DEF Done

LEMMA QuietStops ==
    ASSUME FlowTyped, VolumeTyped, CountInv, NEW a \in Actors, NEW cycle, StopsWith(a, cycle),
           UNCHANGED <<opened, caught, volume>>
    PROVE  Done(a)
<1>1. PICK place \in Aftermath, v \in {"stopped", "uncertain", "failed"} : Flows(a, place, v)
    BY StopsFlows
<1>2. CountsAs(place, v, pos[a], legs[a], total[a], traded[a]) /\ place \in Places /\ v \in Verdicts
    BY ActorTyped, AftermathCounts DEF CountsAs
<1> QED
    BY <1>1, <1>2, QuietStep DEF Done

\* The actor goes on without an end of its campaign.
LEMMA QuietGoto ==
    ASSUME FlowTyped, VolumeTyped, CountInv, NEW a \in Actors, NEW place \in Places, Goto(a, place),
           UNCHANGED <<opened, caught, verdict, volume>>,
           CountsAs(place, verdict[a], pos[a], legs[a], total[a], traded[a])
    PROVE  Done(a)
<1>1. Flows(a, place, verdict[a])
    BY GotoFlows
<1> QED
    BY <1>1, QuietStep, ActorTyped DEF Done

LEMMA QuietSteps ==
    ASSUME FlowTyped, VolumeTyped, CountInv, NEW a \in Actors,
           \/ PrepareContext(a) \/ CheckOpenConditions(a) \/ WakeToCheck(a) \/ WakeFromPlan(a)
           \/ Hold(a) \/ CheckMarket(a) \/ Finish(a)
    PROVE  Done(a)
<1>0. CountsAs(at[a], verdict[a], pos[a], legs[a], total[a], traded[a])
    BY ActorTyped
<1>1. CASE PrepareContext(a)
  <2>1. CASE Goto(a, "check") /\ UNCHANGED verdict
    <3>1. CountsAs("check", verdict[a], pos[a], legs[a], total[a], traded[a])
      BY <1>0, <1>1 DEF PrepareContext, CountsAs
    <3> QED
      BY <1>1, <2>1, <3>1, QuietGoto DEF PrepareContext, Places
  <2>2. CASE Goto(a, "leave") /\ verdict' = [verdict EXCEPT ![a] = "failed"]
    <3>1. Flows(a, "leave", "failed")
      BY <1>1, <2>2, EndsFlows DEF PrepareContext
    <3>2. /\ CountsAs("leave", "failed", pos[a], legs[a], total[a], traded[a])
          /\ "leave" \in Places /\ "failed" \in Verdicts
      BY <1>0, ActorTyped, AftermathCounts DEF CountsAs, Aftermath
    <3> QED
      BY <1>1, <3>1, <3>2, QuietStep DEF PrepareContext, Done
  <2> QED
    BY <1>1, <2>1, <2>2 DEF PrepareContext
<1>2. CASE CheckOpenConditions(a)
  <2>1. CASE StopsWith(a, FALSE) /\ UNCHANGED caught
    BY <1>2, <2>1, QuietStops DEF CheckOpenConditions
  <2>2. ASSUME NEW place \in {"wait", "queue_open"}, Goto(a, place), UNCHANGED <<verdict, caught>>
        PROVE  Done(a)
    <3>1. CountsAs(place, verdict[a], pos[a], legs[a], total[a], traded[a]) /\ place \in Places
      BY <1>0, <1>2 DEF CheckOpenConditions, CountsAs, Places
    <3> QED
      BY <1>2, <2>2, <3>1, QuietGoto DEF CheckOpenConditions
  <2>3. CASE Raises(a)
    BY <1>2, <2>3, QuietRaises DEF CheckOpenConditions
  <2> QED
    BY <1>2, <2>1, <2>2, <2>3 DEF CheckOpenConditions
<1>3. CASE WakeToCheck(a) \/ WakeFromPlan(a)
  <2>1. CASE StopsWith(a, FALSE)
    BY <1>3, <2>1, QuietStops DEF WakeToCheck, WakeFromPlan
  <2>2. CASE Goto(a, "check") /\ UNCHANGED verdict
    <3>1. CountsAs("check", verdict[a], pos[a], legs[a], total[a], traded[a]) /\ "check" \in Places
      BY <1>0, <1>3 DEF WakeToCheck, WakeFromPlan, CountsAs, Places
    <3> QED
      BY <1>3, <2>2, <3>1, QuietGoto DEF WakeToCheck, WakeFromPlan
  <2> QED
    BY <1>3, <2>1, <2>2 DEF WakeToCheck, WakeFromPlan
<1>4. CASE Hold(a) \/ CheckMarket(a)
  <2>1. CASE StopsWith(a, TRUE)
    BY <1>4, <2>1, QuietStops DEF Hold, CheckMarket
  <2>2. ASSUME NEW place \in {"market", "queue_close"}, Goto(a, place), UNCHANGED verdict
        PROVE  Done(a)
    <3>1. CountsAs(place, verdict[a], pos[a], legs[a], total[a], traded[a]) /\ place \in Places
      BY <1>0, <1>4 DEF Hold, CheckMarket, CountsAs, Places
    <3> QED
      BY <1>4, <2>2, <3>1, QuietGoto DEF Hold, CheckMarket
  <2> QED
    BY <1>4, <2>1, <2>2 DEF Hold, CheckMarket
<1>5. CASE Finish(a)
  <2>1. CASE Goto(a, "leave") /\ UNCHANGED <<verdict, caught>>
    <3>1. CountsAs("leave", verdict[a], pos[a], legs[a], total[a], traded[a]) /\ "leave" \in Places
      BY <1>0, <1>5 DEF Finish, CountsAs, Places
    <3> QED
      BY <1>5, <2>1, <3>1, QuietGoto DEF Finish
  <2>2. CASE Raises(a)
    BY <1>5, <2>2, QuietRaises DEF Finish
  <2> QED
    BY <1>5, <2>1, <2>2 DEF Finish
<1> QED
    BY <1>1, <1>2, <1>3, <1>4, <1>5

LEMMA WaitCounts ==
    ASSUME FlowTyped, VolumeTyped, CountInv, NEW a \in Actors,
           WaitForPhase(a, "queue_open", "plan") \/ WaitForPhase(a, "queue_close", "close")
    PROVE  Done(a)
<1>0. CountsAs(at[a], verdict[a], pos[a], legs[a], total[a], traded[a])
    BY ActorTyped
<1>1. CASE StopsWith(a, FALSE) \/ StopsWith(a, TRUE)
    BY <1>1, QuietStops DEF WaitForPhase
<1>2. CASE UNCHANGED <<at, verdict>>
  <2>1. Goto(a, at[a])
    BY <1>2 DEF Goto, FlowTyped
  <2> QED
    BY <1>0, <1>2, <2>1, ActorTyped, QuietGoto DEF WaitForPhase
<1>3. CASE UNCHANGED verdict /\ at[a] = "queue_open" /\ at' = [at EXCEPT ![a] = "plan"]
  <2>1. CountsAs("plan", verdict[a], pos[a], legs[a], total[a], traded[a]) /\ "plan" \in Places
    BY <1>0, <1>3 DEF CountsAs, Places
  <2> QED
    BY <1>3, <2>1, QuietGoto DEF WaitForPhase, Goto
<1>4. CASE UNCHANGED verdict /\ at[a] = "queue_close" /\ at' = [at EXCEPT ![a] = "close"]
  <2>1. CountsAs("close", verdict[a], pos[a], legs[a], total[a], traded[a]) /\ "close" \in Places
    BY <1>0, <1>4 DEF CountsAs, Places
  <2> QED
    BY <1>4, <2>1, QuietGoto DEF WaitForPhase, Goto
<1> QED
    BY <1>1, <1>2, <1>3, <1>4 DEF WaitForPhase, Enqueues, Starts

LEMMA PlanCounts ==
    ASSUME FlowTyped, VolumeTyped, CountInv, NEW a \in Actors, PlanOpen(a) PROVE Done(a)
<1>0. CountsAs(at[a], verdict[a], pos[a], legs[a], total[a], traded[a]) /\ at[a] = "plan"
    BY ActorTyped DEF PlanOpen
<1>1. CASE Freezes(a) /\ Goto(a, "open") /\ UNCHANGED <<verdict, caught>>
  <2>1. opened' \subseteq opened \cup {a} /\ Advances(a) /\ legs' = [legs EXCEPT ![a] = 0]
    BY <1>1 DEF Freezes, Advances
  <2>2. Flows(a, "open", verdict[a])
    BY <1>1, <2>1, GotoFlows
  <2>3. Books(a, pos[a], 0, total[a], traded[a])
    BY <1>1, <2>1 DEF PlanOpen, Books, VolumeTyped
  <2>4. CountsAs("open", verdict[a], pos[a], 0, total[a], traded[a]) /\ "open" \in Places /\ 0 \in Nat
    BY <1>0 DEF CountsAs, Places
  <2> QED
    BY <2>1, <2>2, <2>3, <2>4, ActorTyped, AccountedIf DEF Done
<1>2. CASE Goto(a, "plan_wait") /\ UNCHANGED <<opened, cycles, legs, verdict, caught>>
  <2>1. CountsAs("plan_wait", verdict[a], pos[a], legs[a], total[a], traded[a]) /\ "plan_wait" \in Places
    BY <1>0 DEF CountsAs, Places
  <2> QED
    BY <1>2, <2>1, QuietGoto DEF PlanOpen, volume
<1>3. CASE Raises(a) /\ UNCHANGED <<opened, cycles, legs>>
    BY <1>3, QuietRaises DEF PlanOpen, volume
<1> QED
    BY <1>1, <1>2, <1>3 DEF PlanOpen

\* An exception after trading: it is enough that no more is counted than traded.
LEMMA TradedRaises ==
    ASSUME FlowTyped, VolumeTyped, NEW a \in Actors, Raises(a), UNCHANGED <<opened, cycles>>,
           NEW p \in 0..Lots, NEW l \in Nat, NEW t \in Nat, NEW r \in Nat, t <= r, Books(a, p, l, t, r)
    PROVE  Done(a)
<1>1. PICK place \in Aftermath, v \in {"stopped", "uncertain", "failed"} : Flows(a, place, v)
    BY RaisesFlows
<1>2. CountsAs(place, v, p, l, t, r) /\ place \in Places /\ v \in Verdicts
    BY AftermathCounts
<1> QED
    BY <1>1, <1>2, AccountedIf DEF Done, Advances

LEMMA OpenCounts ==
    ASSUME FlowTyped, VolumeTyped, CountInv, NEW a \in Actors, ExecuteOpen(a) PROVE Done(a)
<1>0. /\ total[a] = traded[a] /\ verdict[a] # "completed"
      /\ legs[a] \in Nat /\ total[a] \in Nat /\ verdict[a] \in Verdicts
  <2>1. CountsAs(at[a], verdict[a], pos[a], legs[a], total[a], traded[a]) /\ at[a] = "open"
    BY ActorTyped DEF ExecuteOpen
  <2> QED
    BY <2>1, ActorTyped DEF CountsAs
<1>1. PICK filled \in 0..Lots :
         /\ Fills(a, filled)
         /\ \/ /\ legs' = [legs EXCEPT ![a] = filled]
               /\ Goto(a, "hold")
               /\ UNCHANGED <<verdict, caught>>
            \/ /\ legs' \in {legs, [legs EXCEPT ![a] = filled]}
               /\ Raises(a)
    BY DEF ExecuteOpen
<1>2. filled \in Nat /\ traded[a] + filled \in Nat /\ total[a] <= traded[a] + filled
    BY <1>0, ActorsAssumption
<1>3. \A l : legs' = [legs EXCEPT ![a] = l] => Books(a, filled, l, total[a], traded[a] + filled)
    BY <1>1 DEF ExecuteOpen, Fills, Books, VolumeTyped
<1>4. CASE legs' = [legs EXCEPT ![a] = filled] /\ Goto(a, "hold") /\ UNCHANGED <<verdict, caught>>
  <2>1. Flows(a, "hold", verdict[a])
    BY <1>4, GotoFlows DEF ExecuteOpen
  <2>2. CountsAs("hold", verdict[a], filled, filled, total[a], traded[a] + filled) /\ "hold" \in Places
    BY <1>0, <1>2 DEF CountsAs, Places
  <2> QED
    BY <1>0, <1>2, <1>3, <1>4, <2>1, <2>2, AccountedIf DEF Done, Advances, ExecuteOpen
<1>5. CASE Raises(a)
  <2>1. PICK l \in Nat : legs' = [legs EXCEPT ![a] = l]
    BY <1>0, <1>1, <1>2 DEF VolumeTyped, ExecuteOpen
  <2> QED
    BY <1>0, <1>2, <1>3, <1>5, <2>1, TradedRaises DEF ExecuteOpen
<1> QED
    BY <1>1, <1>4, <1>5

\* What selling leaves of the position and adds to the volume.
LEMMA Sells ==
    ASSUME FlowTyped, VolumeTyped, CountInv, NEW a \in Actors, NEW sold \in 0..pos[a], Reduces(a, sold)
    PROVE  /\ sold \in Nat /\ pos[a] - sold \in 0..Lots /\ traded[a] + sold \in Nat
           /\ total[a] <= traded[a] + sold /\ total[a] \in Nat /\ legs[a] \in Nat
           /\ \A l, t : legs' = [legs EXCEPT ![a] = l] /\ total' = [total EXCEPT ![a] = t]
                       => Books(a, pos[a] - sold, l, t, traded[a] + sold)
           /\ UNCHANGED <<legs, total>> => Books(a, pos[a] - sold, legs[a], total[a], traded[a] + sold)
<1>1. /\ pos[a] \in 0..Lots /\ traded[a] \in Nat /\ total[a] \in Nat /\ legs[a] \in Nat
      /\ total[a] <= traded[a] /\ Lots \in Nat
    BY ActorTyped, ActorsAssumption DEF CountsAs
<1>2. sold \in Nat /\ pos[a] - sold \in 0..Lots /\ traded[a] + sold \in Nat /\ total[a] <= traded[a] + sold
    BY <1>1
<1>3. \A l, t : legs' = [legs EXCEPT ![a] = l] /\ total' = [total EXCEPT ![a] = t]
                => Books(a, pos[a] - sold, l, t, traded[a] + sold)
    BY DEF Reduces, Books, VolumeTyped
<1>4. legs = [legs EXCEPT ![a] = legs[a]] /\ total = [total EXCEPT ![a] = total[a]]
    BY DEF VolumeTyped
<1> QED
    BY <1>1, <1>2, <1>3, <1>4

LEMMA SaleCounts ==
    ASSUME FlowTyped, VolumeTyped, CountInv, NEW a \in Actors,
           CloseStopped(a) \/ SafeStop(a) \/ CloseRaises(a)
    PROVE  Done(a)
<1>1. PICK sold \in 0..pos[a] :
         /\ Reduces(a, sold) /\ UNCHANGED <<legs, total, cycles, stop>>
         /\ \/ /\ Goto(a, "finish") /\ UNCHANGED caught
               /\ opened' \subseteq opened \cup {a}
               /\ \E v \in {"stopped", "uncertain"} : verdict' = [verdict EXCEPT ![a] = v]
            \/ Raises(a) /\ UNCHANGED opened
  <2>1. CASE CloseStopped(a)
    <3>1. PICK sold \in 0..pos[a] :
            /\ Reduces(a, sold)
            /\ \/ /\ Goto(a, "finish")
                  /\ opened' = opened \ {a}
                  /\ \E outcome \in IF sold = pos[a] THEN {"stopped", "uncertain"} ELSE {"uncertain"} :
                        verdict' = [verdict EXCEPT ![a] = outcome]
                  /\ UNCHANGED caught
               \/ Raises(a) /\ UNCHANGED opened
      BY <2>1 DEF CloseStopped
    <3> QED
      BY <2>1, <3>1 DEF CloseStopped
  <2>2. CASE SafeStop(a)
    <3>1. PICK sold \in 0..pos[a] :
            /\ Reduces(a, sold)
            /\ \/ /\ Goto(a, "finish")
                  /\ \E outcome \in IF sold = pos[a] THEN {"stopped", "uncertain"} ELSE {"uncertain"} :
                        verdict' = [verdict EXCEPT ![a] = outcome]
                  /\ UNCHANGED caught
               \/ Raises(a)
      BY <2>2 DEF SafeStop
    <3> QED
      BY <2>2, <3>1 DEF SafeStop
  <2>3. CASE CloseRaises(a)
    BY <2>3 DEF CloseRaises
  <2> QED
    BY <2>1, <2>2, <2>3
<1>2. /\ sold \in Nat /\ pos[a] - sold \in 0..Lots /\ traded[a] + sold \in Nat
      /\ total[a] <= traded[a] + sold /\ total[a] \in Nat /\ legs[a] \in Nat
      /\ Books(a, pos[a] - sold, legs[a], total[a], traded[a] + sold)
    BY <1>1, Sells
<1>3. CASE Raises(a) /\ UNCHANGED opened
    BY <1>1, <1>2, <1>3, TradedRaises
<1>4. ASSUME NEW v \in {"stopped", "uncertain"}, Goto(a, "finish"), UNCHANGED caught,
             opened' \subseteq opened \cup {a}, verdict' = [verdict EXCEPT ![a] = v]
      PROVE  Done(a)
  <2>1. Flows(a, "finish", v)
    BY <1>4, EndsFlows
  <2>2. /\ CountsAs("finish", v, pos[a] - sold, legs[a], total[a], traded[a] + sold)
        /\ "finish" \in Places /\ v \in Verdicts
    BY <1>2, AftermathCounts DEF Aftermath
  <2> QED
    BY <1>1, <1>2, <2>1, <2>2, AccountedIf DEF Done, Advances
<1> QED
    BY <1>1, <1>3, <1>4

LEMMA RetryCounts ==
    ASSUME FlowTyped, VolumeTyped, CountInv, NEW a \in Actors, CloseRetries(a) PROVE Done(a)
<1>0. /\ total[a] + legs[a] = traded[a] /\ verdict[a] # "completed" /\ verdict[a] \in Verdicts
      /\ legs[a] \in Nat /\ total[a] \in Nat /\ traded[a] \in Nat
  <2>1. CountsAs(at[a], verdict[a], pos[a], legs[a], total[a], traded[a]) /\ at[a] = "close"
    BY ActorTyped DEF CloseRetries
  <2> QED
    BY <2>1, ActorTyped DEF CountsAs
<1>1. PICK sold \in 0..pos[a] : Reduces(a, sold) /\ legs' = [legs EXCEPT ![a] = @ + sold] /\ total' = total
    BY DEF CloseRetries, CountsLater
<1>2. /\ sold \in Nat /\ pos[a] - sold \in 0..Lots /\ traded[a] + sold \in Nat
      /\ Books(a, pos[a] - sold, legs[a] + sold, total[a], traded[a] + sold)
  <2>1. total' = [total EXCEPT ![a] = total[a]]
    BY <1>1 DEF VolumeTyped
  <2> QED
    BY <1>1, <2>1, Sells
<1>3. Flows(a, "close_wait", verdict[a])
    BY GotoFlows DEF CloseRetries
<1>4. /\ CountsAs("close_wait", verdict[a], pos[a] - sold, legs[a] + sold, total[a], traded[a] + sold)
      /\ "close_wait" \in Places /\ legs[a] + sold \in Nat
    BY <1>0, <1>2 DEF CountsAs, Places
<1> QED
    BY <1>0, <1>2, <1>3, <1>4, AccountedIf DEF Done, Advances, CloseRetries

\* A cycle that is counted once is counted whole.
LEMMA CycleCounts ==
    ASSUME FlowTyped, VolumeTyped, CountInv, NEW a \in Actors, CloseCounts(a) PROVE Done(a)
<1>0. /\ total[a] + legs[a] = traded[a]
      /\ legs[a] \in Nat /\ total[a] \in Nat /\ traded[a] \in Nat /\ pos[a] \in 0..Lots
  <2>1. CountsAs(at[a], verdict[a], pos[a], legs[a], total[a], traded[a]) /\ at[a] = "close"
    BY ActorTyped DEF CloseCounts
  <2> QED
    BY <2>1, ActorTyped DEF CountsAs
<1>1. PICK sold \in 0..pos[a], seen \in BOOLEAN, soft \in BOOLEAN, uncertain \in BOOLEAN :
         LET quote == legs[a] + sold
             flat  == seen /\ sold = pos[a]
         IN  /\ Reduces(a, sold)
             /\ total' = [total EXCEPT ![a] = @ + quote]
             /\ \/ \E next \in AfterCycle(quote, total'[a], flat, soft, uncertain) :
                      /\ Goto(a, next.place)
                      /\ verdict' = [verdict EXCEPT ![a] = next.verdict]
                      /\ opened' = opened \ {a}
                      /\ legs' = [legs EXCEPT ![a] = 0]
                      /\ UNCHANGED caught
                \/ /\ Raises(a)
                   /\ legs' = [legs EXCEPT ![a] = quote]
                   /\ UNCHANGED opened
    BY DEF CloseCounts
<1> DEFINE quote == legs[a] + sold
           flat  == seen /\ sold = pos[a]
           t == total[a] + quote
           r == traded[a] + sold
<1>2. /\ sold \in Nat /\ pos[a] - sold \in 0..Lots /\ quote \in Nat /\ t \in Nat /\ r \in Nat /\ t = r
      /\ \A l : legs' = [legs EXCEPT ![a] = l] => Books(a, pos[a] - sold, l, t, r)
  <2>1. Reduces(a, sold) /\ total' = [total EXCEPT ![a] = t]
    BY <1>1
  <2>2. /\ sold \in Nat /\ pos[a] - sold \in 0..Lots
        /\ \A l : legs' = [legs EXCEPT ![a] = l] => Books(a, pos[a] - sold, l, t, r)
    BY <2>1, Sells
  <2>3. quote \in Nat /\ t \in Nat /\ r \in Nat /\ t = r
    BY <1>0, <2>2
  <2> QED
    BY <2>2, <2>3
<1>3. CASE Raises(a) /\ legs' = [legs EXCEPT ![a] = quote] /\ UNCHANGED opened
  <2>1. UNCHANGED cycles
    BY DEF CloseCounts
  <2> HIDE DEF t, r, quote
  <2>2. Books(a, pos[a] - sold, quote, t, r)
    BY <1>2, <1>3
  <2>3. t <= r
    BY <1>2
  <2> QED
    BY <1>2, <1>3, <2>1, <2>2, <2>3, TradedRaises
<1>4. ASSUME NEW next \in AfterCycle(quote, total'[a], flat, soft, uncertain), Goto(a, next.place),
             verdict' = [verdict EXCEPT ![a] = next.verdict], opened' = opened \ {a},
             legs' = [legs EXCEPT ![a] = 0], UNCHANGED caught
      PROVE  Done(a)
  <2>1. total'[a] = t
    BY <1>1 DEF VolumeTyped
  <2>2. /\ next.place \in {"finish", "wait"} /\ next.verdict \in Verdicts
        /\ next.verdict = "completed" => next.place = "finish"
        /\ next.place = "wait" => flat /\ ~TargetReached(t)
    <3> HIDE DEF t, quote
    <3>1. flat \in BOOLEAN /\ next \in AfterCycle(quote, t, flat, soft, uncertain)
      BY <1>4, <2>1
    <3> HIDE DEF flat
    <3> QED
      BY <3>1, NextPlace
  <2>3. Flows(a, next.place, next.verdict)
    BY <1>4, EndsFlows
  <2>4. next.place = "wait" => pos[a] - sold = 0
    BY <1>0, <1>2, <2>2
  <2> HIDE DEF t, r
  <2>5. /\ CountsAs(next.place, next.verdict, pos[a] - sold, 0, t, r)
        /\ next.place \in Places
    BY <1>2, <2>2, <2>4 DEF CountsAs, Places
  <2> QED
    BY <1>2, <1>4, <2>2, <2>3, <2>5, AccountedIf DEF Done, Advances, CloseCounts
<1> QED
    BY <1>1, <1>3, <1>4

LEMMA LeaveCounts ==
    ASSUME FlowTyped, VolumeTyped, CountInv, NEW a \in Actors, Leave(a) PROVE Done(a)
<1>0. CountsAs("leave", verdict[a], pos[a], legs[a], total[a], traded[a])
    BY ActorTyped DEF Leave
<1>1. Flows(a, "done", verdict[a])
    BY DEF Leave, Flows, Goto, FlowTyped
<1>2. Books(a, pos[a], 0, total[a], traded[a])
    BY DEF Leave, Books, VolumeTyped
<1>3. CountsAs("done", verdict[a], pos[a], 0, total[a], traded[a]) /\ "done" \in Places /\ 0 \in Nat
    BY <1>0 DEF CountsAs, Places
<1> QED
    BY <1>1, <1>2, <1>3, ActorTyped, AccountedIf DEF Done, Advances, Leave

LEMMA StepCounts ==
    ASSUME FlowTyped, VolumeTyped, CountInv, NEW a \in Actors, Step(a)
    PROVE  /\ FlowTyped' /\ VolumeTyped' /\ CountInv'
           /\ \A b \in Actors : b # a => at'[b] = at[b]
<1>1. Done(a)
    BY QuietSteps, WaitCounts, PlanCounts, OpenCounts, SaleCounts, RetryCounts, CycleCounts, LeaveCounts
       DEF Step
<1>2. UNCHANGED stop
    BY DEF Step, PrepareContext, CheckOpenConditions, WakeToCheck, WaitForPhase, PlanOpen, WakeFromPlan,
           ExecuteOpen, Hold, CheckMarket, CloseStopped, CloseRetries, CloseCounts, CloseRaises, SafeStop,
           Finish, Leave
<1> QED
    BY <1>1, <1>2, AccountedKeeps DEF Done

(***************************************************************************)
(* The capacity gate                                                       *)
(***************************************************************************)
\* A step in which only one actor moves, and takes or gives back no slot but
\* its own.
LEMMA SlotKept ==
    ASSUME SlotInv, NEW a \in Actors, at \in [Actors -> Places], at' \in [Actors -> Places],
           \A b \in Actors : b # a => at'[b] = at[b],
           \/ active' = active /\ (InSlot(a)' <=> InSlot(a))
           \/ active' = active \ {a} /\ ~InSlot(a)'
    PROVE  SlotInv'
<1>1. active' = {b \in Actors : InSlot(b)'}
    BY DEF SlotInv, SlotsAreInUse, InSlot
<1>2. active' \subseteq active
    OBVIOUS
<1>3. IsFiniteSet(active') /\ Cardinality(active') <= Cardinality(active)
    BY <1>2, FS_Subset DEF SlotInv
<1>4. Cardinality(active) \in Nat /\ Cardinality(active') \in Nat /\ Cardinality(active) <= MaxNormal
    BY <1>3, FS_CardinalityType DEF SlotInv, SlotsAreInUse
<1>5. Cardinality(active') <= MaxNormal
    BY <1>3, <1>4, ActorsAssumption
<1> QED
    BY <1>1, <1>2, <1>3, <1>5 DEF SlotInv, SlotsAreInUse

LEMMA SlotTaken ==
    ASSUME SlotInv, NEW a \in Actors, NEW place, Starts(a, place), place \in {"plan", "close"},
           at \in [Actors -> Places]
    PROVE  SlotInv'
<1>1. /\ active' = active \cup {a} /\ at' = [at EXCEPT ![a] = place]
      /\ Cardinality(active) < MaxNormal /\ \A b \in active : ProxyOf[b] # ProxyOf[a]
    BY DEF Starts, NextEligible, Ready
<1>2. a \notin active
    BY <1>1
<1>3. active' = {b \in Actors : InSlot(b)'}
    BY <1>1 DEF SlotInv, SlotsAreInUse, InSlot
<1>4. IsFiniteSet(active') /\ Cardinality(active') = Cardinality(active) + 1
    BY <1>1, <1>2, FS_AddElement DEF SlotInv
<1>5. Cardinality(active) \in Nat
    BY FS_CardinalityType DEF SlotInv
<1>6. Cardinality(active') <= MaxNormal
    BY <1>1, <1>4, <1>5, ActorsAssumption
<1>7. \A b, c \in active' : ProxyOf[b] = ProxyOf[c] => b = c
    BY <1>1 DEF SlotInv, SlotsAreInUse
<1> QED
    BY <1>3, <1>4, <1>6, <1>7 DEF SlotInv, SlotsAreInUse

\* The places a step leads to.
LEMMA Whereto ==
    ASSUME FlowTyped, NEW a \in Actors
    PROVE  /\ Raises(a) => at'[a] \in Aftermath
           /\ \A cycle : StopsWith(a, cycle) => at'[a] \in Aftermath
           /\ \A place : Goto(a, place) => at'[a] = place
<1>1. Raises(a) => at'[a] \in Aftermath
    BY RaisesMoves DEF FlowTyped
<1>2. \A place : Goto(a, place) => at'[a] = place
    BY DEF FlowTyped, Goto
<1>3. \A cycle : StopsWith(a, cycle) => at'[a] \in Aftermath
    BY <1>2 DEF StopsWith, Aftermath
<1> QED
    BY <1>1, <1>2, <1>3

\* Steps outside the gate, and those that end a phase.
LEMMA StepSlots ==
    ASSUME FlowTyped, GateTyped, NEW a \in Actors, Step(a)
    PROVE  /\ GateTyped'
           /\ \/ active' = active /\ (InSlot(a)' <=> InSlot(a))
              \/ active' = active \ {a} /\ ~InSlot(a)'
              \/ Starts(a, "plan") \/ Starts(a, "close")
<1>0. Without(queue, a) \in Seq(Actors) /\ Append(queue, a) \in Seq(Actors)
    BY WithoutTyped DEF GateTyped
<1>1. CASE PrepareContext(a) \/ CheckOpenConditions(a) \/ WakeToCheck(a) \/ Hold(a) \/ CheckMarket(a)
           \/ SafeStop(a) \/ Finish(a)
  <2>1. UNCHANGED capacity /\ ~InSlot(a)
    BY <1>1 DEF PrepareContext, CheckOpenConditions, WakeToCheck, Hold, CheckMarket, SafeStop, Finish, InSlot
  <2>2. at'[a] \in Aftermath \cup {"check", "wait", "queue_open", "market", "queue_close"}
    BY <1>1, Whereto DEF PrepareContext, CheckOpenConditions, WakeToCheck, Hold, CheckMarket, SafeStop,
                         Finish, Aftermath
  <2> QED
    BY <2>1, <2>2 DEF capacity, InSlot, Aftermath, GateTyped
<1>2. CASE WakeFromPlan(a) \/ ExecuteOpen(a) \/ CloseStopped(a) \/ CloseRetries(a) \/ CloseRaises(a)
           \/ CloseCounts(a)
  <2>1. UNCHANGED <<queue, cooling, early>> /\ active' = active \ {a}
    BY <1>2 DEF WakeFromPlan, ExecuteOpen, CloseStopped, CloseRetries, CloseRaises, CloseCounts, FinishPhase
  <2>2. at'[a] \in Aftermath \cup {"check", "hold", "close_wait", "wait"}
    <3>1. CASE CloseCounts(a)
      <4>1. PICK sold \in 0..pos[a], seen \in BOOLEAN, soft \in BOOLEAN, uncertain \in BOOLEAN :
               \/ \E next \in AfterCycle(legs[a] + sold, total'[a], seen /\ sold = pos[a], soft, uncertain) :
                     Goto(a, next.place)
               \/ Raises(a)
        BY <3>1 DEF CloseCounts
      <4>2. CASE Raises(a)
        BY <4>2, Whereto
      <4> DEFINE flat == seen /\ sold = pos[a]
      <4>3. ASSUME NEW next \in AfterCycle(legs[a] + sold, total'[a], flat, soft, uncertain),
                   Goto(a, next.place)
            PROVE  at'[a] \in {"finish", "wait"}
        <5>1. flat \in BOOLEAN
          OBVIOUS
        <5>2. next.place \in {"finish", "wait"}
          <6> HIDE DEF flat
          <6> QED
            BY <4>3, <5>1, NextPlace
        <5> QED
          BY <4>3, <5>2, Whereto
      <4> QED
        BY <4>1, <4>2, <4>3 DEF Aftermath
    <3>2. CASE ~CloseCounts(a)
      BY <1>2, <3>2, Whereto DEF WakeFromPlan, ExecuteOpen, CloseStopped, CloseRetries, CloseRaises, Aftermath
    <3> QED
      BY <3>1, <3>2
  <2> QED
    BY <2>1, <2>2 DEF InSlot, Aftermath, GateTyped
<1>3. CASE PlanOpen(a)
  <2>1. UNCHANGED <<queue, cooling, early>> /\ InSlot(a)
    BY <1>3 DEF PlanOpen, InSlot
  <2>2. \/ at'[a] \in {"open", "plan_wait"} /\ active' = active
        \/ at'[a] \in Aftermath /\ active' = active \ {a}
    BY <1>3, Whereto DEF PlanOpen, FinishPhase
  <2> QED
    BY <2>1, <2>2 DEF InSlot, Aftermath, GateTyped
<1>4. CASE Leave(a)
  <2>1. /\ active' = active \ {a} /\ at'[a] = "done" /\ UNCHANGED cooling
        /\ queue' = Without(queue, a) /\ early' \subseteq early
    BY <1>4, Whereto DEF Leave, CancelPhase
  <2> QED
    BY <1>0, <2>1 DEF InSlot, GateTyped
<1>5. ASSUME NEW here \in {"queue_open", "queue_close"}, NEW phase \in {"plan", "close"},
             WaitForPhase(a, here, phase), here = "queue_open" <=> phase = "plan"
      PROVE  /\ GateTyped'
             /\ \/ active' = active /\ (InSlot(a)' <=> InSlot(a))
                \/ Starts(a, phase)
  <2>1. ~InSlot(a)
    BY <1>5 DEF WaitForPhase, InSlot
  <2>2. CASE CancelPhase(a) /\ StopsWith(a, here = "queue_close") /\ UNCHANGED <<active, cooling>>
    <3>1. at'[a] \in Aftermath /\ queue' = Without(queue, a) /\ early' \subseteq early
      BY <2>2, Whereto DEF CancelPhase
    <3> QED
      BY <1>0, <2>1, <2>2, <3>1 DEF InSlot, Aftermath, GateTyped
  <2>3. CASE Enqueues(a)
    <3>1. queue' = Append(queue, a) /\ early' \in {early, early \cup {a}} /\ UNCHANGED <<at, active, cooling>>
      BY <2>3 DEF Enqueues
    <3> QED
      BY <1>0, <2>1, <3>1 DEF InSlot, GateTyped
  <2>4. CASE Starts(a, phase)
    <3>1. /\ queue' = Without(queue, a) /\ active' = active \cup {a} /\ UNCHANGED early
          /\ cooling' = cooling \cup {Rate, ProxyOf[a]}
      BY <2>4 DEF Starts
    <3> QED
      BY <1>0, <2>4, <3>1, ActorsAssumption DEF GateTyped
  <2> QED
    BY <1>5, <2>2, <2>3, <2>4 DEF WaitForPhase
<1> QED
    BY <1>1, <1>2, <1>3, <1>4, <1>5 DEF Step

(***************************************************************************)
(* The whole                                                               *)
(***************************************************************************)
ActorInv == TypeInv /\ SlotInv /\ CountInv

LEMMA InitActors == Init => ActorInv
<1> SUFFICES ASSUME Init PROVE ActorInv
    OBVIOUS
<1>1. TypeInv
    BY ActorsAssumption DEF Init, TypeInv, FlowTyped, VolumeTyped, GateTyped, Places, Verdicts
<1>2. SlotInv
  <2>1. Cardinality(active) = 0 /\ IsFiniteSet(active)
    BY FS_EmptySet DEF Init
  <2>2. active = {a \in Actors : InSlot(a)}
    BY DEF Init, InSlot
  <2> QED
    BY <2>1, <2>2, ActorsAssumption DEF Init, SlotInv, SlotsAreInUse
<1>3. CountInv
    BY ActorsAssumption DEF Init, CountInv, Counts, Closing, TargetReached
<1> QED
    BY <1>1, <1>2, <1>3 DEF ActorInv

LEMMA NextActors == ActorInv /\ [Next]_vars => ActorInv'
<1> SUFFICES ASSUME ActorInv, [Next]_vars PROVE ActorInv'
    OBVIOUS
<1> USE DEF ActorInv, TypeInv
<1>1. ASSUME NEW a \in Actors, Step(a) PROVE ActorInv'
  <2>1. /\ FlowTyped' /\ VolumeTyped' /\ CountInv'
        /\ \A b \in Actors : b # a => at'[b] = at[b]
    BY <1>1, StepCounts
  <2>2. /\ GateTyped'
        /\ \/ active' = active /\ (InSlot(a)' <=> InSlot(a))
           \/ active' = active \ {a} /\ ~InSlot(a)'
           \/ Starts(a, "plan") \/ Starts(a, "close")
    BY <1>1, StepSlots
  <2>3. at \in [Actors -> Places] /\ at' \in [Actors -> Places]
    BY <2>1 DEF FlowTyped
  <2>4. SlotInv'
    BY <2>1, <2>2, <2>3, SlotKept, SlotTaken
  <2> QED
    BY <2>1, <2>2, <2>4
<1>2. ASSUME UNCHANGED <<coroutine, volume, queue, active>>, stop' \subseteq Actors,
             early' \subseteq Actors, cooling' \subseteq Proxies \cup {Rate}
      PROVE  ActorInv'
  <2>1. FlowTyped' /\ VolumeTyped' /\ GateTyped'
    BY <1>2 DEF coroutine, volume, FlowTyped, VolumeTyped, GateTyped
  <2>2. SlotInv'
    BY <1>2 DEF coroutine, SlotInv, SlotsAreInUse, InSlot
  <2>3. CountInv'
    BY <1>2 DEF coroutine, volume, CountInv, Counts, Closing, BetweenRounds, TargetReached
  <2> QED
    BY <2>1, <2>2, <2>3
<1>3. CASE \E a \in Actors : Stop(a) \/ JitterPasses(a)
    BY <1>2, <1>3 DEF Stop, JitterPasses, FlowTyped, GateTyped, capacity
<1>4. CASE \E p \in Proxies \cup {Rate} : TimePasses(p)
    BY <1>2, <1>4 DEF TimePasses, FlowTyped, GateTyped
<1>5. CASE UNCHANGED vars
    BY <1>2, <1>5 DEF vars, capacity, FlowTyped, GateTyped
<1> QED
    BY <1>1, <1>3, <1>4, <1>5 DEF Next

LEMMA ActorsStay == Spec => []ActorInv
    BY InitActors, NextActors, PTL DEF Spec

\* Every variable keeps its type; the gate holds the slots of exactly the
\* actors that are in a phase, no more than there are, and none two for one
\* proxy: whatever raises, is stopped or waits.
THEOREM GateIsSound == Spec => []TypedSlots
<1>1. ActorInv => TypedSlots
    BY DEF ActorInv, TypeInv, FlowTyped, VolumeTyped, GateTyped, SlotInv, TypedSlots, TypeOK, Verdicts
<1> QED
    BY <1>1, ActorsStay, PTL

\* A campaign never counts more volume than it made; between two rounds, and
\* when it is completed, it has counted all of it, whatever was closed in
\* parts, retried, raised or stopped before.
THEOREM VolumeIsCountedOnce == Spec => []VolumeCountedOnce
<1>1. ActorInv => VolumeCountedOnce
    BY DEF ActorInv, CountInv, Counts, VolumeCountedOnce
<1> QED
    BY <1>1, ActorsStay, PTL
=============================================================================
