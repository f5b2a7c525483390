----------------------------- MODULE FleetActors -----------------------------
(***************************************************************************)
(* Campaign actors of the control plane (fleet_api/campaigns/actors), each *)
(* the coroutine of one campaign, with what they share in one process: the *)
(* phase slots of ExecutionCapacity and the public market data.  All       *)
(* coroutines run on one event loop; a step here is the stretch from one   *)
(* await to the next, blocking calls in the worker pools included.         *)
(*                                                                         *)
(* The two legs of a cycle are one position of Lots lots; opening and      *)
(* closing it make volume, and the lanes that do so are MakerLeg's.  Clock *)
(* readings become the set cooling of proxies (and the global rate) whose  *)
(* next start is not yet due.  Durations, quotes and events are left out.  *)
(***************************************************************************)
EXTENDS Naturals, FiniteSets, SequencesExt

CONSTANTS
    Actors,
    Proxies, ProxyOf,   \* ProxyOf[a]: the proxy partition of actor a
    Rate,               \* what stands for the global start rate in cooling
    MaxNormal,          \* max_normal_phases
    Lots,               \* size of a cycle's position
    Target,             \* target_turnover_quote, in lots traded
    Tolerance,          \* target_tolerance_quote
    MaxRounds,          \* bound: MaxRounds[a] cycles are opened by actor a
    Stoppable           \* bound: actors that may be asked to stop

ASSUME ActorsAssumption ==
    /\ ProxyOf \in [Actors -> Proxies] /\ Rate \notin Proxies
    /\ MaxNormal \in Nat \ {0} /\ Lots \in Nat \ {0} /\ Target \in Nat \ {0}
    /\ Tolerance \in Nat /\ MaxRounds \in [Actors -> Nat] /\ Stoppable \subseteq Actors

VARIABLES
    at,         \* where the coroutine stands
    stop,       \* actors whose stop event is set
    opened,     \* actors whose local variable opened holds a cycle
    caught,     \* exceptions handled: 0 none, 1 safe stop, 2 plain finish
    pos,        \* the lots a campaign's cycle really holds
    legs,       \* volume in open_summaries and close_summaries
    total,      \* child_total_quote
    verdict,    \* the outcome to be saved, or saved
    queue,      \* _queued: actors with a queued phase, in order of arrival
    active,     \* _active: actors that hold a phase slot
    cooling,    \* proxies, or Rate, whose next start time has not come
    early,      \* queued actors whose not_before has not come
    traded,     \* the volume a campaign has really made
    cycles      \* cycles opened so far

coroutine == <<at, opened, caught, verdict>>
volume    == <<pos, legs, total, traded, cycles>>
capacity  == <<queue, active, cooling, early>>
vars == <<coroutine, stop, volume, capacity>>

-----------------------------------------------------------------------------
(* The capacity gate                                                       *)

\* Mutant: a busy proxy is no obstacle.
ReadyWhenCool(a) == ProxyOf[a] \notin cooling /\ a \notin early
\* A queued phase whose own limits are met...
Ready(a) ==
    /\ ProxyOf[a] \notin cooling /\ a \notin early
    /\ \A b \in active : ProxyOf[b] # ProxyOf[a]

\* ... starts when it is the first such phase: no head-of-line blocking.
NextEligible(q, a) ==
    /\ Cardinality(active) < MaxNormal /\ Rate \notin cooling
    /\ Ready(a)
    /\ \A i \in 1..Len(q) : (\E j \in 1..Len(q) : i < j /\ q[j] = a) => ~Ready(q[i])

Uncontended(a) == queue = <<>> /\ active = {} /\ cooling \cap {Rate, ProxyOf[a]} = {}

\* Mutant: the slot is given back only by a phase that succeeded.
KeepsSlot(a) == active
FinishPhase(a) == active \ {a}

\* An actor has at most one phase in the queue.
Without(q, a) ==
    IF Contains(q, a) THEN RemoveAt(q, CHOOSE i \in 1..Len(q) : q[i] = a) ELSE q

\* A poll of try_start_phase: it queues the phase, with jitter when there is
\* contention, and starts it when its turn has come.
Enqueues(a) ==
    /\ ~Contains(queue, a)
    /\ queue' = Append(queue, a)
    /\ early' \in IF Uncontended(a) THEN {early} ELSE {early, early \cup {a}}
    /\ UNCHANGED <<at, active, cooling>>

Starts(a, phase) ==
    /\ Contains(queue, a) /\ NextEligible(queue, a)
    /\ queue' = Without(queue, a)
    /\ active' = active \cup {a}
    /\ cooling' = cooling \cup {Rate, ProxyOf[a]}
    /\ at' = [at EXCEPT ![a] = phase]
    /\ UNCHANGED early

CancelPhase(a) ==
    /\ queue' = Without(queue, a)
    /\ early' = early \ {a}

TimePasses(p) ==
    /\ p \in cooling
    /\ cooling' = cooling \ {p}
    /\ UNCHANGED <<coroutine, stop, volume, queue, active, early>>

JitterPasses(a) ==
    /\ a \in early
    /\ early' = early \ {a}
    /\ UNCHANGED <<coroutine, stop, volume, queue, active, cooling>>

-----------------------------------------------------------------------------
(* How a coroutine moves                                                   *)

Goto(a, place) == at' = [at EXCEPT ![a] = place]

\* _finish_stopped: through the safe stop when there is an open cycle.
StopsWith(a, cycle) ==
    /\ Goto(a, IF cycle THEN "safe_stop" ELSE "finish")
    /\ verdict' = [verdict EXCEPT ![a] = "stopped"]

\* Mutant: whatever fails leads to the safe stop.
RaisesAgain(a) ==
    /\ Goto(a, IF a \in opened THEN "safe_stop" ELSE "leave")
    /\ verdict' = [verdict EXCEPT ![a] = IF a \in opened THEN "stopped" ELSE "failed"]
    /\ UNCHANGED caught
\* An exception: the open cycle is safely stopped; failing that, or without one, the
\* campaign is finished; failing that the manager's on_failure decides.
Raises(a) ==
    /\ CASE caught[a] = 0 /\ a \in opened ->
              /\ Goto(a, "safe_stop") /\ caught' = [caught EXCEPT ![a] = 1]
              /\ verdict' = [verdict EXCEPT ![a] = "stopped"]
         [] caught[a] < 2 /\ ~(caught[a] = 0 /\ a \in opened) ->
              /\ Goto(a, "finish") /\ caught' = [caught EXCEPT ![a] = 2]
              /\ verdict' = [verdict EXCEPT ![a] = "stopped"]
         [] OTHER ->
              /\ Goto(a, "leave") /\ UNCHANGED caught
              /\ verdict' = [verdict EXCEPT ![a] = "failed"]

-----------------------------------------------------------------------------
(* The life of an actor                                                    *)

PrepareContext(a) ==
    /\ at[a] = "prepare"
    /\ \/ Goto(a, "check") /\ UNCHANGED verdict
       \/ Goto(a, "leave") /\ verdict' = [verdict EXCEPT ![a] = "failed"]
    /\ UNCHANGED <<opened, caught, stop, volume, capacity>>

\* Read-only conditions, while flat: the freshness of the shared market, then the
\* account.  Reading them may fail.
CheckOpenConditions(a) ==
    /\ at[a] = "check"
    /\ \/ a \in stop /\ StopsWith(a, FALSE) /\ UNCHANGED caught
       \/ /\ a \notin stop
          /\ \E place \in {"wait", "queue_open"} : Goto(a, place)
          /\ UNCHANGED <<verdict, caught>>
       \/ a \notin stop /\ Raises(a)
    /\ UNCHANGED <<opened, stop, volume, capacity>>

\* A condition's backoff, before or after a cycle, or the gap between two rounds:
\* sleep_until ends at its deadline or with the stop.
WakeToCheck(a) ==
    /\ at[a] = "wait"
    /\ IF a \in stop THEN StopsWith(a, FALSE) ELSE Goto(a, "check") /\ UNCHANGED verdict
    /\ UNCHANGED <<opened, caught, stop, volume, capacity>>

WaitForPhase(a, here, phase) ==
    /\ at[a] = here
    /\ IF a \in stop
       THEN /\ CancelPhase(a)
            /\ StopsWith(a, here = "queue_close")
            /\ UNCHANGED <<active, cooling>>
       ELSE /\ Enqueues(a) \/ Starts(a, phase)
            /\ UNCHANGED verdict
    /\ UNCHANGED <<opened, caught, stop, volume>>

\* build_cycle_plan: one attempt's plan is frozen, and persisted before any order.
Freezes(a) ==
    /\ cycles[a] < MaxRounds[a]
    /\ opened' = opened \cup {a}
    /\ cycles' = [cycles EXCEPT ![a] = @ + 1]
    /\ legs' = [legs EXCEPT ![a] = 0]

\* plan_open: a frozen cycle; or a condition, which is waited for with the slot in
\* hand; or an exception.
PlanOpen(a) ==
    /\ at[a] = "plan"
    /\ \/ /\ Freezes(a)
          /\ Goto(a, "open")
          /\ UNCHANGED <<verdict, caught, active>>
       \/ /\ Goto(a, "plan_wait")
          /\ UNCHANGED <<opened, cycles, legs, verdict, caught, active>>
       \/ /\ Raises(a)
          /\ active' = FinishPhase(a)
          /\ UNCHANGED <<opened, cycles, legs>>
    /\ UNCHANGED <<stop, pos, total, traded, queue, cooling, early>>

WakeFromPlan(a) ==
    /\ at[a] = "plan_wait"
    /\ active' = FinishPhase(a)
    /\ IF a \in stop THEN StopsWith(a, FALSE) ELSE Goto(a, "check") /\ UNCHANGED verdict
    /\ UNCHANGED <<opened, caught, stop, volume, queue, cooling, early>>

\* open_pair: both legs at once.
Fills(a, filled) ==
    /\ pos' = [pos EXCEPT ![a] = filled]
    /\ traded' = [traded EXCEPT ![a] = @ + filled]

\* execute_open, whether or not a stop came since: what the lanes fill is summed up,
\* unless an exception is quicker.
ExecuteOpen(a) ==
    /\ at[a] = "open"
    /\ active' = FinishPhase(a)
    /\ \E filled \in 0..Lots :
          /\ Fills(a, filled)
          /\ \/ /\ legs' = [legs EXCEPT ![a] = filled]
                /\ Goto(a, "hold")
                /\ UNCHANGED <<verdict, caught>>
             \/ /\ legs' \in {legs, [legs EXCEPT ![a] = filled]}
                /\ Raises(a)
    /\ UNCHANGED <<opened, stop, total, cycles, queue, cooling, early>>

Hold(a) ==
    /\ at[a] \in {"hold", "close_wait"}
    /\ IF a \in stop THEN StopsWith(a, TRUE) ELSE Goto(a, "market") /\ UNCHANGED verdict
    /\ UNCHANGED <<opened, caught, stop, volume, capacity>>

\* wait_for_shared_market, before every attempt to close: it lasts until both books
\* are fresh or the stop is set.
CheckMarket(a) ==
    /\ at[a] = "market"
    /\ IF a \in stop THEN StopsWith(a, TRUE) ELSE Goto(a, "queue_close") /\ UNCHANGED verdict
    /\ UNCHANGED <<opened, caught, stop, volume, capacity>>

\* The lots a close or a safe stop gets rid of.
Reduces(a, sold) ==
    /\ pos' = [pos EXCEPT ![a] = @ - sold]
    /\ traded' = [traded EXCEPT ![a] = @ + sold]

\* The stop came before the close phase began: the safe stop runs in it.
CloseStopped(a) ==
    /\ at[a] = "close" /\ a \in stop
    /\ active' = FinishPhase(a)
    /\ \E sold \in 0..pos[a] :
          /\ Reduces(a, sold)
          /\ \/ /\ Goto(a, "finish")
                /\ opened' = opened \ {a}
                /\ \E outcome \in IF sold = pos[a] THEN {"stopped", "uncertain"} ELSE {"uncertain"} :
                      verdict' = [verdict EXCEPT ![a] = outcome]
                /\ UNCHANGED caught
             \/ Raises(a) /\ UNCHANGED opened
    /\ UNCHANGED <<stop, legs, total, cycles, queue, cooling, early>>

\* Mutant: every attempt to close counts the legs so far.
CountsAttempt(a, quote) == [total EXCEPT ![a] = @ + quote]
\* Nothing is counted before the cycle is over.
CountsLater(a, quote) == total

\* The Maker quotes found no taker: the cycle, still its own, is kept for another try.
CloseRetries(a) ==
    /\ at[a] = "close" /\ a \notin stop
    /\ active' = FinishPhase(a)
    /\ \E sold \in 0..pos[a] :
          /\ sold < pos[a]
          /\ Reduces(a, sold)
          /\ legs' = [legs EXCEPT ![a] = @ + sold]
          /\ total' = CountsLater(a, legs'[a])
    /\ Goto(a, "close_wait")
    /\ UNCHANGED <<opened, caught, verdict, stop, cycles, queue, cooling, early>>

\* campaign_completion_floor
Round == 2 * Lots
Bounded == IF Tolerance < Round THEN Tolerance ELSE Round
TargetReached(t) ==
    \/ t >= Target
    \/ t > 0 /\ Target - t <= Bounded /\ Round > Target - t /\ Round - (Target - t) > Bounded

\* What follows a cycle that is counted: uncertain; the final acceptance; a condition
\* to wait for; given up; the gap before the next round.
AfterCycle(quote, t, flat, soft, uncertain) ==
    CASE uncertain -> {[place |-> "finish", verdict |-> "uncertain"]}
      [] ~uncertain /\ TargetReached(t) ->
            [place : {"finish"}, verdict : IF flat THEN {"completed", "uncertain"} ELSE {"uncertain"}]
      [] ~uncertain /\ ~TargetReached(t) /\ flat /\ (soft \/ quote = 0) ->
            {[place |-> "wait", verdict |-> "none"]}
      [] OTHER -> [place : {"finish"}, verdict : {"stopped"}]
                  \cup IF flat THEN {[place |-> "wait", verdict |-> "none"]} ELSE {}

\* close_cycle past its retries: the cycle's legs are added to the total and it is
\* over, whatever the positions look like.  An exception after that is possible: the
\* ownership sink may fail.
CloseCounts(a) ==
    /\ at[a] = "close" /\ a \notin stop
    /\ active' = FinishPhase(a)
    /\ \E sold \in 0..pos[a], seen, soft, uncertain \in BOOLEAN :
          LET quote == legs[a] + sold
              flat  == seen /\ sold = pos[a]
          IN  /\ Reduces(a, sold)
              /\ total' = [total EXCEPT ![a] = @ + quote]
              /\ \/ \E next \in AfterCycle(quote, total'[a], flat, soft, uncertain) :
                       /\ Goto(a, next.place)
                       /\ verdict' = [verdict EXCEPT ![a] = next.verdict]
                       /\ opened' = opened \ {a}
                       /\ legs' = [legs EXCEPT ![a] = 0]
                       /\ UNCHANGED caught
                 \/ /\ Raises(a)
                    /\ legs' = [legs EXCEPT ![a] = quote]
                    /\ UNCHANGED opened
    /\ UNCHANGED <<stop, cycles, queue, cooling, early>>

\* The close raised before it counted anything; legs filled meanwhile are in no summary.
CloseRaises(a) ==
    /\ at[a] = "close" /\ a \notin stop
    /\ active' = FinishPhase(a)
    /\ \E sold \in 0..pos[a] : Reduces(a, sold)
    /\ Raises(a)
    /\ UNCHANGED <<opened, stop, legs, total, cycles, queue, cooling, early>>

\* safe_stop, in the emergency pool: nothing it trades is added to the total.
SafeStop(a) ==
    /\ at[a] = "safe_stop"
    /\ \E sold \in 0..pos[a] :
          /\ Reduces(a, sold)
          /\ \/ /\ Goto(a, "finish")
                /\ \E outcome \in IF sold = pos[a] THEN {"stopped", "uncertain"} ELSE {"uncertain"} :
                      verdict' = [verdict EXCEPT ![a] = outcome]
                /\ UNCHANGED caught
             \/ Raises(a)
    /\ UNCHANGED <<opened, stop, legs, total, cycles, capacity>>

\* phases.finish saves the campaign's result; it may fail to.
Finish(a) ==
    /\ at[a] = "finish"
    /\ \/ Goto(a, "leave") /\ UNCHANGED <<verdict, caught>>
       \/ Raises(a)
    /\ UNCHANGED <<opened, stop, volume, capacity>>

\* release_execution: nothing of the actor stays in the gate.  Its locals are gone.
Leave(a) ==
    /\ at[a] = "leave"
    /\ Goto(a, "done")
    /\ active' = active \ {a}
    /\ CancelPhase(a)
    /\ opened' = opened \ {a}
    /\ caught' = [caught EXCEPT ![a] = 0]
    /\ legs' = [legs EXCEPT ![a] = 0]
    /\ UNCHANGED <<verdict, stop, pos, total, traded, cycles, cooling>>

\* request_stop, by the operator or a shutdown.
Stop(a) ==
    /\ a \in Stoppable \ stop /\ at[a] \notin {"leave", "done"}
    /\ stop' = stop \cup {a}
    /\ UNCHANGED <<coroutine, volume, capacity>>

-----------------------------------------------------------------------------
Init ==
    /\ at = [a \in Actors |-> "prepare"]
    /\ stop = {} /\ opened = {} /\ active = {} /\ cooling = {} /\ early = {}
    /\ caught = [a \in Actors |-> 0]
    /\ verdict = [a \in Actors |-> "none"]
    /\ pos = [a \in Actors |-> 0] /\ legs = [a \in Actors |-> 0] /\ total = [a \in Actors |-> 0]
    /\ traded = [a \in Actors |-> 0] /\ cycles = [a \in Actors |-> 0]
    /\ queue = <<>>

Step(a) ==
    \/ PrepareContext(a) \/ CheckOpenConditions(a) \/ WakeToCheck(a)
    \/ WaitForPhase(a, "queue_open", "plan") \/ PlanOpen(a) \/ WakeFromPlan(a) \/ ExecuteOpen(a)
    \/ Hold(a) \/ CheckMarket(a) \/ WaitForPhase(a, "queue_close", "close")
    \/ CloseStopped(a) \/ CloseRetries(a) \/ CloseCounts(a) \/ CloseRaises(a)
    \/ SafeStop(a) \/ Finish(a) \/ Leave(a)

Next ==
    \/ \E a \in Actors : Step(a) \/ Stop(a) \/ JitterPasses(a)
    \/ \E p \in Proxies \cup {Rate} : TimePasses(p)

\* The event loop serves every coroutine, blocking calls return, and time passes.
Fairness ==
    /\ \A a \in Actors : WF_vars(Step(a)) /\ WF_vars(JitterPasses(a))
    /\ \A p \in Proxies \cup {Rate} : WF_vars(TimePasses(p))

Spec == Init /\ [][Next]_vars /\ Fairness

-----------------------------------------------------------------------------
(* Properties                                                              *)

Places ==
    {"prepare", "check", "wait", "queue_open", "plan", "plan_wait", "open", "hold", "market",
     "queue_close", "close", "close_wait", "safe_stop", "finish", "leave", "done"}

InSlot(a) == at[a] \in {"plan", "plan_wait", "open", "close"}
BetweenRounds(a) == at[a] \in {"check", "wait", "queue_open", "plan", "plan_wait"}

TypeOK ==
    /\ at \in [Actors -> Places]
    /\ stop \subseteq Actors /\ opened \subseteq Actors
    /\ caught \in [Actors -> 0..2]
    /\ verdict \in [Actors -> {"none", "completed", "stopped", "uncertain", "failed"}]
    /\ pos \in [Actors -> 0..Lots]
    /\ legs \in [Actors -> Nat] /\ total \in [Actors -> Nat] /\ traded \in [Actors -> Nat]
    /\ \A a \in Actors : cycles[a] \in 0..MaxRounds[a]
    /\ queue \in Seq(Actors) /\ active \subseteq Actors
    /\ cooling \subseteq Proxies \cup {Rate} /\ early \subseteq Actors

\* A campaign's total is the volume it really made: nothing is counted twice over all
\* the attempts to close a cycle.  Between two rounds nothing is missing
\* (close_cycle.py:78-80 against :69-77), the campaign holds nothing and still has
\* volume to make, so desired_cycle_turnover is never asked for a target that is
\* reached (target_policy.py:24).
VolumeCountedOnce ==
    \A a \in Actors :
        /\ total[a] <= traded[a]
        /\ BetweenRounds(a) => total[a] = traded[a] /\ pos[a] = 0 /\ ~TargetReached(total[a])
        /\ verdict[a] = "completed" => total[a] = traded[a]

\* The state has its type.  A proxy serves one order phase at a time and the gate holds
\* no slot of an actor that is not in its phase (execution_capacity.py:264-271).
SlotsAreInUse ==
    /\ active = {a \in Actors : InSlot(a)}
    /\ Cardinality(active) <= MaxNormal
    /\ \A a, b \in active : ProxyOf[a] = ProxyOf[b] => a = b
TypedSlots == TypeOK /\ SlotsAreInUse

\* Whatever it waits for, an actor that is asked to stop ends.
StopEnds == \A a \in Actors : a \in stop ~> at[a] = "done"

\* No queued phase waits for ever, whichever proxies and actors are ahead of it.
PhaseStarts ==
    \A a \in Actors : at[a] \in {"queue_open", "queue_close"} ~> at[a] \notin {"queue_open", "queue_close"}
=============================================================================
