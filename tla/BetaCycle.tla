------------------------------ MODULE BetaCycle ------------------------------
(***************************************************************************)
(* One beta-volume session: LiveBetaVolumeService of                       *)
(* src/src/weex_cli/beta_volume/service.  A coordinator opens a BTC and an *)
(* ETH position at the same time, closes both, checks that both lanes are  *)
(* flat and accounted for, and repeats until enough volume has traded.     *)
(* Each lane's work is a thread of the pool; coordinator, lanes, exchange  *)
(* and the operator's stop request interleave between any two venue calls. *)
(*                                                                         *)
(* A Maker leg is what MakerLane promises of it: while it trades it has at *)
(* most one order working, and it ends with a clean result (no order of    *)
(* its own is left) or with one that may leave its order on the book.      *)
(* Positions are lots in the direction the plan opens; volume is lots.     *)
(***************************************************************************)
EXTENDS Integers, Sequences, FiniteSetsExt

CONSTANTS
    Lots,               \* lots a lane opens in a cycle
    TargetVolume,       \* plan.target_turnover_quote
    MaxRounds,          \* max_rounds of the cycle loop
    MaxEmptyRounds,     \* plan.max_empty_rounds
    RecoveryAttempts,   \* plan.recovery_attempts
    DustAllowed,        \* plan.schema_version >= 5
    Paced,              \* a phase_waiter is configured
    Stoppable,          \* a stop_requested callback is configured
    MaxFaults           \* bound: how much may go wrong in a session

ASSUME CycleAssumption ==
    /\ Lots \in Nat \ {0}
    /\ TargetVolume \in Nat \ {0}
    /\ MaxRounds \in Nat \ {0}
    /\ MaxEmptyRounds \in Nat
    /\ RecoveryAttempts \in Nat \ {0}
    /\ MaxFaults \in Nat
    /\ DustAllowed \in BOOLEAN /\ Paced \in BOOLEAN /\ Stoppable \in BOOLEAN

Lanes == {"BTC", "ETH"}
Jobs == {"open", "flatten"}

(***************************************************************************)
(* Lane stops, the pairs (status, reason) of the code.  "soft" stands for  *)
(* a stop with a reason that is neither uncertain nor hard-terminal;       *)
(* "minimum" and "audit" are the two hard-terminal reasons that the code   *)
(* treats apart.                                                           *)
(***************************************************************************)
UncertainStops == {"submission", "accounting", "observation"}
HardStops == {"hard", "minimum", "audit"}
Stops == {"none", "soft", "raised"} \cup UncertainStops \cup HardStops

\* What execute_maker_target can return.
Results == {"completed", "soft", "hard", "observation", "submission"}

VARIABLES
    \* the exchange, per lane
    held,       \* lots held
    own,        \* lots left in the working order of the lane's leg, 0: none
    stray,      \* per direction: lots left in orders of legs that have ended
    traded,     \* lots traded by the session on both lanes
    \* the operator
    stopping,   \* stop_requested() answers True
    \* the coordinator
    pc,         \* its next step
    turn,       \* the lane a per-lane step is at
    round,      \* round_number
    empty,      \* empty_rounds
    total,      \* total_quote
    laneStop,   \* lane_stops
    verifiedAll,\* cancellation_verified of _safe_stop
    status,     \* the state last saved for the plan
    \* the lane threads
    lane,       \* per lane: what its thread is doing
    legs,       \* per lane: the leg summaries of the cycle
    carried,    \* per lane: verified lots, opened less closed, of earlier cycles
    doubtful,   \* summaries of earlier cycles include an unverified one
    \* history
    dustClosed, \* per lane: market close intents claimed in the cycle
    closes,     \* per lane: market closes sent in the cycle
    faults      \* what has gone wrong so far

exchange == <<held, own, stray, traded>>
history == <<dustClosed, closes>>
books == <<legs, carried, doubtful>>
session == <<round, empty, total, status>>
vars == <<exchange, stopping, pc, turn, session, laneStop, verifiedAll, lane,
          books, history, faults>>

\* Every outcome that is not the one hoped for costs one of MaxFaults.
Costs(n) == faults + n <= MaxFaults /\ faults' = faults + n
Fault(b) == Costs(IF b THEN 1 ELSE 0)

\* What a thread keeps between legs; a leg adds begin, fills, end and result.
Thread(task, job, attempt, owned, stop, flat) ==
    [task |-> task, job |-> job, attempt |-> attempt, begin |-> 0, fills |-> 0,
     end |-> Lots + 1, result |-> "completed", owned |-> owned, stop |-> stop,
     flat |-> flat]
Idle == Thread("idle", "open", 0, 0, "none", FALSE)

Tasks == {"idle", "observe", "start", "trade", "end", "reconcile", "orders",
          "cleanup", "after", "dust", "dust_send", "done"}
Steps == {"begin", "round", "prepare", "opening", "hold", "gate", "barrier",
          "closing", "account", "refresh", "checkpoint", "gap", "final", "cancel",
          "sweep", "swept", "prove", "shutdown", "done"}

\* A leg's summary: its action, the lots it counts as volume and its books:
\* no fill required, verified, still to be asked for (then: the lots its
\* orders filled and whether they match the position), or unverified, with a
\* hard reason or another.
LegRecords == [action : Jobs, counted : Nat, fills : Nat, match : BOOLEAN,
               books : {"none", "verified", "pending", "hard", "open"}]

TypeOK ==
    /\ held \in [Lanes -> 0..Lots]
    /\ own \in [Lanes -> 0..Lots]
    /\ stray \in [Lanes -> [Jobs -> Nat]]
    /\ traded \in Nat /\ stopping \in BOOLEAN
    /\ pc \in Steps /\ turn \in Lanes
    /\ round \in 1..MaxRounds + 1 /\ empty \in Nat /\ total \in Nat
    /\ laneStop \in [Lanes -> Stops \ {"raised"}]
    /\ verifiedAll \in BOOLEAN
    /\ status \in {"executing", "completed", "stopped", "uncertain"}
    /\ \A l \in Lanes :
         /\ lane[l].task \in Tasks /\ lane[l].job \in Jobs
         /\ lane[l].attempt \in 0..RecoveryAttempts + 1
         /\ lane[l].stop \in Stops
         /\ \A i \in DOMAIN legs[l] : legs[l][i] \in LegRecords
    /\ carried \in [Lanes -> Int] /\ doubtful \in BOOLEAN
    /\ dustClosed \in [Lanes -> BOOLEAN] /\ closes \in [Lanes -> Nat]
    /\ faults \in 0..MaxFaults

(***************************************************************************)
(* Exchange: closing orders cannot close more than is held, and opening    *)
(* ones are sized for what a lane may hold                                 *)
(***************************************************************************)
NoOrders == [job \in Jobs |-> 0]
Working(l) == own[l] > 0 \/ stray[l] # NoOrders

Filled(l, job) ==
    /\ IF job = "open" THEN held[l] < Lots ELSE held[l] > 0
    /\ held' = [held EXCEPT ![l] = IF job = "open" THEN @ + 1 ELSE @ - 1]
    /\ traded' = traded + 1

\* A lot of the lane's own order fills.
FillOwn(l) ==
    /\ own[l] > 0
    /\ Filled(l, lane[l].job)
    /\ own' = [own EXCEPT ![l] = @ - 1]
    /\ lane' = [lane EXCEPT ![l].fills = @ + 1]
    /\ UNCHANGED <<stray, stopping, pc, turn, session, laneStop, verifiedAll,
                   books, history, faults>>

\* A lot of an order that an earlier leg left fills.
FillStray(l) ==
    /\ \E job \in Jobs :
          /\ stray[l][job] > 0
          /\ Filled(l, job)
          /\ stray' = [stray EXCEPT ![l][job] = @ - 1]
    /\ UNCHANGED <<own, stopping, pc, turn, session, laneStop, verifiedAll, lane,
                   books, history, faults>>

RequestStop ==
    /\ Stoppable /\ ~stopping
    /\ stopping' = TRUE
    /\ UNCHANGED <<exchange, pc, turn, session, laneStop, verifiedAll, lane,
                   books, history, faults>>

(***************************************************************************)
(* A lane's thread: _execute_leg and _reconcile_leg_result                 *)
(***************************************************************************)
coordinator == <<pc, turn, session, laneStop, verifiedAll>>
Task(l, t) == lane[l].task = t
Goal(l) == IF lane[l].job = "open" THEN Lots ELSE 0

Apart(a, b) == IF a < b THEN b - a ELSE a - b

\* The summary of a leg that ended in an exception: no fill is claimed and
\* none is asked for.
ExceptionSummary(l) ==
    [action |-> lane[l].job, counted |-> 0, fills |-> 0, match |-> FALSE,
     books |-> "none"]

AddLeg(l, leg) == legs' = [legs EXCEPT ![l] = Append(@, leg)]

\* _flatten_lane hands (flat, stop) to the coordinator
Return(l, flat, stop) ==
    lane' = [lane EXCEPT ![l] = Thread("done", "open", 0, 0, stop, flat)]

\* An opening leg is the thread's whole job; a closing leg is an attempt.
LegDone(l, stop) ==
    lane' = [lane EXCEPT ![l] =
               IF @.job = "open" THEN Thread("done", "open", 0, 0, stop, FALSE)
               ELSE Thread("after", "flatten", @.attempt, @.owned, stop, FALSE)]

\* What a leg that ends leaves on the book stays there.
Abandon(l) ==
    /\ stray' = [stray EXCEPT ![l][lane[l].job] = @ + own[l]]
    /\ own' = [own EXCEPT ![l] = 0]

BeginLeg(l) ==
    /\ Task(l, "start")
    /\ \/ /\ LegDone(l, "observation")      \* starting_position_unavailable
          /\ AddLeg(l, ExceptionSummary(l)) /\ Costs(1)
       \/ /\ lane' = [lane EXCEPT ![l].task = "trade", ![l].begin = held[l]]
          /\ UNCHANGED <<legs, faults>>
    /\ UNCHANGED <<exchange, stopping, coordinator, carried, doubtful, history>>

\* execute_maker_target submits an order, or confirms that it is gone
Quote(l) ==
    /\ Task(l, "trade") /\ own[l] = 0
    /\ \E lots \in 1..Apart(held[l], Goal(l)) : own' = [own EXCEPT ![l] = lots]
    /\ UNCHANGED <<held, stray, traded, stopping, coordinator, lane, books, history, faults>>

Withdraw(l) ==
    /\ Task(l, "trade") /\ own[l] > 0
    /\ own' = [own EXCEPT ![l] = 0]
    /\ UNCHANGED <<held, stray, traded, stopping, coordinator, lane, books, history, faults>>

\* A leg that ends short of its goal has confirmed that its order is gone;
\* only "hard", "submission" and exceptions other than the first two of
\* LegRaises may leave one.
LegReturns(l) ==
    /\ Task(l, "trade")
    /\ \E result \in Results :
          /\ result = "completed" => own[l] = 0 /\ held[l] = Goal(l)
          /\ own' = [own EXCEPT ![l] = IF result \in {"hard", "submission"} THEN @ ELSE 0]
          /\ lane' = [lane EXCEPT ![l].task = "end", ![l].result = result]
          /\ Fault(result \notin {"completed", "soft"})
    /\ UNCHANGED <<held, stray, traded, stopping, coordinator, books, dustClosed, closes>>

\* ObservationUnavailableError before the first order, a minimum-size
\* rejection of an order, or anything else, after which the code tries to
\* clean up if the deadline has passed.
LegRaises(l) ==
    /\ Task(l, "trade")
    /\ Costs(1)
    /\ \/ /\ lane[l].fills = 0 /\ own[l] = 0
          /\ LegDone(l, "observation") /\ AddLeg(l, ExceptionSummary(l))
          /\ UNCHANGED <<own, stray>>
       \/ /\ own[l] = 0 /\ held[l] # Goal(l)
          /\ LegDone(l, "minimum") /\ AddLeg(l, ExceptionSummary(l))
          /\ UNCHANGED <<own, stray>>
       \/ /\ LegDone(l, "submission") /\ AddLeg(l, ExceptionSummary(l))
          /\ Abandon(l)
       \/ /\ lane' = [lane EXCEPT ![l].task = "cleanup"]
          /\ UNCHANGED <<own, stray, legs>>
    /\ UNCHANGED <<held, traded, stopping, coordinator, carried, doubtful,
                   dustClosed, closes>>

\* cancel_all_and_verify(): the orders are gone, or that is not known
CancelAll(l, verified) ==
    \E spared \in SUBSET Jobs, mine \in BOOLEAN :
        /\ verified => spared = {} /\ ~mine
        /\ stray' = [stray EXCEPT ![l] =
              [job \in Jobs |-> (IF job \in spared THEN stray[l][job] ELSE 0)
                                + (IF mine /\ job = lane[l].job THEN own[l] ELSE 0)]]
        /\ own' = [own EXCEPT ![l] = 0]

DeadlineCleanup(l) ==
    /\ Task(l, "cleanup")
    /\ \E verified \in BOOLEAN :
          /\ CancelAll(l, verified)
          /\ Fault(~verified)
          /\ LegDone(l, IF verified THEN "soft" ELSE "submission")
    /\ AddLeg(l, ExceptionSummary(l))
    /\ UNCHANGED <<held, traded, stopping, coordinator, carried, doubtful,
                   dustClosed, closes>>

\* the ending position, or Lots + 1 when it cannot be read
ReadEnd(l) ==
    /\ Task(l, "end")
    /\ \E e \in {held[l], Lots + 1} :
          /\ lane' = [lane EXCEPT ![l].task = "reconcile", ![l].end = e]
          /\ Fault(e > Lots)
    /\ UNCHANGED <<exchange, stopping, coordinator, books, history>>

\* executed_quantity; without an ending position the executor's last read
\* stands in for it
Executed(l) ==
    IF lane[l].end <= Lots THEN {Apart(lane[l].end, lane[l].begin)}
    ELSE IF lane[l].result \in {"completed", "soft"}
         THEN {Apart(held[l], lane[l].begin)}
         ELSE 0..Apart(held[l], lane[l].begin)

\* The fills of the leg's own orders as the exchange reports them: verified
\* only if complete, all maker, and matching what the position moved by.
\* "late" reports may be complete later; "unusable" ones never are.
Reports(fills, executed) ==
    IF executed = 0 THEN {[kind |-> "none", counted |-> 0]}
    ELSE [kind : {"late", "hard", "unusable"}, counted : 0..fills]
         \cup {[kind |-> "error", counted |-> 0]}
         \cup (IF fills = executed THEN {[kind |-> "verified", counted |-> fills]} ELSE {})

\* the checks after the order read, in the code's order
LegStop(l, kind) ==
    CASE lane[l].end > Lots                       -> "observation"
      [] lane[l].end <= Lots /\ kind \in {"late", "error", "unusable"} -> "accounting"
      [] lane[l].end <= Lots /\ kind = "hard"     -> "hard"
      [] lane[l].end <= Lots /\ kind \in {"none", "verified"} ->
            IF lane[l].result = "completed" THEN "none" ELSE lane[l].result

\* the reason of an incomplete leg is the executor's
Books(kind, result) ==
    CASE kind \in {"none", "verified"} -> kind
      [] kind \in {"late", "error"}    -> "pending"
      [] OTHER -> IF "hard" = IF result = "completed" THEN kind ELSE result
                  THEN "hard" ELSE "open"

\* _reconcile_leg_result up to the order read
Reconcile(l) ==
    /\ Task(l, "reconcile")
    /\ \E executed \in Executed(l) : \E r \in Reports(lane[l].fills, executed) :
          LET kept == Books(r.kind, lane[l].result)
              pending == kept = "pending"
          IN /\ AddLeg(l, [action |-> lane[l].job, counted |-> r.counted, books |-> kept,
                           fills |-> IF pending THEN lane[l].fills ELSE 0,
                           match |-> pending /\ lane[l].fills = executed])
             /\ lane' = [lane EXCEPT ![l].task = "orders", ![l].stop = LegStop(l, r.kind)]
             /\ Fault(lane[l].fills = executed /\ r.kind \notin {"none", "verified"})
    /\ UNCHANGED <<exchange, stopping, coordinator, carried, doubtful, history>>

OrdersAfterLeg(l) ==
    /\ Task(l, "orders")
    /\ \/ LegDone(l, "observation") /\ Costs(1)      \* the read failed
       \/ Working(l) /\ LegDone(l, "submission") /\ Costs(0)
       \/ ~Working(l) /\ LegDone(l, lane[l].stop) /\ Costs(0)
    /\ Abandon(l)
    /\ UNCHANGED <<held, traded, stopping, coordinator, books, history>>

(***************************************************************************)
(* _flatten_lane: close the position in at most RecoveryAttempts legs, and *)
(* a remainder too small for the exchange with one market close            *)
(***************************************************************************)
\* close_dust_position_once goes on past its eligibility checks
DustEligible(l, reason) ==
    /\ DustAllowed
    /\ held[l] > 0 /\ lane[l].owned >= held[l]
    /\ reason \in {"below_minimum", "none", "minimum"}

FlattenHead(l) ==
    /\ Task(l, "observe")
    /\ \/ /\ lane[l].attempt > RecoveryAttempts
          /\ Return(l, FALSE, "soft") /\ Costs(0)     \* recovery_attempts_exhausted
       \/ /\ lane[l].attempt <= RecoveryAttempts
          /\ \/ Return(l, FALSE, "observation") /\ Costs(1)
             \/ held[l] = 0 /\ Return(l, TRUE, "none") /\ Costs(0)
             \/ /\ held[l] > 0 /\ Costs(0)
                /\ \/ lane' = [lane EXCEPT ![l].task = "start"]
                   \/ /\ DustEligible(l, "below_minimum")
                      /\ lane' = [lane EXCEPT ![l].task = "dust"]
    /\ UNCHANGED <<exchange, stopping, coordinator, books, history>>

NextAttempt(l) == lane' = [lane EXCEPT ![l].task = "observe", ![l].attempt = @ + 1]

FlattenAfterLeg(l) ==
    /\ Task(l, "after")
    /\ \/ held[l] = 0 /\ Return(l, TRUE, lane[l].stop) /\ Costs(0)
       \/ /\ DustEligible(l, lane[l].stop) /\ Costs(0)
          /\ lane' = [lane EXCEPT ![l].task = "dust"]
       \/ /\ Fault(held[l] = 0)                 \* still open, or not observed
          /\ IF lane[l].stop \in UncertainStops \cup HardStops
             THEN Return(l, FALSE, lane[l].stop)
             ELSE NextAttempt(l)
    /\ UNCHANGED <<exchange, stopping, coordinator, books, history>>

\* claim_market_close_intent() finds the intent of this cycle's market close
\* Mutant: the intent is not kept.
NeverClaimed(l) == FALSE
Claimed(l) == dustClosed[l]

\* orders block the market close, and so does an intent claimed before
DustIntent(l) ==
    /\ Task(l, "dust")
    /\ \/ Return(l, FALSE, "raised") /\ UNCHANGED dustClosed /\ Costs(1)
       \/ Working(l) /\ Return(l, FALSE, "submission") /\ UNCHANGED dustClosed /\ Costs(0)
       \/ /\ ~Working(l) /\ Costs(0)
          /\ IF Claimed(l)
             THEN Return(l, FALSE, "submission") /\ UNCHANGED dustClosed
             ELSE /\ dustClosed' = [dustClosed EXCEPT ![l] = TRUE]
                  /\ lane' = [lane EXCEPT ![l].task = "dust_send"]
    /\ UNCHANGED <<exchange, stopping, coordinator, books, closes>>

\* close_position_id and its verification: rejected, closed and seen flat
\* (accounted for, or with the audit pending), or of unknown outcome
DustSend(l) ==
    /\ Task(l, "dust_send")
    /\ closes' = [closes EXCEPT ![l] = @ + 1]
    /\ \E landed \in BOOLEAN, flat \in BOOLEAN, verified \in BOOLEAN :
          LET lots == IF landed THEN held[l] ELSE 0
              counts == flat /\ verified /\ lots > 0
          IN /\ flat => held[l] = lots
             /\ Fault(~counts)
             /\ held' = [held EXCEPT ![l] = @ - lots]
             /\ traded' = traded + lots
             /\ AddLeg(l, [action |-> "flatten", counted |-> IF counts THEN lots ELSE 0,
                           books |-> IF counts THEN "verified" ELSE "hard",
                           fills |-> 0, match |-> FALSE])
             /\ IF flat THEN Return(l, TRUE, IF counts THEN "none" ELSE "audit")
                        ELSE Return(l, FALSE, "submission")
    /\ UNCHANGED <<own, stray, stopping, coordinator, carried, doubtful, dustClosed>>

LaneStep(l) ==
    \/ BeginLeg(l) \/ Quote(l) \/ Withdraw(l) \/ LegReturns(l) \/ LegRaises(l)
    \/ DeadlineCleanup(l) \/ ReadEnd(l) \/ Reconcile(l) \/ OrdersAfterLeg(l)
    \/ FlattenHead(l) \/ FlattenAfterLeg(l) \/ DustIntent(l) \/ DustSend(l)

(***************************************************************************)
(* The coordinator: _execute_cycles                                        *)
(***************************************************************************)
threads == <<lane, held, own, stray, traded, stopping>>
\* Mutant: a lane that was given no work is waited for, too.
Finished(l) == lane[l].task = "done"
Settled(l) == lane[l].task \in {"idle", "done"}

\* Mutant: the pair is done when one of its legs is.
AnyDone == \E l \in Lanes : Settled(l)
AllDone == \A l \in Lanes : Settled(l)

Goto(step) == pc' = step /\ UNCHANGED status
\* _finish: the state is saved before the pool has shut down
\* Mutant: an uncertain outcome is saved as a stop like any other.
FinishAnyway(state) ==
    pc' = "shutdown" /\ status' = IF state = "uncertain" THEN "stopped" ELSE state
Finish(state) == pc' = "shutdown" /\ status' = state
\* an exception leaves the state as it was saved
Raise == pc' = "shutdown" /\ UNCHANGED status

\* s[1] + ... + s[Len(s)]
Total(s) ==
    LET sum[n \in 0..Len(s)] == IF n = 0 THEN 0 ELSE sum[n - 1] + s[n]
    IN sum[Len(s)]

Volume(l) == Total([i \in DOMAIN legs[l] |-> legs[l][i].counted])
CycleVolume == Volume("BTC") + Volume("ETH")

\* owned_position_quantity: verified opens less verified closes
SignedLots(leg) ==
    IF leg.books \notin {"none", "verified"} THEN 0
    ELSE IF leg.action = "open" THEN leg.counted ELSE 0 - leg.counted
VerifiedLots(l) == Total([i \in DOMAIN legs[l] |-> SignedLots(legs[l][i])])
OwnedInCycle(l) == VerifiedLots(l)
OwnedInSession(l) == carried[l] + VerifiedLots(l)

\* pool.submit
Launch(ls, job, task, owned) ==
    lane' = [l \in Lanes |-> IF l \in ls THEN Thread(task, job, 1, owned[l], "none", FALSE)
                             ELSE lane[l]]

Begin ==
    /\ pc = "begin"
    /\ Goto(IF stopping THEN "cancel" ELSE "round")
    /\ UNCHANGED <<threads, turn, round, empty, total, laneStop, verifiedAll, books, history, faults>>

RoundHead ==
    /\ pc = "round"
    /\ IF round > MaxRounds
       THEN IF total < TargetVolume THEN Finish("stopped") ELSE Goto("final")
       ELSE Goto(IF stopping THEN "cancel"
                 ELSE IF total >= TargetVolume THEN "final" ELSE "prepare")
    /\ UNCHANGED <<threads, turn, round, empty, total, laneStop, verifiedAll, books, history, faults>>

\* The phase waiter, the preflight it calls for, sizing and leverage; then
\* both opening legs start.
Prepare ==
    /\ pc = "prepare"
    /\ \/ Paced /\ Goto("cancel") /\ UNCHANGED lane
       \/ Paced /\ Raise /\ UNCHANGED lane
       \/ Finish("stopped") /\ UNCHANGED lane
       \/ Goto("opening") /\ Launch(Lanes, "open", "start", [l \in Lanes |-> 0])
    /\ UNCHANGED <<exchange, stopping, turn, round, empty, total, laneStop, verifiedAll,
                   books, history, faults>>

\* _run_pair waits for both legs
Opened ==
    /\ pc = "opening" /\ AllDone
    /\ laneStop' = [l \in Lanes |-> lane[l].stop]
    /\ lane' = [l \in Lanes |-> IF Task(l, "done") THEN Idle ELSE lane[l]]
    /\ Goto(IF stopping THEN "cancel" ELSE "hold")
    /\ UNCHANGED <<exchange, stopping, turn, round, empty, total, verifiedAll, books, history, faults>>

\* _hold_open_pair observes both lanes unless one has stopped
Hold ==
    /\ pc = "hold"
    /\ IF \E l \in Lanes : laneStop[l] # "none" THEN UNCHANGED laneStop /\ Costs(0)
       ELSE \E unread \in SUBSET Lanes :
              /\ laneStop' = [l \in Lanes |-> IF l \in unread THEN "observation" ELSE "none"]
              /\ Costs(Cardinality(unread))
    /\ Goto("gate")
    /\ UNCHANGED <<threads, turn, round, empty, total, verifiedAll, books, history>>

\* the stop request, the "close" phase and its boundary
Gate ==
    /\ pc = "gate"
    /\ turn' = "BTC"
    /\ \/ (stopping \/ Paced) /\ Goto("cancel")
       \/ ~stopping /\ (Paced => \A l \in Lanes : ~Working(l)) /\ Goto("barrier")
    /\ UNCHANGED <<threads, round, empty, total, laneStop, verifiedAll, books, history, faults>>

\* to the next lane, or past the last one
Advance(next) ==
    IF turn = "BTC" THEN turn' = "ETH" /\ UNCHANGED pc ELSE turn' = "BTC" /\ pc' = next

\* a lane that may have an order on the book is not closed
Barred(stop) == stop = "submission"

CloseBarrier ==
    /\ pc = "barrier"
    /\ Advance("closing")
    /\ \/ Barred(laneStop[turn]) /\ UNCHANGED <<lane, laneStop, faults>>
       \/ /\ ~Barred(laneStop[turn])
          /\ \/ /\ laneStop' = [laneStop EXCEPT ![turn] = "observation"]
                /\ Costs(1) /\ UNCHANGED lane
             \/ held[turn] = 0 /\ UNCHANGED <<lane, laneStop, faults>>
             \/ /\ held[turn] > 0
                /\ Launch({turn}, "flatten", "observe", [l \in Lanes |-> OwnedInCycle(l)])
                /\ UNCHANGED <<laneStop, faults>>
    /\ UNCHANGED <<exchange, stopping, session, verifiedAll, books, history>>

\* the results of the closing threads, BTC first
Collect(l) == lane' = [lane EXCEPT ![l] = Idle]

\* the stop of the closing thread replaces the opening leg's
CloseStop(l) == IF lane[l].stop # "none" THEN lane[l].stop ELSE laneStop[l]

Closed ==
    /\ pc = "closing" /\ Settled(turn)
    /\ \/ Task(turn, "idle") /\ Advance("account") /\ UNCHANGED <<laneStop, status>>
       \/ /\ Task(turn, "done") /\ lane[turn].stop = "raised"
          /\ Raise /\ UNCHANGED <<turn, laneStop>>
       \/ /\ Task(turn, "done") /\ lane[turn].stop # "raised"
          /\ laneStop' = [laneStop EXCEPT ![turn] = CloseStop(turn)]
          /\ Advance("account") /\ UNCHANGED status
    /\ Collect(turn)
    /\ UNCHANGED <<exchange, stopping, round, empty, total, verifiedAll, books, history, faults>>

(***************************************************************************)
(* _refresh_pending_accounting and _checkpoint_cycle                       *)
(***************************************************************************)
AfterClose ==
    /\ pc = "account"
    /\ Goto(IF stopping THEN "cancel" ELSE "refresh")
    /\ UNCHANGED <<threads, turn, round, empty, total, laneStop, verifiedAll, books, history, faults>>

\* Up to eight more reads per pending leg; only their last outcome matters.
AskedAgain(leg, kept, counted) ==
    [action |-> leg.action, counted |-> counted, fills |-> 0, match |-> FALSE,
     books |-> kept]
Answers(leg) ==
    {AskedAgain(leg, "open", leg.counted)}
    \cup {AskedAgain(leg, b, c) : b \in {"open", "hard"}, c \in 0..leg.fills}
    \cup (IF leg.match THEN {AskedAgain(leg, "verified", leg.fills)} ELSE {})

\* Mutant: an answer is added to the volume that the leg already counts.
RefreshedAgain(leg) == {[a EXCEPT !.counted = @ + leg.counted] : a \in Answers(leg)}
Refreshed(leg) == Answers(leg)

RefreshLeg(l, i) ==
    /\ pc = "refresh" /\ legs[l][i].books = "pending"
    /\ \E leg \in Refreshed(legs[l][i]) :
          /\ legs' = [legs EXCEPT ![l][i] = leg]
          /\ Fault(legs[l][i].match /\ leg.books # "verified")
    /\ UNCHANGED <<threads, coordinator, carried, doubtful, history>>

Unresolved(l) == {i \in DOMAIN legs[l] : legs[l][i].books \notin {"none", "verified"}}

\* accounting_uncertain goes once the lane's legs are all verified
StopAfterRefresh(l) ==
    IF laneStop[l] # "accounting" THEN laneStop[l]
    ELSE IF Unresolved(l) = {} THEN "none"
    ELSE IF legs[l][Min(Unresolved(l))].books = "hard" THEN "hard" ELSE "accounting"

RefreshDone ==
    /\ pc = "refresh"
    /\ \A l \in Lanes : \A i \in DOMAIN legs[l] : legs[l][i].books # "pending"
    /\ laneStop' = [l \in Lanes |-> StopAfterRefresh(l)]
    /\ Goto("checkpoint")
    /\ UNCHANGED <<threads, turn, round, empty, total, verifiedAll, books, history, faults>>

\* both positions are read, the cycle's volume is added and saved
\* Mutant: a position that could not be read counts as flat.
FlatUnlessSeen(l, read) == ~read \/ held[l] = 0
SeenFlat(l, read) == read /\ held[l] = 0

Checkpoint ==
    /\ pc = "checkpoint"
    /\ total' = total + CycleVolume
    /\ empty' = IF CycleVolume = 0 THEN empty + 1 ELSE 0
    /\ \E read \in [Lanes -> BOOLEAN] :
         LET flat == \A l \in Lanes : SeenFlat(l, read[l])
             uncertain == \E l \in Lanes : laneStop[l] \in UncertainStops
             hard == \E l \in Lanes : laneStop[l] \in HardStops
         IN \/ uncertain /\ Finish("uncertain")
            \/ /\ ~uncertain
               /\ hard \/ ~flat \/ (CycleVolume = 0 /\ empty' > MaxEmptyRounds)
               /\ Finish("stopped")
            \/ /\ ~uncertain /\ ~hard /\ flat
               /\ CycleVolume > 0 \/ empty' <= MaxEmptyRounds
               /\ Goto("gap")
    /\ UNCHANGED <<threads, turn, round, laneStop, verifiedAll, books, history, faults>>

\* the round gap, if there is one; the next round starts with fresh books
Gap ==
    /\ pc = "gap"
    /\ \/ /\ stopping /\ total < TargetVolume
          /\ Goto("cancel")
          /\ UNCHANGED <<round, laneStop, books, dustClosed, closes>>
       \/ /\ Goto("round")
          /\ round' = round + 1
          /\ laneStop' = [l \in Lanes |-> "none"]
          /\ legs' = [l \in Lanes |-> <<>>]
          /\ carried' = [l \in Lanes |-> OwnedInSession(l)]
          /\ doubtful' = (doubtful \/ \E l \in Lanes : Unresolved(l) # {})
          /\ dustClosed' = [l \in Lanes |-> FALSE]
          /\ closes' = [l \in Lanes |-> 0]
    /\ UNCHANGED <<threads, turn, empty, total, verifiedAll, faults>>

NothingWorks == \A l \in Lanes : ~Working(l)
AllFlat == \A l \in Lanes : held[l] = 0
AllVerified == ~doubtful /\ \A l \in Lanes : Unresolved(l) = {}

\* _final_acceptance: reads may fail, and count against the session
FinalAcceptance ==
    /\ pc = "final"
    /\ \/ Finish("uncertain")
       \/ /\ total >= TargetVolume /\ AllFlat /\ NothingWorks /\ AllVerified
          /\ Finish("completed")
    /\ UNCHANGED <<threads, turn, round, empty, total, laneStop, verifiedAll, books, history, faults>>

(***************************************************************************)
(* _safe_stop                                                              *)
(***************************************************************************)
SafeCancel ==
    /\ pc = "cancel"
    /\ \E verified \in BOOLEAN :
          LET all == verified /\ (turn = "ETH" => verifiedAll) IN
          /\ CancelAll(turn, verified) /\ Fault(~verified)
          /\ verifiedAll' = all
          /\ \/ turn = "BTC" /\ turn' = "ETH" /\ UNCHANGED <<pc, status>>
             \/ turn = "ETH" /\ all /\ turn' = "BTC" /\ Goto("sweep")
             \/ turn = "ETH" /\ ~all /\ UNCHANGED turn /\ Finish("uncertain")
    /\ UNCHANGED <<held, traded, stopping, lane, round, empty, total, laneStop, books,
                   history>>

\* a lane that is not flat gets a closing thread, whatever its stop was
Sweep ==
    /\ pc = "sweep"
    /\ \/ Finish("uncertain") /\ UNCHANGED <<lane, turn>>
       \/ held[turn] = 0 /\ Advance("swept") /\ UNCHANGED <<lane, status>>
       \/ /\ held[turn] > 0
          /\ Launch({turn}, "flatten", "observe", [l \in Lanes |-> OwnedInSession(l)])
          /\ Advance("swept") /\ UNCHANGED status
    /\ UNCHANGED <<exchange, stopping, round, empty, total, laneStop, verifiedAll, books, history, faults>>

Flattened(l) == lane[l].flat /\ lane[l].stop \in {"none", "audit"}

Swept ==
    /\ pc = "swept" /\ Settled(turn)
    /\ \/ /\ Task(turn, "idle") \/ Flattened(turn)
          /\ Advance("prove") /\ UNCHANGED status
       \/ /\ Task(turn, "done") /\ lane[turn].stop = "raised"
          /\ Raise /\ UNCHANGED turn
       \/ /\ Task(turn, "done") /\ lane[turn].stop # "raised" /\ ~Flattened(turn)
          /\ Finish("uncertain") /\ UNCHANGED turn
    /\ Collect(turn)
    /\ UNCHANGED <<exchange, stopping, round, empty, total, laneStop, verifiedAll, books, history, faults>>

Prove ==
    /\ pc = "prove"
    /\ \/ Finish("uncertain")
       \/ AllFlat /\ NothingWorks /\ Finish("stopped")
    /\ UNCHANGED <<threads, turn, round, empty, total, laneStop, verifiedAll, books, history, faults>>

\* the pool shuts down once its threads have ended
Shutdown ==
    /\ pc = "shutdown" /\ \A l \in Lanes : Settled(l)
    /\ Goto("done")
    /\ UNCHANGED <<threads, turn, round, empty, total, laneStop, verifiedAll, books, history, faults>>

Done == pc = "done" /\ UNCHANGED vars

Init ==
    /\ held = [l \in Lanes |-> 0] /\ own = [l \in Lanes |-> 0]
    /\ stray = [l \in Lanes |-> NoOrders] /\ traded = 0
    /\ stopping = FALSE
    /\ pc = "begin" /\ turn = "BTC"
    /\ round = 1 /\ empty = 0 /\ total = 0
    /\ laneStop = [l \in Lanes |-> "none"] /\ verifiedAll = TRUE
    /\ status = "executing"
    /\ lane = [l \in Lanes |-> Idle]
    /\ legs = [l \in Lanes |-> <<>>]
    /\ carried = [l \in Lanes |-> 0] /\ doubtful = FALSE
    /\ dustClosed = [l \in Lanes |-> FALSE] /\ closes = [l \in Lanes |-> 0]
    /\ faults = 0

Coordinator ==
    \/ Begin \/ RoundHead \/ Prepare \/ Opened \/ Hold \/ Gate \/ CloseBarrier
    \/ Closed \/ AfterClose \/ RefreshDone \/ Checkpoint \/ Gap \/ FinalAcceptance
    \/ SafeCancel \/ Sweep \/ Swept \/ Prove \/ Shutdown
    \/ \E l \in Lanes : \E i \in DOMAIN legs[l] : RefreshLeg(l, i)

Next ==
    \/ Coordinator
    \/ \E l \in Lanes : LaneStep(l) \/ FillOwn(l) \/ FillStray(l)
    \/ RequestStop \/ Done

\* Venue calls return or raise, a leg ends by its deadline (LegEnds of
\* MakerLeg) and the pool's threads run; the exchange and the operator do as
\* they please.
LaneEnds(l) == LaneStep(l) /\ lane' # lane
Spec == /\ Init /\ [][Next]_vars
        /\ WF_vars(Coordinator)
        /\ \A l \in Lanes : WF_vars(LaneEnds(l))

(***************************************************************************)
(* Properties                                                              *)
(***************************************************************************)
\* A cycle is only begun at rest: neither lane holds a position and no order
\* of the session works on either, whatever happened in the cycle before
\* (loop.py: both positions observed flat, every leg's orders read back).
OpensAtRest == pc \in {"round", "prepare"} => AllFlat /\ NothingWorks

\* No lane closes while the other still opens (_run_pair waits for both).
OpenBarrier ==
    \A l, m \in Lanes : ~( /\ ~Settled(l) /\ lane[l].job = "open"
                          /\ ~Settled(m) /\ lane[m].job = "flatten" )

\* When a known outcome is saved no lane's thread runs any more, and a
\* completed session has left neither position nor order.
KnownVerdict ==
    /\ status \in {"stopped", "completed"} => AllDone
    /\ status = "completed" => AllFlat /\ NothingWorks

\* The volume counted is never more than what the exchange traded.
NeverInflated == total <= traded

\* A lane's remainder is closed at market at most once in a cycle, although
\* the closing phase and the safe stop may both try.
OneMarketClose == \A l \in Lanes : closes[l] <= 1

\* The session ends.
SessionEnds == <>(pc = "done")
=============================================================================
