------------------------------ MODULE MakerLeg ------------------------------
(***************************************************************************)
(* One Maker leg: execute_adaptive_maker_target of                         *)
(* src/src/weex_cli/execution/adaptive (engine.py, runtime.py,             *)
(* termination.py), which moves one position to a target with POST_ONLY    *)
(* orders, against an exchange that fills, cancels and rejects on its own, *)
(* answers late, or does not answer at all.                                *)
(*                                                                         *)
(* Quantities are whole lots.  The leg is modelled for a growing position; *)
(* the engine treats both sides alike (it compares distances to the        *)
(* target).  Every action of the engine is one venue call with the local   *)
(* work up to the next call; exchange, clock and operator interleave       *)
(* between any two of them.                                                *)
(***************************************************************************)
EXTENDS Integers

CONSTANTS
    Target,              \* TargetRequest.target_position
    MaxOrders,           \* bound of the model: orders one leg may send
    MaxRequotes,         \* TargetRequest.max_requotes
    MaxSkips,            \* TargetRequest.max_preflight_skips
    MaxReadErrors,       \* TargetRequest.max_observation_errors
    MaxVerify,           \* TargetRequest.max_cancel_verification_attempts
    BulkCleanup,         \* the venue offers cancel_all_and_verify (live)
    ReportsAbsence,      \* the venue reports OPEN_ORDER_ABSENT (demo)
    AssuresPostOnly,     \* the venue itself refuses to return an order whose
                         \* POST_ONLY flag it could not confirm (live)
    StaleOrders,         \* an order view may be older than the exchange (push)
    StalePositions       \* a position read may be older than the exchange

ASSUME LegAssumption ==
    /\ Target \in Nat \ {0}
    /\ MaxOrders \in Nat
    /\ MaxRequotes \in Nat
    /\ MaxSkips \in Nat
    /\ MaxReadErrors \in Nat \ {0}
    /\ MaxVerify \in Nat \ {0}
    /\ BulkCleanup \in BOOLEAN
    /\ ReportsAbsence \in BOOLEAN
    /\ AssuresPostOnly \in BOOLEAN
    /\ StaleOrders \in BOOLEAN
    /\ StalePositions \in BOOLEAN

Orders == 1..MaxOrders
None == 0            \* no active order
NoPosition == [known |-> FALSE, at |-> 0]
NoResult == [status |-> "running", reason |-> "none", position |-> 0]

Terminal == {"filled", "canceled", "could_not_fill", "rejected"}
ObservationFailures == {"position_observation_unavailable",
                        "order_observation_unavailable",
                        "market_observation_unavailable"}
Labels == {"start", "loop", "advance", "market", "slot", "submit", "await",
           "cancel_position", "cancel_request", "cancel_response",
           "cancel_verify", "reconcile", "reconcile_last", "bulk",
           "bulk_verify", "deadline_fetch", "final", "done"}
Outcomes == {"running", "completed", "failed", "stopped", "uncertain", "raised"}
Reasons == ObservationFailures \cup
    {"none", "target_reached", "target_overfilled", "taker_fill_detected",
     "post_only_rejected", "policy_did_not_quote", "policy_would_take_liquidity",
     "max_preflight_skips_exhausted", "max_requotes_exhausted",
     "venue_did_not_accept_post_only", "preparation_failed", "submission_uncertain",
     "cancel_not_confirmed", "stop_cancel_not_confirmed",
     "deadline_cancel_not_confirmed", "deadline_cleanup_not_confirmed",
     "deadline_order_not_confirmed", "deadline_exceeded", "stop_requested",
     "stop_position_observation_unavailable"}
Purposes == {"requote", "stop", "deadline"} \cup ObservationFailures

VARIABLES
    \* the exchange
    status,      \* "unsent", "sent" (in flight), "live" or a terminal status
    qty,         \* lots ordered
    filled,      \* lots filled
    cancels,     \* cancellation requests sent that cover the order
    position,    \* lots held
    start,       \* lots held when the leg began
    \* clock and operator
    expired,     \* more than deadline_ms have passed
    stopping,    \* the caller's stop_requested() answers True
    \* the engine
    pc,          \* the venue call it makes next
    active,      \* ExecutionState.active, an order id or None
    sent,        \* ExecutionState.submissions: the last order id used
    size,        \* quantity of the order about to be submitted
    remaining,   \* lots still to execute at the last loop head
    seen,        \* ExecutionState.last_filled
    counted,     \* lots behind ExecutionState.quote_volume
    requotes,    \* ExecutionState.requotes
    skips,       \* ExecutionState.preflight_skips
    errors,      \* ExecutionState.consecutive_observation_errors
    lastRead,    \* ExecutionState.last_position
    purpose,     \* why an order is being cancelled or the leg is ending
    attempts,    \* verification reads made after the cancel request
    before,      \* position_before_cancel
    response,    \* the cancel response: "none", "absent" or "other"
    absent,      \* last_verified reports the order absent
    result       \* TargetExecutionResult

market == <<status, qty, filled, position, start>>
exchange == <<status, qty, filled, cancels, position, start>>
signals == <<expired, stopping>>
tally == <<seen, counted>>
limits == <<requotes, skips, errors>>
cancelling == <<purpose, attempts, before, response, absent>>
plan == <<size, remaining>>
vars == <<exchange, signals, pc, active, sent, plan, tally, limits, lastRead,
          cancelling, result>>

Working(o) == status[o] \in {"sent", "live"}

(***************************************************************************)
(* Views the engine can get.  A position read returns the lots held, or an *)
(* older figure when StalePositions.  An order read returns the exchange's *)
(* row, "unknown" when no source shows the order, or, when StaleOrders, a  *)
(* row that was current earlier, though never one with fewer fills than a  *)
(* row the engine has already seen.                                        *)
(***************************************************************************)
PositionReads == IF StalePositions THEN start..position ELSE {position}

OrderViews(o) ==
    {[status |-> "unknown", filled |-> 0]}
        \cup IF status[o] = "sent" THEN {}
             ELSE {[status |-> status[o], filled |-> filled[o]]}
        \cup IF StaleOrders /\ status[o] \notin {"unsent", "sent"}
             THEN {[status |-> "live", filled |-> f] : f \in seen..filled[o]}
             ELSE {}

ExchangeTypeOK ==
    /\ status \in [Orders -> {"unsent", "sent", "live"} \cup Terminal]
    /\ qty \in [Orders -> Nat] /\ filled \in [Orders -> Nat]
    /\ cancels \in [Orders -> Nat]
    /\ position \in Nat /\ start \in Nat

ControlTypeOK ==
    /\ expired \in BOOLEAN /\ stopping \in BOOLEAN
    /\ active \in Orders \cup {None} /\ sent \in 0..MaxOrders

CountersTypeOK ==
    /\ size \in Nat /\ remaining \in Nat
    /\ seen \in Nat /\ counted \in Nat
    /\ requotes \in Nat /\ skips \in Nat /\ errors \in Nat
    /\ lastRead \in Nat

CancellingTypeOK ==
    /\ purpose \in Purposes
    /\ attempts \in Nat
    /\ before \in [known : BOOLEAN, at : Nat]
    /\ response \in {"none", "absent", "other"} /\ absent \in BOOLEAN

FlowTypeOK ==
    /\ pc \in Labels
    /\ CancellingTypeOK
    /\ result \in [status : Outcomes, reason : Reasons, position : Nat]

TypeOK == ExchangeTypeOK /\ ControlTypeOK /\ CountersTypeOK /\ FlowTypeOK

(***************************************************************************)
(* Control shared by several steps                                         *)
(***************************************************************************)
ShouldStop == stopping

\* Mutant: the loop does not look at the clock.
NeverExpires == FALSE
DeadlinePassed == expired

Finish(outcome, why, at) ==
    /\ result' = [status |-> outcome, reason |-> why, position |-> at]
    /\ pc' = "done"

\* finish(..., final_position=None): the last successful position read
FinishHere(outcome, why) == Finish(outcome, why, lastRead)

\* cancel_and_verify: capture the position first unless positions are what
\* cannot be read
StartCancel(why) ==
    /\ purpose' = why
    /\ attempts' = 0 /\ before' = NoPosition
    /\ response' = "none" /\ absent' = FALSE
    /\ pc' = IF why = "position_observation_unavailable"
             THEN "cancel_request" ELSE "cancel_position"
    /\ UNCHANGED result

EndWith(why) ==
    /\ purpose' = why
    /\ pc' = "final"
    /\ UNCHANGED <<attempts, before, response, absent, result>>

StopForRequest ==
    IF active = None THEN EndWith("stop") ELSE StartCancel("stop")

FinishDeadline ==
    IF BulkCleanup
    THEN pc' = "bulk" /\ UNCHANGED <<cancelling, result>>
    ELSE IF active = None THEN EndWith("deadline") ELSE StartCancel("deadline")

StopAfterObservationFailure(why) ==
    IF active = None
    THEN FinishHere("uncertain", why) /\ UNCHANGED cancelling
    ELSE StartCancel(why)

Goto(label) == pc' = label /\ UNCHANGED <<cancelling, result>>

\* observe(order): count the new fills; maker says whether the row proves
\* that they were maker fills
\* Mutant: the cumulative figure is counted at every poll.
CumulativeFill(view) == view.filled
NewFill(view) == IF view.filled > seen THEN view.filled - seen ELSE 0
TakerFill(view, maker) == NewFill(view) > 0 /\ ~maker

(***************************************************************************)
(* Main loop                                                               *)
(***************************************************************************)
Start ==
    /\ pc = "start"
    /\ \/ \E p \in PositionReads : lastRead' = p /\ Goto("loop")
       \/ /\ Finish("raised", "position_observation_unavailable", lastRead)
          /\ UNCHANGED <<cancelling, lastRead>>
    /\ UNCHANGED <<exchange, signals, active, sent, plan, tally, limits>>

Distance(p) == IF p < Target THEN Target - p ELSE p - Target

LoopHead(p) ==
    /\ lastRead' = p
    /\ remaining' = Distance(p)
    /\ \/ p > Target /\ Finish("failed", "target_overfilled", p)
                     /\ UNCHANGED cancelling
       \/ p <= Target /\ active # None /\ Goto("advance")
       \/ p = Target /\ active = None /\ Finish("completed", "target_reached", p)
                     /\ UNCHANGED cancelling
       \/ p < Target /\ active = None /\ Goto("slot")

Loop ==
    /\ pc = "loop"
    /\ \/ /\ DeadlinePassed
          /\ FinishDeadline
          /\ UNCHANGED <<lastRead, remaining>>
       \/ /\ ~DeadlinePassed /\ ShouldStop
          /\ StopForRequest
          /\ UNCHANGED <<lastRead, remaining>>
       \/ /\ ~DeadlinePassed /\ ~ShouldStop
          /\ \/ \E p \in PositionReads : LoopHead(p)
             \/ /\ StopAfterObservationFailure("position_observation_unavailable")
                /\ UNCHANGED <<lastRead, remaining>>
    /\ UNCHANGED <<exchange, signals, active, sent, size, tally, limits>>

(***************************************************************************)
(* An order is working                                                     *)
(***************************************************************************)
\* _retry_order_observation; max_observation_errors in a row end the leg
RetryObservation ==
    /\ errors' = errors + 1
    /\ IF errors + 1 >= MaxReadErrors
       THEN StopAfterObservationFailure("order_observation_unavailable")
       ELSE Goto("loop")
    /\ UNCHANGED <<active, tally>>

Observed(view, maker) ==
    /\ errors' = 0
    /\ counted' = counted + NewFill(view)
    /\ \/ /\ TakerFill(view, maker)
          /\ FinishHere("failed", "taker_fill_detected")
          /\ UNCHANGED <<active, seen, cancelling>>
       \/ /\ ~TakerFill(view, maker)
          /\ view.status \in {"rejected", "could_not_fill"}
          /\ FinishHere("failed", "post_only_rejected")
          /\ seen' = view.filled
          /\ UNCHANGED <<active, cancelling>>
       \/ /\ ~TakerFill(view, maker)
          /\ view.status \in {"filled", "canceled"}
          /\ active' = None /\ seen' = 0
          /\ Goto("loop")
       \/ /\ ~TakerFill(view, maker)
          /\ view.status = "live"
          /\ seen' = view.filled
          /\ Goto("market")
          /\ UNCHANGED active

Advance ==
    /\ pc = "advance"
    /\ \/ /\ ShouldStop
          /\ StopForRequest
          /\ UNCHANGED <<active, tally, errors>>
       \/ /\ ~ShouldStop
          /\ \/ RetryObservation        \* the read failed
             \/ \E view \in OrderViews(active), maker \in BOOLEAN :
                   IF view.status = "unknown"
                   THEN RetryObservation ELSE Observed(view, maker)
    /\ UNCHANGED <<exchange, signals, sent, plan, requotes, skips, lastRead>>

\* read_snapshot and policy.decide for the working order: hold or cancel
Market ==
    /\ pc = "market"
    /\ \/ StopAfterObservationFailure("market_observation_unavailable")
       \/ Goto("loop")
       \/ StartCancel("requote")
    /\ UNCHANGED <<exchange, signals, active, sent, plan, tally, limits,
                   lastRead>>

(***************************************************************************)
(* No order is working: submit the next one                                *)
(***************************************************************************)
\* quantity = min(remaining, max(tolerance, remaining * child_fraction))
\* Mutant: the order is sized on the whole target.
WholeTarget == 1..Target
ChildQuantities == 1..remaining

\* wait_for_submission_slot, then the last stop and deadline checks, the
\* snapshot and the policy
Slot ==
    /\ pc = "slot"
    /\ \/ ShouldStop /\ StopForRequest /\ UNCHANGED size
       \/ ~ShouldStop /\ DeadlinePassed /\ FinishDeadline /\ UNCHANGED size
       \/ /\ ~ShouldStop /\ ~DeadlinePassed
          /\ \/ /\ \E why \in {"policy_did_not_quote", "policy_would_take_liquidity"} :
                      FinishHere("failed", why)
                /\ UNCHANGED <<size, cancelling>>
             \/ /\ StopAfterObservationFailure("market_observation_unavailable")
                /\ UNCHANGED size
             \/ \E q \in ChildQuantities : size' = q /\ Goto("submit")
    /\ UNCHANGED <<exchange, signals, active, sent, remaining, tally, limits,
                   lastRead>>

\* submit_post_only refuses locally: nothing was sent
NotSubmitted ==
    /\ pc = "submit"
    /\ skips' = skips + 1
    /\ IF skips + 1 > MaxSkips
       THEN FinishHere("failed", "max_preflight_skips_exhausted") /\ UNCHANGED cancelling
       ELSE Goto("loop")
    /\ UNCHANGED <<exchange, signals, active, sent, plan, tally, requotes,
                   errors, lastRead>>

\* a local check of submit_post_only raises: nothing was sent
LocalFailure ==
    /\ pc = "submit"
    /\ FinishHere("raised", "preparation_failed")
    /\ UNCHANGED <<exchange, signals, active, sent, plan, tally, limits,
                   lastRead, cancelling>>

Send ==
    /\ pc = "submit"
    /\ sent < MaxOrders
    /\ sent' = sent + 1
    /\ status' = [status EXCEPT ![sent + 1] = "sent"]
    /\ qty' = [qty EXCEPT ![sent + 1] = size]
    /\ Goto("await")
    /\ UNCHANGED <<filled, cancels, position, start, signals, active, plan,
                   tally, limits, lastRead>>

\* the venue returned the order
Submitted ==
    /\ pc = "await"
    /\ status[sent] # "sent"
    /\ \/ /\ status[sent] = "rejected"
          /\ FinishHere("failed", "post_only_rejected")
          /\ UNCHANGED <<active, seen, cancelling>>
       \/ /\ status[sent] # "rejected" /\ ~AssuresPostOnly
          /\ FinishHere("failed", "venue_did_not_accept_post_only")
          /\ UNCHANGED <<active, seen, cancelling>>
       \/ /\ status[sent] # "rejected"
          /\ active' = sent /\ seen' = 0
          /\ Goto("loop")
    /\ UNCHANGED <<exchange, signals, sent, plan, counted, limits, lastRead>>

\* Mutant: a submission that raised is taken as not sent.
SubmissionForgotten ==
    /\ pc = "await"
    /\ Goto("loop")
    /\ UNCHANGED <<exchange, signals, active, sent, plan, tally, limits,
                   lastRead>>

\* the call raised: the order may or may not exist, now or later
SubmissionUncertain ==
    /\ pc = "await"
    /\ FinishHere("raised", "submission_uncertain")
    /\ UNCHANGED <<exchange, signals, active, sent, plan, tally, limits,
                   lastRead, cancelling>>

(***************************************************************************)
(* cancel_and_verify: one request, then bounded reads                      *)
(***************************************************************************)
CancelPosition ==
    /\ pc = "cancel_position"
    /\ \/ \E p \in PositionReads : before' = [known |-> TRUE, at |-> p]
       \/ before' = NoPosition
    /\ pc' = "cancel_request"
    /\ UNCHANGED <<exchange, signals, active, sent, plan, tally, limits,
                   lastRead, purpose, attempts, response, absent, result>>

CancelRequest ==
    /\ pc = "cancel_request"
    /\ cancels' = [cancels EXCEPT ![active] = @ + 1]
    /\ pc' = "cancel_response"
    /\ UNCHANGED <<market, signals, active, sent, plan, tally, limits,
                   lastRead, cancelling, result>>

CancelResponse ==
    /\ pc = "cancel_response"
    /\ \/ response' = "none"           \* the request raised
       \/ response' = "other"
       \/ ReportsAbsence /\ ~Working(active) /\ response' = "absent"
    /\ pc' = "cancel_verify"
    /\ UNCHANGED <<exchange, signals, active, sent, plan, tally, limits,
                   lastRead, purpose, attempts, before, absent, result>>

\* Mutant: a cancellation that was not confirmed is taken for one.
UnverifiedTrusted ==
    /\ active' = None /\ seen' = 0
    /\ pc' = IF purpose = "requote" THEN "loop" ELSE "final"
    /\ UNCHANGED <<counted, requotes, result>>

Unverified ==
    /\ FinishHere("uncertain",
                  CASE purpose = "stop"     -> "stop_cancel_not_confirmed"
                    [] purpose = "deadline" -> "deadline_cancel_not_confirmed"
                    [] OTHER                -> "cancel_not_confirmed")
    /\ UNCHANGED <<active, tally, requotes>>

\* what the four callers do with a verified order
AfterVerified ==
    /\ active' = None /\ seen' = 0
    /\ \/ /\ purpose = "requote"
          /\ requotes' = requotes + 1
          /\ IF requotes + 1 > MaxRequotes
             THEN FinishHere("failed", "max_requotes_exhausted")
             ELSE pc' = "loop" /\ UNCHANGED result
       \/ /\ purpose # "requote"
          /\ pc' = "final"
          /\ UNCHANGED <<requotes, result>>

Verified(view, maker) ==
    /\ counted' = counted + NewFill(view)
    /\ \/ /\ TakerFill(view, maker)
          /\ FinishHere("failed", "taker_fill_detected")
          /\ UNCHANGED <<active, seen, requotes>>
       \/ /\ ~TakerFill(view, maker) /\ view.status = "could_not_fill"
          /\ FinishHere("failed", "post_only_rejected")
          /\ seen' = view.filled
          /\ UNCHANGED <<active, requotes>>
       \/ /\ ~TakerFill(view, maker) /\ view.status # "could_not_fill"
          /\ AfterVerified

\* the cancel response, the read and the captured position together
AbsenceProven(gone) == gone /\ response = "absent" /\ before.known

\* no more reads: one last attempt to read the absence as a cancellation
VerifyExhausted(isAbsent) ==
    IF AbsenceProven(isAbsent)
    THEN pc' = "reconcile_last" /\ UNCHANGED <<active, tally, requotes, result>>
    ELSE Unverified

\* Mutant: the cancel request is repeated with every read.
NextCancel(isAbsent) ==
    IF attempts + 1 < MaxVerify
    THEN pc' = "cancel_request" /\ UNCHANGED <<active, tally, requotes, result>>
    ELSE VerifyExhausted(isAbsent)

NextVerify(isAbsent) ==
    IF attempts + 1 < MaxVerify
    THEN pc' = "cancel_verify" /\ UNCHANGED <<active, tally, requotes, result>>
    ELSE VerifyExhausted(isAbsent)

CancelVerify ==
    /\ pc = "cancel_verify"
    /\ attempts' = attempts + 1
    /\ \/ NextVerify(absent) /\ UNCHANGED absent       \* the read failed
       \/ \E view \in OrderViews(active), maker \in BOOLEAN, gone \in BOOLEAN :
            /\ gone => ReportsAbsence /\ view.status = "unknown"
            /\ absent' = gone
            /\ IF view.status \in {"filled", "canceled", "could_not_fill"}
               THEN Verified(view, maker)
               ELSE IF AbsenceProven(gone)
                    THEN pc' = "reconcile" /\ UNCHANGED <<active, tally, requotes, result>>
                    ELSE NextVerify(gone)
    /\ UNCHANGED <<exchange, signals, sent, plan, skips, errors, lastRead,
                   purpose, before, response>>

\* _reconcile_absent: an absent order and an unmoved position are a
\* cancellation; the row carries the fills seen so far
NotReconciled ==
    \/ pc = "reconcile_last" /\ Unverified
    \/ /\ pc = "reconcile" /\ attempts < MaxVerify
       /\ pc' = "cancel_verify"
       /\ UNCHANGED <<active, tally, requotes, result>>
    \/ pc = "reconcile" /\ attempts >= MaxVerify /\ VerifyExhausted(absent)

Reconcile ==
    /\ pc \in {"reconcile", "reconcile_last"}
    /\ \/ /\ before.at \in PositionReads
          /\ lastRead' = before.at
          /\ Verified([status |-> "canceled", filled |-> seen], TRUE)
       \/ /\ \E p \in PositionReads \ {before.at} : lastRead' = p
          /\ NotReconciled
       \/ UNCHANGED lastRead /\ NotReconciled        \* the read failed
    /\ UNCHANGED <<exchange, signals, sent, plan, skips, errors, cancelling>>

(***************************************************************************)
(* finish_deadline and the last position read                              *)
(***************************************************************************)
\* cancel_all_and_verify: each of the two requests is sent once
BulkCancel ==
    /\ pc = "bulk"
    /\ cancels' = [o \in Orders |-> IF Working(o) THEN cancels[o] + 1 ELSE cancels[o]]
    /\ pc' = "bulk_verify"
    /\ UNCHANGED <<market, signals, active, sent, plan, tally, limits,
                   lastRead, cancelling, result>>

\* regular and trigger orders both read empty
BooksEmpty == \A o \in Orders : ~Working(o)

BulkVerify ==
    /\ pc = "bulk_verify"
    /\ \/ /\ FinishHere("uncertain", "deadline_cleanup_not_confirmed")
          /\ UNCHANGED cancelling
       \/ /\ BooksEmpty
          /\ IF active = None THEN EndWith("deadline") ELSE Goto("deadline_fetch")
    /\ UNCHANGED <<exchange, signals, active, sent, plan, tally, limits,
                   lastRead>>

DeadlineFetch ==
    /\ pc = "deadline_fetch"
    /\ \/ /\ FinishHere("uncertain", "deadline_order_not_confirmed")  \* read failed
          /\ UNCHANGED <<active, tally, cancelling>>
       \/ \E view \in OrderViews(active), maker \in BOOLEAN :
            /\ counted' = counted + NewFill(view)
            /\ \/ /\ TakerFill(view, maker)
                  /\ FinishHere("failed", "taker_fill_detected")
                  /\ UNCHANGED <<active, seen, cancelling>>
               \/ /\ ~TakerFill(view, maker)
                  /\ view.status \notin {"filled", "canceled", "could_not_fill"}
                  /\ FinishHere("uncertain", "deadline_order_not_confirmed")
                  /\ seen' = view.filled
                  /\ UNCHANGED <<active, cancelling>>
               \/ /\ ~TakerFill(view, maker)
                  /\ view.status \in {"filled", "canceled", "could_not_fill"}
                  /\ active' = None /\ seen' = view.filled
                  /\ EndWith("deadline")
    /\ UNCHANGED <<exchange, signals, sent, plan, limits, lastRead>>

Final ==
    /\ pc = "final"
    /\ \/ \E p \in PositionReads :
            /\ lastRead' = p
            /\ \/ purpose = "stop" /\ Finish("stopped", "stop_requested", p)
               \/ /\ purpose = "deadline" /\ p = Target
                  /\ Finish("completed", "target_reached", p)
               \/ /\ purpose = "deadline" /\ p # Target
                  /\ Finish("failed", "deadline_exceeded", p)
               \/ purpose \in ObservationFailures /\ Finish("uncertain", purpose, p)
       \/ /\ UNCHANGED lastRead                       \* the read failed
          /\ \/ /\ purpose = "stop"
                /\ FinishHere("uncertain", "stop_position_observation_unavailable")
             \/ /\ purpose = "deadline"
                /\ FinishHere("uncertain", "position_observation_unavailable")
             \/ purpose \in ObservationFailures /\ FinishHere("uncertain", purpose)
    /\ UNCHANGED <<exchange, signals, active, sent, plan, tally, limits,
                   cancelling>>

Done == pc = "done" /\ UNCHANGED vars

(***************************************************************************)
(* The exchange, the clock and the operator                                *)
(***************************************************************************)
engine == <<pc, active, sent, plan, tally, limits, lastRead, cancelling,
            result>>

Accept(o) ==
    /\ status[o] = "sent"
    /\ status' = [status EXCEPT ![o] = "live"]
    /\ UNCHANGED <<qty, filled, cancels, position, start, signals, engine>>

\* rejected on arrival, or expired before it filled
Reject(o) ==
    /\ Working(o) /\ filled[o] = 0
    /\ status' = [status EXCEPT ![o] = "rejected"]
    /\ UNCHANGED <<qty, filled, cancels, position, start, signals, engine>>

Fill(o) ==
    /\ status[o] = "live"
    /\ filled' = [filled EXCEPT ![o] = @ + 1]
    /\ status' = [status EXCEPT ![o] = IF filled[o] + 1 = qty[o] THEN "filled" ELSE "live"]
    /\ position' = position + 1
    /\ UNCHANGED <<qty, cancels, start, signals, engine>>

\* at the leg's request or on the exchange's own initiative
Cancel(o) ==
    /\ status[o] = "live"
    /\ \/ status' = [status EXCEPT ![o] = "canceled"]
       \/ filled[o] = 0 /\ status' = [status EXCEPT ![o] = "could_not_fill"]
    /\ UNCHANGED <<qty, filled, cancels, position, start, signals, engine>>

Deadline ==
    /\ ~expired
    /\ expired' = TRUE
    /\ UNCHANGED <<exchange, stopping, engine>>

RequestStop ==
    /\ ~stopping
    /\ stopping' = TRUE
    /\ UNCHANGED <<exchange, expired, engine>>

Init ==
    /\ status = [o \in Orders |-> "unsent"]
    /\ qty = [o \in Orders |-> 0] /\ filled = [o \in Orders |-> 0]
    /\ cancels = [o \in Orders |-> 0]
    /\ start \in 0..Target + 1 /\ position = start
    /\ expired = FALSE /\ stopping = FALSE
    /\ pc = "start" /\ active = None /\ sent = 0
    /\ size = 0 /\ remaining = 0
    /\ seen = 0 /\ counted = 0
    /\ requotes = 0 /\ skips = 0 /\ errors = 0
    /\ lastRead = start
    /\ purpose = "requote" /\ attempts = 0 /\ before = NoPosition
    /\ response = "none" /\ absent = FALSE
    /\ result = NoResult

Engine ==
    \/ Start \/ Loop \/ Advance \/ Market \/ Slot
    \/ NotSubmitted \/ LocalFailure \/ Send \/ Submitted \/ SubmissionUncertain
    \/ CancelPosition \/ CancelRequest \/ CancelResponse \/ CancelVerify \/ Reconcile
    \/ BulkCancel \/ BulkVerify \/ DeadlineFetch \/ Final

Exchange == \E o \in Orders : Accept(o) \/ Reject(o) \/ Fill(o) \/ Cancel(o)

Next == Engine \/ Exchange \/ Deadline \/ RequestStop \/ Done

\* Every venue call returns or raises (the transport has timeouts) and the
\* clock passes the deadline; nothing is assumed of the exchange.
Spec == Init /\ [][Next]_vars /\ WF_vars(Engine) /\ WF_vars(Deadline)

(***************************************************************************)
(* Properties                                                              *)
(***************************************************************************)
\* At no time can two orders of the leg work on the exchange: a replacement
\* never overlaps the order it replaces, however late cancels, fills and
\* answers arrive (engine.py: submit only while state.active is None).
OneWorkingOrder == \A o, p \in Orders : Working(o) /\ Working(p) => o = p

\* The results a caller may take as "nothing of mine is left on the book":
\* the others are "uncertain", an exception, or one of three failures that
\* return with the order still working.
LeavesOrder == {"target_overfilled", "taker_fill_detected",
                "venue_did_not_accept_post_only"}
Clean == \/ result.status \in {"completed", "stopped"}
         \/ result.status = "failed" /\ result.reason \notin LeavesOrder

\* A clean result means that no order of the leg works on the exchange.
CleanLeavesNothing == Clean => \A o \in Orders : ~Working(o)

\* No order is asked to be cancelled twice (termination.py: the single
\* cancel request; only reads are repeated).
CancelSentOnce == \A o \in Orders : cancels[o] <= 1

\* What is held and what the working order can still add never exceed the
\* target of a leg that began below it.
NoOverfill ==
    start <= Target =>
        /\ position <= Target
        /\ \A o \in Orders : Working(o) => position + qty[o] <= Target + filled[o]

\* The final position of a completed, stopped or timed-out leg is what the
\* account holds, then and later.
PositionIsHeld ==
    \/ result.status \in {"completed", "stopped"}
    \/ result.status = "failed" /\ result.reason = "deadline_exceeded"
    => result.position = position

\* The volume of a clean leg is what the exchange filled for it: no fill is
\* missed or counted twice across polls, cancels and the deadline cleanup.
VolumeIsFilled == Clean => position = start + counted

\* What the leg does and what it tells its caller are exact.  Sizes and the final
\* position are as good as the position reads they are made from; and where an
\* order's absence proves its cancellation, the order ends without its last row,
\* so its last fill may be missing from the volume (termination.py,
\* _reconcile_absent).
LegIsExact ==
    /\ CancelSentOnce
    /\ StalePositions \/ (NoOverfill /\ PositionIsHeld)
    /\ ReportsAbsence \/ VolumeIsFilled

\* The leg ends, whatever the exchange does.
LegEnds == <>(pc = "done")

(***************************************************************************)
(* The inductive invariant behind OneWorkingOrder and CleanLeavesNothing:  *)
(* only the last order sent can work, and it can work only while the       *)
(* engine holds it as active, waits for the answer of its submission, or   *)
(* has ended.                                                              *)
(***************************************************************************)
Holding == {"advance", "market", "cancel_position", "cancel_request",
            "cancel_response", "cancel_verify", "reconcile", "reconcile_last",
            "deadline_fetch"}
NotHolding == {"start", "slot", "submit", "await", "final"}

ActiveIsHeld ==
    /\ pc \in Holding => active # None
    /\ pc \in NotHolding => active = None
    /\ active \in {None, sent}

OnlyLastWorks ==
    /\ \A o \in Orders : Working(o) => o = sent
    /\ active = None /\ pc \notin {"await", "done"} => \A o \in Orders : ~Working(o)
    /\ \A o \in Orders : o > sent => status[o] = "unsent"

AbsenceIsTerminal ==
    /\ pc \in {"reconcile", "reconcile_last"} => response = "absent"
    /\ pc \in {"cancel_verify", "reconcile", "reconcile_last"} /\ response = "absent"
           => ~Working(active)

ResultEnds == result.status = "running" <=> pc # "done"

ControlInv == ActiveIsHeld /\ OnlyLastWorks /\ AbsenceIsTerminal /\ ResultEnds
              /\ CleanLeavesNothing
LegInv == TypeOK /\ ControlInv

(***************************************************************************)
(* What LegIsExact rests on besides: how often each order was cancelled in *)
(* each phase, what an order may still fill, what the next one is sized    *)
(* on, and where the fills are that are not counted yet.                   *)
(***************************************************************************)
\* the phases in which the active order has not been cancelled
Uncancelled == {"loop", "advance", "market", "cancel_position", "cancel_request", "bulk"}

CancelInv ==
    /\ \A o \in Orders : cancels[o] <= 1 /\ (o > sent => cancels[o] = 0)
    /\ pc \in Uncancelled /\ active # None => cancels[active] = 0
    /\ pc = "await" => cancels[sent] = 0

FillInv ==
    \A o \in Orders : /\ status[o] \in {"unsent", "sent", "rejected"} => filled[o] = 0
                      /\ Working(o) => filled[o] < qty[o]

SizeInv ==
    /\ pc = "submit" => size > 0
    /\ ~StalePositions /\ pc \in {"slot", "submit"} => remaining + position = Target
    /\ ~StalePositions /\ pc = "submit" => size <= remaining

\* fills of the order at hand that were not counted
Uncounted ==
    IF active # None THEN filled[active] - seen
    ELSE IF pc = "await" THEN filled[sent] ELSE 0

CountInv ==
    /\ pc # "done" => position = start + counted + Uncounted
    /\ pc # "done" /\ active # None => seen <= filled[active]
    /\ pc \notin {"final", "done"} /\ active = None => seen = 0
    /\ pc = "await" => sent # None
    /\ response # "absent"
    /\ VolumeIsFilled

ExactInv ==
    /\ CancelInv /\ FillInv /\ SizeInv
    /\ ~StalePositions => NoOverfill /\ PositionIsHeld
    /\ ~ReportsAbsence => CountInv

LaneOrder == [o \in Orders |-> IF status[o] = "unsent" THEN "unsent"
                               ELSE IF Working(o) THEN "open" ELSE "settled"]
LaneVerdict == IF result.status = "running" THEN "running"
               ELSE IF Clean THEN "clean" ELSE "exposed"

Lane == INSTANCE MakerLane WITH order <- LaneOrder, verdict <- LaneVerdict

\* The leg implements MakerLane: submissions only over settled orders, and an
\* honest verdict.
ImplementsLane == Lane!LaneSpec
=============================================================================
