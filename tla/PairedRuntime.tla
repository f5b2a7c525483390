--------------------------- MODULE PairedRuntime ---------------------------
(* One account of the paired (mock and paper) runtime of the control centre: *)
(* the poll that reads it and advances its cycle, the operator's start,      *)
(* pause, stop, refresh and position close, the pause and the resumption     *)
(* that follow the Beta service, the execution journal with one record per   *)
(* cycle, and the ledger of fills.                                           *)
(*                                                                           *)
(* Everything that touches the account runs under its asyncio lock, so one   *)
(* operation `op' is in progress at a time; it stops at each await, where    *)
(* the process may die, the Beta service may fail, the venue may answer,     *)
(* time out or raise, and the owner of the account may open and close        *)
(* positions by hand.  The execution adapter is any one that keeps the       *)
(* contract of PairedExecutionAdapter, not only the mock.                    *)
EXTENDS Integers, FiniteSetsExt

CONSTANTS MaxCycles,   \* bound: cycles that are ever planned
          Target,      \* the strategy's incremental target
          Rounds,      \* turnovers a round may have (its configured range)
          HandLeg,     \* size of a leg the owner opens by hand
          MaxHands     \* bound: times the owner changes the position

ASSUME PairedAssumption ==
    /\ MaxCycles \in Nat \ {0} /\ Target \in Nat \ {0} /\ HandLeg \in Nat \ {0}
    /\ MaxHands \in Nat
    /\ Rounds \subseteq Nat \ {0} /\ Rounds # {}

VARIABLES inst,      \* the persisted projection of the account
          journal,   \* cycle -> its record (status, size of a leg)
          ledger,    \* identities of the recorded fills
          pos,       \* legs that are really open on the venue
          hands,     \* times the owner changed the position
          op,        \* the operation that holds the account's lock
          doubt      \* history: a cancellation ended unverified and the
                     \* operator has not stopped the account since

pairedVars == <<inst, journal, ledger, pos, hands, op, doubt>>

Cycles == 1..MaxCycles
Legs   == {"btc", "eth"}
\* The two legs are alike: one shape of a torn pair stands for both.
Positions == {{}, {"btc"}, Legs}
Unresolved == {"planned", "opened"}
CycleStatus == {"none", "planned", "opened", "completed", "rejected", "uncertain"}
InstStatus  == {"stopped", "running", "paused", "warning", "error"}
Pauses  == {"none", "beta", "position", "cancel"}
Results == {"none", "opened", "held", "completed", "recorded", "manual", "failed"}
Places  == {"idle", "collect", "cancel", "check", "allocate", "open", "close",
            "flatten", "publish"}
Callers == {"poll", "refresh", "pause", "stop", "flatten", "beta", "mismatch",
            "gone", "unavailable"}

Idle == [at |-> "idle", by |-> "poll", seen |-> {}, result |-> "none"]

Fill(n, phase)     == {<<n, phase, leg>> : leg \in Legs}
FillIds            == (0..MaxCycles) \X {"open", "close", "snapshot"} \X Legs
Quote(f)           == IF f[2] = "snapshot" THEN HandLeg ELSE journal[f[1]].leg
Volume(fills)      == MapThenSumSet(Quote, fills)
Generated(fills)   == Volume(fills) - inst.base

\* The cycle the account is at: cycle.completed + 1.
Sequence == inst.completed + 1
Record   == IF Sequence \in Cycles THEN journal[Sequence].status ELSE "none"
\* The journal: one record for each cycle, planned once and finished in place;
\* a journal that is opened gives up what was under way.
Begin(leg)     == journal' = [journal EXCEPT ![Sequence] = [status |-> "planned", leg |-> leg]]
Finish(status) == journal' = [journal EXCEPT ![Sequence].status = status]
GiveUp == journal' = [n \in Cycles |-> IF journal[n].status \in Unresolved
                                       THEN [journal[n] EXCEPT !.status = "uncertain"]
                                       ELSE journal[n]]

PairedTypeOK ==
    /\ inst \in [status : InstStatus, stage : {"idle", "holding", "cooldown", "complete"},
                 active : 0..MaxCycles, completed : 0..MaxCycles, pause : Pauses,
                 verified : BOOLEAN, exposure : SUBSET Legs, generated : Int,
                 base : Nat, wait : BOOLEAN]
    /\ journal \in [Cycles -> [status : CycleStatus, leg : Nat]]
    /\ ledger \subseteq FillIds /\ pos \subseteq Legs
    /\ op \in [at : Places, by : Callers, seen : SUBSET Legs, result : Results]
    /\ doubt \in BOOLEAN /\ hands \in 0..MaxHands

PairedInit ==
    /\ inst = [status |-> "stopped", stage |-> "idle", active |-> 0, completed |-> 0,
               pause |-> "none", verified |-> FALSE, exposure |-> {}, generated |-> 0,
               base |-> 0, wait |-> FALSE]
    /\ journal = [n \in Cycles |-> [status |-> "none", leg |-> 0]]
    /\ ledger = {} /\ pos = {} /\ op = Idle /\ doubt = FALSE /\ hands = 0

----------------------------------------------------------------------------
(* The projections of FleetControlService that several operations share.    *)

\* An unverified cancellation that leaves the account in the state it paused in.
CancelOverlooked ==
    /\ inst' = [inst EXCEPT !.verified = FALSE]
    /\ doubt' = TRUE

\* record_order_cancel_failure: the account is in error, and remembers what
\* it was paused for before.
CancelFailed ==
    /\ inst' = [inst EXCEPT !.status = "error", !.verified = FALSE,
                            !.pause = IF @ = "none" THEN "cancel" ELSE @]
    /\ doubt' = TRUE

\* record_runtime_failure, applied to the projection p.
Suspended(p) == [p EXCEPT !.status = IF @ \in {"running", "warning"} THEN "warning" ELSE @]

\* pause_for_position_mismatch
Mismatched(p) == IF p.status = "error" THEN p
                 ELSE [p EXCEPT !.status = "paused", !.pause = "position"]

\* record_execution_failure
ExecutionFailed(p) == [p EXCEPT !.status = "error"]

\* reconcile_after_restart
Rested(p) == [p EXCEPT !.status = IF @ = "error" THEN @ ELSE "stopped"]

----------------------------------------------------------------------------
(* Operator and Beta service: each takes the lock when it is free.           *)

\* apply_action(START).  Unless a pair is held, the start begins a fresh run.
Start ==
    /\ op.at = "idle"
    /\ inst.status \in {"stopped", "paused", "running"} /\ inst.pause = "none"
    /\ inst' = IF inst.stage = "holding"
               THEN [inst EXCEPT !.status = "running", !.verified = FALSE]
               ELSE [inst EXCEPT !.status = "running", !.verified = FALSE,
                                 !.stage = "idle", !.active = 0, !.wait = FALSE,
                                 !.generated = 0, !.base = Volume(ledger)]
    /\ UNCHANGED <<journal, ledger, pos, op, doubt, hands>>

Pause ==
    /\ op.at = "idle" /\ inst.status = "running"
    /\ inst' = [inst EXCEPT !.status = "paused", !.pause = "none"]
    /\ op' = [Idle EXCEPT !.at = "cancel", !.by = "pause"]
    /\ UNCHANGED <<journal, ledger, pos, doubt, hands>>

\* apply_action(STOP) and _stop_one: a stop of an account whose stop is
\* already verified does nothing.
Stop ==
    /\ op.at = "idle" /\ ~(inst.status = "stopped" /\ inst.verified)
    /\ inst' = [inst EXCEPT !.status = "stopped", !.pause = "none"]
    /\ op' = [Idle EXCEPT !.at = "cancel", !.by = "stop"]
    /\ doubt' = FALSE
    /\ UNCHANGED <<journal, ledger, pos, hands>>

\* close_positions, up to the cancellation of the active orders.
Flatten ==
    /\ op.at = "idle" /\ inst.status # "running" /\ inst.exposure # {}
    /\ op' = [Idle EXCEPT !.at = "cancel", !.by = "flatten"]
    /\ UNCHANGED <<inst, journal, ledger, pos, doubt, hands>>

\* reconcile_beta_availability
BetaDown ==
    /\ op.at = "idle" /\ inst.status = "running"
    /\ inst' = [inst EXCEPT !.status = "paused", !.pause = "beta"]
    /\ op' = [Idle EXCEPT !.at = "cancel", !.by = "beta"]
    /\ UNCHANGED <<journal, ledger, pos, doubt, hands>>

BetaPaused == inst.status = "paused" /\ inst.pause = "beta"
BetaUp ==
    /\ op.at = "idle" /\ BetaPaused
    /\ inst' = [inst EXCEPT !.status = "running", !.pause = "none"]
    /\ UNCHANGED <<journal, ledger, pos, op, doubt, hands>>

----------------------------------------------------------------------------
(* The poll.                                                                 *)

Poll(kind) ==
    /\ op.at = "idle" /\ op' = [Idle EXCEPT !.at = "collect", !.by = kind]
    /\ UNCHANGED <<inst, journal, ledger, pos, doubt, hands>>

\* The account cannot be read, or there is nothing left to plan.
Remaining == Target - inst.generated
PollFails ==
    /\ op.at = "collect" \/ (op.at = "allocate" /\ Remaining <= 0)
    /\ inst' = Suspended(inst) /\ op' = Idle
    /\ UNCHANGED <<journal, ledger, pos, doubt, hands>>

Watching == inst.stage = "holding" /\ inst.status \in {"running", "paused"}

\* What the poll found does not fit the pair the projection says is held: the
\* projection itself is broken, both legs are gone, or one of them is.
FoundMismatch ==
    /\ op.at = "collect" /\ op.by = "poll" /\ Watching
    /\ LET broken == inst.exposure # Legs
           gone   == ~broken /\ pos = {}
           torn   == ~broken /\ pos # {} /\ pos # Legs IN
       /\ broken \/ gone \/ torn
       /\ inst' = IF gone THEN inst ELSE Mismatched(inst)
       /\ op' = [at |-> "cancel", by |-> IF gone THEN "gone" ELSE "mismatch",
                 seen |-> pos, result |-> "none"]
    /\ UNCHANGED <<journal, ledger, pos, doubt, hands>>

Sound == Watching => inst.exposure = Legs /\ pos = Legs

\* Nothing to execute: a manual refresh, or an account that is not running.
JustLook ==
    /\ op.at = "collect"
    /\ op.by = "refresh" \/ (Sound /\ inst.status # "running" /\ ~BetaPaused)
    /\ op' = [op EXCEPT !.at = "publish", !.seen = pos]
    /\ UNCHANGED <<inst, journal, ledger, pos, doubt, hands>>

LookAtBeta ==
    /\ op.at = "collect" /\ op.by = "poll" /\ Sound /\ BetaPaused
    /\ op' = [op EXCEPT !.at = "check", !.seen = pos]
    /\ UNCHANGED <<inst, journal, ledger, pos, doubt, hands>>

CheckAllocation(available) ==
    /\ op.at = "check"
    /\ inst' = IF available THEN [inst EXCEPT !.status = "running", !.pause = "none"] ELSE inst
    /\ op' = [op EXCEPT !.at = "publish"]
    /\ UNCHANGED <<journal, ledger, pos, doubt, hands>>

Executing == op.at = "collect" /\ op.by = "poll" /\ Sound /\ inst.status = "running"

\* execute_next on a cycle that already has a record: it is never submitted
\* again.  A held pair is closed once its holding time is over.
RecordFound ==
    /\ Executing /\ Record # "none"
    /\ LET status == IF Record = "planned" THEN "uncertain" ELSE Record
           result == CASE status = "opened"    -> "held"
                       [] status = "completed" -> "recorded"
                       [] OTHER                -> "failed" IN
       /\ Finish(status)
       /\ op' = [op EXCEPT !.at = "publish", !.seen = pos, !.result = result]
    /\ UNCHANGED <<inst, ledger, pos, doubt, hands>>

CloseUnlessHeld ==   \* the projection that holds a pair is not closed
    /\ Executing /\ Record = "opened" /\ inst.stage # "holding"
    /\ op' = [op EXCEPT !.at = "close", !.seen = pos]
    /\ UNCHANGED <<inst, journal, ledger, pos, doubt, hands>>
CloseDue ==
    /\ Executing /\ Record = "opened"
    /\ op' = [op EXCEPT !.at = "close", !.seen = pos]
    /\ UNCHANGED <<inst, journal, ledger, pos, doubt, hands>>

\* The pause between rounds is not over (`wait'), or the bound is reached.
NotDue ==
    /\ Executing /\ Record = "none" /\ (inst.wait \/ Sequence \notin Cycles)
    /\ op' = [op EXCEPT !.at = "publish", !.seen = pos]
    /\ UNCHANGED <<inst, journal, ledger, pos, doubt, hands>>

\* No record and no pause that is left: ask for the allocation.
AskAllocation ==
    /\ Executing /\ Record = "none" /\ ~inst.wait /\ Sequence \in Cycles
    /\ op' = [op EXCEPT !.at = "allocate", !.seen = pos]
    /\ UNCHANGED <<inst, journal, ledger, pos, doubt, hands>>

Unavailable ==
    /\ op.at = "allocate"
    /\ inst' = [inst EXCEPT !.status = "paused", !.pause = "beta"]
    /\ op' = [op EXCEPT !.at = "cancel", !.by = "unavailable"]
    /\ UNCHANGED <<journal, ledger, pos, doubt, hands>>

\* plan_strategy_cycle: a round of the configured size, or what is missing to
\* the target; half of it is opened, half of that in each leg.
WholeRounds == Rounds   \* what is missing to the target is not looked at
Turnovers == IF \E r \in Rounds : Remaining <= r THEN {Remaining} ELSE Rounds
Plan ==
    /\ op.at = "allocate" /\ Remaining > 0
    /\ \E turnover \in Turnovers : Begin(turnover \div 4)
    /\ op' = [op EXCEPT !.at = "open"]
    /\ UNCHANGED <<inst, ledger, pos, doubt, hands>>

\* open_once: opened in full with its fills recorded first; rejected; or an
\* outcome that is unknown (uncertain, an exception, fills that do not match
\* the plan, a ledger that failed half-way), which is never tried again.
Opened ==
    /\ op.at = "open"
    /\ pos' = Legs /\ ledger' = ledger \union Fill(Sequence, "open")
    /\ Finish("opened") /\ op' = [op EXCEPT !.at = "publish", !.result = "opened"]
    /\ UNCHANGED <<inst, doubt, hands>>

Rejected ==
    /\ op.at \in {"open", "close"}
    /\ Finish("rejected") /\ op' = [op EXCEPT !.at = "publish", !.result = "failed"]
    /\ UNCHANGED <<inst, ledger, pos, doubt, hands>>

Phase == IF op.at = "open" THEN "open" ELSE "close"
Effects == [open |-> Positions, close |-> Positions \cap SUBSET pos,
            flatten |-> Positions \cap SUBSET pos]

Unknown ==
    /\ op.at \in {"open", "close"}
    /\ pos' \in Effects[op.at]
    /\ \E f \in {{}, Fill(Sequence, Phase)} : ledger' = ledger \union f
    /\ Finish("uncertain") /\ op' = [op EXCEPT !.at = "publish", !.result = "failed"]
    /\ UNCHANGED <<inst, doubt, hands>>

Closed ==
    /\ op.at = "close"
    /\ pos' = {} /\ ledger' = ledger \union Fill(Sequence, "close")
    /\ Finish("completed") /\ op' = [op EXCEPT !.at = "publish", !.result = "completed"]
    /\ UNCHANGED <<inst, doubt, hands>>

----------------------------------------------------------------------------
(* Cancellation of the active orders, and what each caller does after it.    *)

Unverified ==
    /\ op.at = "cancel" /\ CancelFailed
    /\ op' = IF op.by \in {"gone", "mismatch", "unavailable"}
             THEN [op EXCEPT !.at = "publish"] ELSE Idle
    /\ UNCHANGED <<journal, ledger, pos, hands>>

\* The position of the cycle's record in the journal is the one the
\* projection holds.
Matched == Record = "opened" /\ inst.active = Sequence

Verified ==
    /\ op.at = "cancel" /\ op.by \in {"pause", "stop", "beta", "mismatch", "unavailable"}
    /\ inst' = [inst EXCEPT !.verified = @ \/ op.by = "stop"]
    /\ op' = IF op.by \in {"mismatch", "unavailable"} THEN [op EXCEPT !.at = "publish"] ELSE Idle
    /\ UNCHANGED <<journal, ledger, pos, doubt, hands>>

\* reconcile_manual_pair_closed
VerifiedGone ==
    /\ op.at = "cancel" /\ op.by = "gone"
    /\ IF Matched
       THEN /\ Finish("completed") /\ inst' = inst
            /\ op' = [op EXCEPT !.at = "publish", !.result = "manual"]
       ELSE /\ inst' = Mismatched(inst) /\ journal' = journal
            /\ op' = [op EXCEPT !.at = "publish"]
    /\ UNCHANGED <<ledger, pos, doubt, hands>>

\* coordinator.close_positions: a record or a held pair must be the one cycle
\* that is open; without either, the exposure is closed as it stands.
VerifiedFlatten ==
    /\ op.at = "cancel" /\ op.by = "flatten"
    /\ IF (Record = "none" /\ inst.active = 0 /\ inst.stage # "holding") \/ Matched
       THEN inst' = inst /\ op' = [op EXCEPT !.at = "flatten"]
       ELSE inst' = ExecutionFailed(inst) /\ op' = Idle
    /\ UNCHANGED <<journal, ledger, pos, doubt, hands>>

CloseIds == IF Matched THEN {<<Sequence, "close", leg>> : leg \in inst.exposure}
            ELSE {<<inst.completed, "snapshot", leg>> : leg \in inst.exposure}

\* The close went through: ledger, journal, then record_positions_closed.
Flattened ==
    /\ op.at = "flatten" /\ pos' = {} /\ ledger' = ledger \union CloseIds
    /\ IF Matched THEN Finish("completed") ELSE journal' = journal
    /\ LET generated == inst.generated + Volume(CloseIds)
           reached   == generated >= Target IN
       inst' = [inst EXCEPT
                 !.generated = generated, !.exposure = {}, !.active = 0, !.wait = FALSE,
                 !.completed = IF Matched THEN Sequence ELSE @,
                 !.stage = IF reached THEN "complete" ELSE IF Matched THEN "cooldown" ELSE "idle",
                 !.status = IF reached /\ @ \in {"stopped", "paused"} THEN "stopped" ELSE @]
    /\ op' = Idle /\ UNCHANGED <<doubt, hands>>

\* The venue refuses, answers that it does not know, or raises: the record is
\* terminal.  A timeout cancels the coordinator, which leaves it open.
FlattenFails(how) ==
    /\ op.at = "flatten"
    /\ pos' \in IF how = "rejected" THEN {pos} ELSE Effects.flatten
    /\ IF how = "timeout" \/ ~Matched THEN journal' = journal ELSE Finish(how)
    /\ inst' = ExecutionFailed(inst) /\ op' = Idle
    /\ UNCHANGED <<ledger, doubt, hands>>

----------------------------------------------------------------------------
(* The end of a poll: apply_telemetry, then record_strategy_execution and    *)
(* record_execution_failure.                                                 *)

\* A failed cycle counted as completed.
ObservedAnyhow ==
    [inst EXCEPT
       !.exposure = op.seen,
       !.completed = IF op.result \notin {"none", "opened", "held"} THEN Sequence ELSE @,
       !.generated = Generated(ledger)]
Observed ==
    [inst EXCEPT
       !.exposure  = CASE op.result \in {"opened", "held"} -> Legs
                       [] op.result \in {"completed", "recorded", "manual"} -> {}
                       [] OTHER -> op.seen,
       !.completed = IF op.result \in {"completed", "recorded", "manual"} THEN Sequence ELSE @,
       !.generated = Generated(ledger)]

Projected(p) ==
    LET reached == p.generated >= Target IN
    CASE op.result = "opened" ->
           [p EXCEPT !.stage = "holding", !.active = inst.completed + 1]
      [] op.result \in {"completed", "manual"} /\ p.active = inst.completed + 1 ->
           [p EXCEPT !.stage = IF reached THEN "complete" ELSE "cooldown",
                     !.status = IF reached THEN "stopped" ELSE @,
                     !.active = 0, !.wait = ~reached]
      [] op.result = "failed" -> ExecutionFailed(p)
      [] OTHER -> p

Publish ==
    /\ op.at = "publish" /\ inst' = Projected(Observed) /\ op' = Idle
    /\ UNCHANGED <<journal, ledger, pos, doubt, hands>>

\* The volume ledger or the repository fails before or after the telemetry is
\* applied: what the journal and the ledger already hold is not projected.
PublishFails(applied) ==
    /\ op.at = "publish"
    /\ inst' = Suspended(IF applied THEN Observed ELSE inst) /\ op' = Idle
    /\ UNCHANGED <<journal, ledger, pos, doubt, hands>>

----------------------------------------------------------------------------
(* Time, the owner of the account, and the process.                          *)

RoundPauseOver ==
    /\ inst.wait /\ inst' = [inst EXCEPT !.wait = FALSE]
    /\ UNCHANGED <<journal, ledger, pos, op, doubt, hands>>

\* The owner changes the position on the venue: one leg is left, or none.
Hand(legs) ==
    /\ legs # pos /\ hands < MaxHands /\ pos' = legs /\ hands' = hands + 1
    /\ UNCHANGED <<inst, journal, ledger, op, doubt>>

\* The process dies and comes back: what was submitted may have had its
\* effect and its fills may be recorded; the journal gives up every cycle that
\* was under way and the account is left stopped.
Restart ==
    /\ IF op.at \in {"open", "close", "flatten"}
       THEN /\ pos' \in Effects[op.at]
            /\ \E f \in {{}, IF op.at = "flatten" THEN CloseIds ELSE Fill(Sequence, Phase)} :
                 ledger' = ledger \union f
       ELSE UNCHANGED <<pos, ledger>>
    /\ GiveUp /\ inst' = Rested(inst)
    /\ op' = Idle /\ UNCHANGED <<doubt, hands>>

PollStep ==
    \/ PollFails \/ FoundMismatch \/ JustLook \/ LookAtBeta \/ RecordFound \/ CloseDue
    \/ NotDue \/ AskAllocation \/ Plan \/ Opened \/ Rejected \/ Unknown \/ Closed
    \/ \E available \in BOOLEAN : CheckAllocation(available)
    \/ Unavailable \/ Unverified \/ Verified \/ VerifiedGone \/ VerifiedFlatten
    \/ Flattened \/ \E how \in {"rejected", "uncertain", "timeout"} : FlattenFails(how)
    \/ Publish \/ \E applied \in BOOLEAN : PublishFails(applied)

Operator == Start \/ Pause \/ Stop \/ Flatten \/ BetaDown \/ BetaUp \/ Poll("refresh")

PairedNext ==
    \/ PollStep \/ Poll("poll") \/ Operator \/ RoundPauseOver \/ Restart
    \/ \E legs \in Positions \ {Legs} : Hand(legs)

\* Awaits end (each is bounded by the poll timeout or by the adapter), the
\* poll loop comes round although others take the lock, and a holding time
\* that is over is seen by a later poll.
PairedFairness ==
    /\ WF_pairedVars(PollStep) /\ SF_pairedVars(Poll("poll"))
    /\ SF_pairedVars(CloseDue) /\ WF_pairedVars(RoundPauseOver)

PairedSpec == PairedInit /\ [][PairedNext]_pairedVars /\ PairedFairness

----------------------------------------------------------------------------
(* Properties.                                                               *)

\* The journal is sound, over timeouts, failed projections and restarts.  A
\* cycle gets a record only after every earlier one is known to have
\* completed: none is planned on top of one whose outcome is open or in doubt.
\* And it agrees with the ledger: a pair that is open or completed has its
\* opening fills there, and closing fills belong to a cycle that is over.
NoCycleOverDoubt ==
    \A n \in Cycles : journal[n].status # "none" =>
        \A m \in 1..(n - 1) : journal[m].status = "completed"
FillsAreJournalled ==
    \A n \in Cycles :
        /\ journal[n].status \in {"opened", "completed"} => Fill(n, "open") \subseteq ledger
        /\ Fill(n, "close") \cap ledger # {} => journal[n].status \in {"completed", "uncertain"}
JournalIsSound == NoCycleOverDoubt /\ FillsAreJournalled

\* Once a cancellation could not be verified, nothing but the operator's stop
\* lets the account run again: not the Beta service coming back, not a poll,
\* not a restart followed by a start.
UnverifiedStandsStill == doubt => inst.status # "running"

\* No cycle is planned beyond the target of the run: what its four fills will
\* add fits into what the ledger still lacks.
NeverPastTarget ==
    [][\A n \in Cycles : journal[n].status = "none" /\ journal'[n].status # "none" =>
          Generated(ledger) + 4 * journal'[n].leg <= Target]_pairedVars

\* A running account does not hold its pair for ever: the record of the open
\* cycle is closed, or the account stops running.
HoldingEnds ==
    (inst.status = "running" /\ Record = "opened")
        ~> (inst.status # "running" \/ Record # "opened")
=============================================================================
