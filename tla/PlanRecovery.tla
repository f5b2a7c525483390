---------------------------- MODULE PlanRecovery ----------------------------
(* The files of one beta-volume plan and the processes that read them:       *)
(* BetaVolumePlanStore of src/src/weex_cli/beta_volume, the sessions that     *)
(* execute the plan and the recoveries that close what a session left, one    *)
(* symbol at a time, from a quantity the operator confirmed.                  *)
(*                                                                           *)
(* A session is what BetaCycle shows of it: it trades both symbols and saves  *)
(* a verdict, or dies.  A closing leg is what MakerLane promises.             *)
EXTENDS Naturals

CONSTANTS Executors,         \* processes that execute the plan
          Recoverers,        \* processes that recover it
          ClosingAttempts    \* plan.recovery_attempts

ASSUME RecoveryAssumption == ClosingAttempts \in Nat \ {0}

VARIABLES record,            \* the state in the plan's file
          claimFile,         \* the plan's claim exists
          recoveryClaims,    \* symbols whose recovery claim exists
          results,           \* symbol -> the saved result of its recovery
          executor,          \* executor -> its step
          recoverer,         \* recoverer -> its step, symbol and quantity
          held,              \* symbol -> lots of the plan's side
          resting            \* symbols with an order that works

planVars ==
    <<record, claimFile, recoveryClaims, results, executor, recoverer, held, resting>>

Symbols == {"BTC", "ETH"}
MaxHeld == 1
SessionVerdicts == {"completed", "stopped", "uncertain"}
Recoverable == {"uncertain", "stopped", "recovery_uncertain"}

RecoveryTypeOK ==
    /\ record \in {"planned", "executing", "recovery_uncertain"} \union SessionVerdicts
    /\ claimFile \in BOOLEAN /\ recoveryClaims \subseteq Symbols
    /\ results \in [Symbols -> {"none"} \union SessionVerdicts]
    /\ executor \in [Executors -> {"idle", "claim", "saving", "session", "ended"}]
    /\ recoverer \in [Recoverers -> [at : {"idle", "confirmed", "claim", "recover", "lane", "closing",
                                           "closed", "final", "ended"},
                                     symbol : Symbols, quantity : 0..MaxHeld,
                                     attempt : 1..ClosingAttempts, sound : BOOLEAN]]
    /\ held \in [Symbols -> 0..MaxHeld] /\ resting \subseteq Symbols

RecoveryInit ==
    /\ record = "planned" /\ claimFile = FALSE
    /\ recoveryClaims = {} /\ results = [s \in Symbols |-> "none"]
    /\ executor = [p \in Executors |-> "idle"]
    /\ recoverer \in [Recoverers -> {[at |-> "idle", symbol |-> s, quantity |-> 0, attempt |-> 1,
                                      sound |-> TRUE] : s \in Symbols}]
    /\ held = [s \in Symbols |-> 0] /\ resting = {}

----------------------------------------------------------------------------
(* Execution: claim_for_execution, a session, its verdict.                   *)

ExecutorAt(p, step) == executor' = [executor EXCEPT ![p] = step]
AccountSame == UNCHANGED <<held, resting>>

LoadPlanned(p) ==
    /\ executor[p] = "idle"
    /\ ExecutorAt(p, IF record = "planned" THEN "claim" ELSE "ended")
    /\ AccountSame /\ UNCHANGED <<record, claimFile, recoveryClaims, results, recoverer>>

ClaimPlan(p) ==
    /\ executor[p] = "claim"
    /\ IF claimFile THEN ExecutorAt(p, "ended") /\ UNCHANGED claimFile
       ELSE claimFile' = TRUE /\ ExecutorAt(p, "saving")
    /\ AccountSame /\ UNCHANGED <<record, recoveryClaims, results, recoverer>>

SavePlanExecuting(p) ==
    /\ executor[p] = "saving"
    /\ IF record = "planned"
       THEN record' = "executing" /\ ExecutorAt(p, "session") /\ UNCHANGED claimFile
       ELSE claimFile' = FALSE /\ ExecutorAt(p, "ended") /\ UNCHANGED record
    /\ AccountSame /\ UNCHANGED <<recoveryClaims, results, recoverer>>

SessionTrades(p) ==
    /\ executor[p] = "session"
    /\ held' \in [Symbols -> 0..MaxHeld] /\ resting' \in SUBSET Symbols
    /\ UNCHANGED <<record, claimFile, recoveryClaims, results, executor, recoverer>>

SessionSaves(p) ==
    /\ executor[p] = "session"
    /\ \E verdict \in SessionVerdicts :
         /\ verdict = "completed" => resting = {} /\ \A s \in Symbols : held[s] = 0
         /\ record' = verdict
    /\ ExecutorAt(p, "ended")
    /\ AccountSame /\ UNCHANGED <<claimFile, recoveryClaims, results, recoverer>>

\* What a session that dies leaves says executing, which nobody may recover.
SessionDies(p) ==
    /\ executor[p] \in {"claim", "saving", "session"} /\ ExecutorAt(p, "ended")
    /\ AccountSame /\ UNCHANGED <<record, claimFile, recoveryClaims, results, recoverer>>

----------------------------------------------------------------------------
(* Recovery: a dry run, its confirmation, the claim, the closing legs.       *)

Moves(r, step) == recoverer' = [recoverer EXCEPT ![r].at = step]
FilesStay == UNCHANGED <<record, claimFile, recoveryClaims, results, executor>>

RecoveryDryRun(r) ==
    /\ recoverer[r].at = "idle"
    /\ LET s == recoverer[r].symbol IN
       IF record \in Recoverable /\ held[s] > 0
       THEN recoverer' = [recoverer EXCEPT ![r].at = "confirmed", ![r].quantity = held[s]]
       ELSE recoverer' = recoverer
    /\ FilesStay /\ AccountSame

\* The phrase names the quantity that is still observed.
ConfirmRecovery(r) ==
    LET me == recoverer[r] IN
    /\ me.at = "confirmed"
    /\ Moves(r, IF record \in Recoverable /\ held[me.symbol] = me.quantity THEN "claim" ELSE "ended")
    /\ FilesStay /\ AccountSame

\* claim_for_recovery
MayRecover    == record \in Recoverable
ClaimTaken(s) == s \in recoveryClaims
ClaimRecovery(r) ==
    LET s == recoverer[r].symbol IN
    /\ recoverer[r].at = "claim"
    /\ IF ~MayRecover \/ ClaimTaken(s)
       THEN Moves(r, "ended") /\ UNCHANGED recoveryClaims
       ELSE recoveryClaims' = recoveryClaims \union {s} /\ Moves(r, "recover")
    /\ UNCHANGED <<record, claimFile, results, executor>> /\ AccountSame

\* recover: flat already; or refused, with the claim spent; or a lane.
StartRecovery(r) ==
    LET me == recoverer[r] IN
    /\ me.at = "recover"
    /\ \/ Moves(r, "ended")
       \/ held[me.symbol] = me.quantity /\ me.symbol \notin resting /\ Moves(r, "lane")
    /\ FilesStay /\ AccountSame

\* _flatten_lane observes the position before every leg.
LookAtLane(r) ==
    LET me == recoverer[r] IN
    /\ me.at = "lane"
    /\ \/ held[me.symbol] = 0 /\ Moves(r, "final")
       \/ held[me.symbol] > 0 /\ Moves(r, "closing")
       \/ recoverer' = [recoverer EXCEPT ![r].at = "final", ![r].sound = FALSE]
    /\ FilesStay /\ AccountSame

\* One Maker leg: some lots close; its end is clean or leaves an order.
CloseLeg(r) ==
    LET me == recoverer[r] IN
    /\ me.at = "closing"
    /\ \E f \in 0..held[me.symbol], clean \in BOOLEAN :
         /\ held' = [held EXCEPT ![me.symbol] = @ - f]
         /\ \/ resting' = resting
            \/ ~clean /\ resting' = resting \union {me.symbol}
         /\ recoverer' = [recoverer EXCEPT ![r].at = "closed", ![r].sound = clean]
    /\ FilesStay

AfterCloseLeg(r) ==
    LET me == recoverer[r] IN
    /\ me.at = "closed"
    /\ IF held[me.symbol] = 0 THEN Moves(r, "final")
       ELSE IF ~me.sound THEN Moves(r, "final")
       ELSE IF me.attempt = ClosingAttempts
            THEN recoverer' = [recoverer EXCEPT ![r].at = "final", ![r].sound = FALSE]
       ELSE recoverer' = [recoverer EXCEPT ![r].at = "lane", ![r].attempt = @ + 1]
    /\ FilesStay /\ AccountSame

\* The final look and the saved result; the reads may raise.
FinishRecovery(r) ==
    LET me == recoverer[r]
        completed == held[me.symbol] = 0 /\ me.symbol \notin resting /\ me.sound IN
    /\ me.at = "final"
    /\ \/ results' = results
       \/ completed /\ results' = [results EXCEPT ![me.symbol] = "completed"]
       \/ ~completed /\ \E status \in {"stopped", "uncertain"} :
                            results' = [results EXCEPT ![me.symbol] = status]
    /\ Moves(r, "ended")
    /\ UNCHANGED <<record, claimFile, recoveryClaims, executor>> /\ AccountSame

RecovererDies(r) ==
    /\ recoverer[r].at \notin {"idle", "ended"} /\ Moves(r, "ended")
    /\ FilesStay /\ AccountSame

\* An order that works fills, or somebody cancels it; a hand may close a lot.
RestingEnds ==
    /\ \E s \in resting :
         /\ resting' = resting \ {s}
         /\ held' \in {held, [held EXCEPT ![s] = IF @ = 0 THEN 0 ELSE @ - 1],
                       [held EXCEPT ![s] = IF @ = MaxHeld THEN @ ELSE @ + 1]}
    /\ UNCHANGED <<record, claimFile, recoveryClaims, results, executor, recoverer>>

RecoveryStep(r) == ConfirmRecovery(r) \/ ClaimRecovery(r) \/ StartRecovery(r) \/ LookAtLane(r)
                   \/ CloseLeg(r) \/ AfterCloseLeg(r) \/ FinishRecovery(r)

RecoveryNext ==
    \/ \E p \in Executors : LoadPlanned(p) \/ ClaimPlan(p) \/ SavePlanExecuting(p)
                            \/ SessionTrades(p) \/ SessionSaves(p) \/ SessionDies(p)
    \/ \E r \in Recoverers : RecoveryDryRun(r) \/ RecoveryStep(r) \/ RecovererDies(r)
    \/ RestingEnds

----------------------------------------------------------------------------
(* Properties.                                                               *)

\* A recovery closes a symbol alone: no session of the plan trades, however
\* long ago another one loaded the plan, no other recovery has the symbol, and
\* none has saved a result for it before.
Recovering(r) == recoverer[r].at \in {"recover", "lane", "closing", "closed", "final"}
RecoveryIsAlone ==
    \A r \in Recoverers : Recovering(r) =>
        /\ \A p \in Executors : executor[p] # "session"
        /\ \A q \in Recoverers : Recovering(q) /\ recoverer[q].symbol = recoverer[r].symbol => q = r
        /\ results[recoverer[r].symbol] = "none"
=============================================================================
