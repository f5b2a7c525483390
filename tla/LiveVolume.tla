----------------------------- MODULE LiveVolume -----------------------------
(* The live Maker volume runner of the command line, LiveMakerVolumeService  *)
(* of src/src/weex_cli/volume/live: one process executes one plan in rounds, *)
(* each of which opens a position on one side with a Maker leg, closes it    *)
(* with a few more and counts what the fills prove.  The sides alternate.    *)
(*                                                                           *)
(* A leg is what MakerLane promises of execute_adaptive_maker_target: a clean *)
(* one leaves no order behind, an exposed one may.  An order that strays may *)
(* still fill one lot at any time.  Volume is counted in lots.               *)
EXTENDS Naturals

CONSTANTS VolumeTarget,      \* plan.target_quote
          RoundQuote,        \* plan.round_quote
          RecoveryAttempts,  \* plan.recovery_attempts
          MaxEmptyRounds     \* plan.max_empty_rounds

ASSUME LiveVolumeAssumption ==
    /\ VolumeTarget \in Nat \ {0} /\ RoundQuote \in 1..VolumeTarget
    /\ RecoveryAttempts \in Nat \ {0} /\ MaxEmptyRounds \in Nat

VARIABLES plan,        \* the state in the plan's file
          session,     \* the process: where it is, its round and counters
          lots,        \* side -> lots really held
          strays,      \* orders of the session that still work
          verified,    \* verified_quote
          made,        \* lots that really filled as Maker
          surrendered  \* history: a leg failed and left its order working

liveVars == <<plan, session, lots, strays, verified, made, surrendered>>

Sides == {"long", "short"}
Opposite(side) == IF side = "long" THEN "short" ELSE "long"
Readings == {"uncertain", "accounting", "taker", "rejected", "verified", "idle"}
PlanStates == {"planned", "executing", "rejected", "completed", "stopped", "uncertain"}

\* plan.estimated_rounds and the bound of the loop
EstimatedRounds == (VolumeTarget + RoundQuote - 1) \div RoundQuote
MaxCompletedRounds == EstimatedRounds * 3 + MaxEmptyRounds + 5

\* quantity_for_turnover: half of the turnover, and one step at least.
QuantityFor(turnover) == IF turnover = 1 THEN 1 ELSE turnover \div 2

LiveTypeOK ==
    /\ plan \in PlanStates
    /\ session \in [at : {"idle", "preflight", "round", "opening", "opened", "flatten",
                          "closing", "closed", "classify", "acceptance", "done", "raised"},
                    side : Sides, quantity : Nat, leg : Readings, opened : BOOLEAN,
                    last : Readings, problem : Readings, attempt : 1..RecoveryAttempts,
                    empties : Nat, completed : Nat]
    /\ lots \in [Sides -> Nat] /\ strays \subseteq Sides \X {"grow", "shrink"}
    /\ verified \in Nat /\ made \in Nat /\ surrendered \in BOOLEAN

LiveInit ==
    /\ plan = "planned"
    /\ session = [at |-> "idle", side |-> "short", quantity |-> 0, leg |-> "idle", opened |-> FALSE,
                  last |-> "idle", problem |-> "idle", attempt |-> 1, empties |-> 0, completed |-> 0]
    /\ lots \in [Sides -> {0, 1}] /\ strays = {}
    /\ verified = 0 /\ made = 0 /\ surrendered = FALSE

LiveGoes(s, place)   == session' = [s EXCEPT !.at = place]
\* _finish: the state is saved with the result.
Concludes(status) == plan' = status /\ LiveGoes(session, "done")
AccountStays == UNCHANGED <<lots, strays, made, surrendered>>

\* The symbol's positions and orders, both sides.
LiveAtRest == strays = {} /\ \A side \in Sides : lots[side] = 0

ClaimLive ==
    /\ session.at = "idle" /\ plan = "planned"
    /\ plan' = "executing" /\ LiveGoes(session, "preflight")
    /\ AccountStays /\ UNCHANGED verified

\* preflight: it may refuse for the market, the margin or the plan's age, too.
PreflightLive ==
    /\ session.at = "preflight"
    /\ \/ LiveAtRest /\ LiveGoes(session, "round") /\ plan' = plan
       \/ plan' = "rejected" /\ LiveGoes(session, "raised")
    /\ AccountStays /\ UNCHANGED verified

\* The head of the loop and the start of a round, whose reads may raise.
RemainingQuote == VolumeTarget - verified
DesiredQuote   == IF RoundQuote < RemainingQuote THEN RoundQuote ELSE RemainingQuote
StartRound ==
    /\ session.at = "round"
    /\ IF verified >= VolumeTarget THEN LiveGoes(session, "acceptance") /\ plan' = plan
       ELSE IF session.completed >= MaxCompletedRounds THEN Concludes("stopped")
       ELSE \/ /\ session' = [session EXCEPT !.at = "opening", !.side = Opposite(@),
                                             !.quantity = QuantityFor(DesiredQuote), !.problem = "idle"]
               /\ plan' = plan
            \/ Concludes("stopped")                         \* position_limit_reached
            \/ LiveGoes(session, "raised") /\ plan' = plan
    /\ AccountStays /\ UNCHANGED verified

----------------------------------------------------------------------------
(* One leg and the accounting of its fills.                                  *)

\* What _execute_leg makes of a leg that filled f lots and ended clean, with
\* its order working ("exposed") or unknown: how it reads it, and what it
\* counts.  The position a failed leg reports may be older than its fills,
\* and the fill report may fail, be late or show takers.
ReadLeg(f, ended, taker) ==
    LET none(readings) == [reading : readings, counted : {0}]
        all(readings)  == IF taker THEN {} ELSE [reading : readings, counted : {f}] IN
    CASE ended = "unknown" -> none({"uncertain"}) \union all({"uncertain"})
      [] ended # "unknown" /\ f = 0 ->
            none(IF ended = "clean" THEN {"idle", "rejected"} ELSE {"idle"})
      [] OTHER -> none({"accounting", "idle"} \union (IF taker THEN {"taker"} ELSE {}))
                  \union all({"verified"} \union (IF ended = "clean" THEN {"rejected"} ELSE {}))

\* What the round keeps of a leg: the opening one's reading, and the first problem
\* of the closing ones.
Kept(reading) ==
    IF session.at = "opening" THEN [session EXCEPT !.at = "opened", !.leg = reading]
    ELSE [session EXCEPT !.at = "closed", !.last = reading,
             !.problem = IF @ = "idle" /\ reading \in {"accounting", "taker", "rejected"}
                         THEN reading ELSE @]

\* A leg of n lots that adds to the position or takes from it.
LiveLeg(n, direction) ==
    LET side == session.side IN
    \E f \in 0..n, ended \in {"clean", "exposed", "unknown"}, taker \in BOOLEAN :
        /\ taker => f > 0
        /\ n = 0 => ended = "clean"
        /\ lots' = [lots EXCEPT ![side] = IF direction = "grow" THEN @ + f ELSE @ - f]
        /\ made' = IF taker THEN made ELSE made + f
        /\ strays' \in IF ended = "clean" \/ f = n THEN {strays}
                       ELSE {strays, strays \union {<<side, direction>>}}
        /\ surrendered' = (surrendered \/ ended = "exposed")
        /\ \E result \in ReadLeg(f, ended, taker) :
              verified' = verified + result.counted /\ session' = Kept(result.reading)
    /\ plan' = plan

\* Without a starting position nothing is submitted.
NoLeg ==
    session' = Kept("uncertain") /\ AccountStays /\ UNCHANGED <<verified, plan>>

OpeningLeg ==
    LET held == lots[session.side]
        n    == IF held < session.quantity THEN session.quantity - held ELSE 0 IN
    /\ session.at = "opening"
    /\ LiveLeg(n, "grow") \/ NoLeg

\* The position after the opening leg, if it can be read.
ReadOpening ==
    /\ session.at = "opened"
    /\ IF session.leg = "uncertain" THEN Concludes("uncertain")
       ELSE LET opened == lots[session.side] > 0 IN
            \/ /\ session' = [session EXCEPT !.at = IF opened THEN "flatten" ELSE "classify",
                                             !.opened = opened, !.attempt = 1]
               /\ plan' = plan
            \/ Concludes("uncertain")
    /\ AccountStays /\ UNCHANGED verified

\* Before each closing leg: flat already, or no order may be active.
SeenFlat == lots[session.side] = 0
FlattenRound ==
    /\ session.at = "flatten"
    /\ \/ SeenFlat /\ LiveGoes(session, "classify") /\ plan' = plan
       \/ strays = {} /\ LiveGoes(session, "closing") /\ plan' = plan
       \/ Concludes("uncertain")
    /\ AccountStays /\ UNCHANGED verified

ClosingLeg ==
    /\ session.at = "closing"
    /\ LiveLeg(lots[session.side], "shrink") \/ NoLeg

\* What a closing leg leads to; a position that cannot be read is not flat.
AfterClosing ==
    /\ session.at = "closed"
    /\ \E flat \in {FALSE, SeenFlat} :
         IF session.last = "uncertain" THEN Concludes("uncertain")
         ELSE IF flat THEN LiveGoes(session, "classify") /\ plan' = plan
         ELSE IF session.last = "rejected" \/ session.attempt = RecoveryAttempts
              THEN Concludes("stopped")
         ELSE session' = [session EXCEPT !.at = "flatten", !.attempt = @ + 1] /\ plan' = plan
    /\ AccountStays /\ UNCHANGED verified

----------------------------------------------------------------------------
(* The outcome of a round that was not cut short.                            *)

\* The first closing leg with a problem decides before the opening leg does.
Worst == IF session.opened /\ session.problem # "idle" THEN session.problem ELSE session.leg
ClassifyRound ==
    /\ session.at = "classify"
    /\ CASE Worst = "accounting" -> Concludes("uncertain")
         [] Worst \in {"taker", "rejected"} -> Concludes("stopped")
         [] Worst \notin {"accounting", "taker", "rejected"} /\ session.opened ->
              /\ session' = [session EXCEPT !.at = "round", !.completed = @ + 1, !.empties = 0]
              /\ plan' = plan
         [] OTHER ->
              IF session.empties = MaxEmptyRounds THEN Concludes("stopped")
              ELSE session' = [session EXCEPT !.at = "round", !.empties = @ + 1] /\ plan' = plan
    /\ AccountStays /\ UNCHANGED verified

\* _final_acceptance: the account is looked at, never assumed.
AcceptLive == IF LiveAtRest THEN Concludes("completed") ELSE Concludes("uncertain")
FinalAcceptance ==
    /\ session.at = "acceptance"
    /\ AcceptLive \/ Concludes("uncertain")
    /\ AccountStays /\ UNCHANGED verified

\* The exchange fills an order that strays.
StrayFills ==
    /\ \E stray \in strays :
         LET side == stray[1] IN
         /\ stray[2] = "shrink" => lots[side] > 0
         /\ lots' = [lots EXCEPT ![side] = IF stray[2] = "grow" THEN @ + 1 ELSE @ - 1]
         /\ strays' = strays \ {stray}
    /\ made' = made + 1
    /\ UNCHANGED <<plan, session, verified, surrendered>>

\* The process dies between two steps; the plan's file keeps what it says.
LiveDies ==
    /\ session.at \notin {"idle", "done", "raised"} /\ LiveGoes(session, "raised")
    /\ UNCHANGED plan /\ AccountStays /\ UNCHANGED verified

SessionStep ==
    \/ PreflightLive \/ StartRound \/ OpeningLeg \/ ReadOpening \/ FlattenRound \/ ClosingLeg
    \/ AfterClosing \/ ClassifyRound \/ FinalAcceptance

LiveNext == ClaimLive \/ SessionStep \/ StrayFills \/ LiveDies

LiveSpec == LiveInit /\ [][LiveNext]_liveVars /\ WF_liveVars(SessionStep)

----------------------------------------------------------------------------
(* Properties.                                                               *)

\* A round opens at rest, with no position on either side and no order left,
\* whatever the legs before it did; but a leg that failed with its order
\* working (target_overfilled, taker_fill_detected, venue_did_not_accept_
\* post_only) and filled nothing is taken for an empty round.
RoundsOpenAtRest == session.at = "opening" => LiveAtRest \/ surrendered

\* What the plan's file says at the end is true: the verified volume was made
\* by Makers, completed means the target on an account at rest, and a plan
\* that is not saved as uncertain leaves no order behind that works, with the
\* same exception.
LiveVerdictIsTrue ==
    /\ verified <= made
    /\ plan = "completed" => LiveAtRest /\ verified >= VolumeTarget
    /\ plan = "stopped" => strays = {} \/ surrendered

\* A claimed plan ends: the rounds are bounded.
LiveRunEnds == session.at = "preflight" ~> session.at \in {"done", "raised"}
=============================================================================
