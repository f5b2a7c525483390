----------------------------- MODULE DemoVolume -----------------------------
(* The demo volume runners of the command line: MakerVolumeService of        *)
(* src/src/weex_cli/volume/maker, which rests one POST_ONLY order after the   *)
(* other and polls the history for it, and the services of                   *)
(* src/src/weex_cli/execution/adaptive_volume.py, which have their legs done  *)
(* by the adaptive engine: a batch, the soak that repeats it, a flatten.      *)
(*                                                                           *)
(* A hand may trade meanwhile, but not beside an adaptive leg, which is what  *)
(* MakerLane promises: a clean one leaves no order.                          *)
(* Volume is counted in lots, as made by long positions.                     *)
EXTENDS Integers

CONSTANTS DemoTarget,   \* plan.target_quote
          DemoFills,    \* plan.fills
          DemoRounds    \* MakerSoakPlan.rounds

ASSUME DemoVolumeAssumption ==
    /\ DemoTarget \in Nat \ {0} /\ DemoRounds \in Nat \ {0}
    /\ DemoFills \in Nat \ {0} /\ DemoFills % 2 = 0

VARIABLES runner,      \* which service runs
          demo,        \* its place, counters and result
          demoOrder,   \* the one order that may be on the exchange
          demoLots,    \* the position
          demoMade,    \* history: lots that filled for the batch at hand
          mislaid,     \* history: an order works though its submission failed
          handled      \* a hand has traded on the account

demoVars == <<runner, demo, demoOrder, demoLots, demoMade, mislaid, handled>>

NoDemoOrder == [side |-> "none", size |-> 0, done |-> 0, state |-> "canceled"]
NewOrder(side, size) == [side |-> side, size |-> size, done |-> 0, state |-> "new"]

DemoTypeOK ==
    /\ runner \in {"single", "adaptive", "flatten"}
    /\ demo \in [at : {"start", "submit", "wait", "leg", "final", "round", "done", "raised"},
                 sequence : 1..DemoFills + 1, round : 1..DemoRounds, quantity : Nat,
                 total : Nat, status : {"running", "completed", "stopped", "uncertain"}]
    /\ demoOrder \in [side : {"none", "buy", "sell"}, size : Nat, done : Nat,
                      state : {"new", "filled", "canceled"}]
    /\ demoLots \in Nat /\ demoMade \in Nat /\ mislaid \in BOOLEAN /\ handled \in BOOLEAN

\* The account may be in use when the service starts.
DemoInit ==
    /\ runner \in {"single", "adaptive", "flatten"}
    /\ demo = [at |-> "start", sequence |-> 1, round |-> 1, quantity |-> 0, total |-> 0,
               status |-> "running"]
    /\ demoOrder \in IF runner = "single" THEN {NoDemoOrder} ELSE {NoDemoOrder, NewOrder("buy", 1)}
    /\ demoLots \in {0, 1}
    /\ demoMade = 0 /\ mislaid = FALSE /\ handled = FALSE

DemoOrderWorks == demoOrder.state = "new"
Ends(status)   == demo' = [demo EXCEPT !.at = "done", !.status = status]
Raises         == demo' = [demo EXCEPT !.at = "raised"]
DemoGoes(place) == demo' = [demo EXCEPT !.at = place]
ExchangeStays  == UNCHANGED <<demoOrder, demoLots, demoMade, mislaid, handled, runner>>

Opens == demo.sequence % 2 = 1

\* What an opening of this sequence should trade: its share of what is left,
\* truncated to the exchange's precision with a buffer of one per cent.
DemoLeft   == IF demo.total < DemoTarget THEN DemoTarget - demo.total ELSE 0
EvenShare  == DemoTarget \div DemoFills
Share      == DemoLeft \div (DemoFills - demo.sequence + 1)
LargerShare == IF runner = "adaptive" /\ EvenShare > Share THEN EvenShare ELSE Share
Openings   == {LargerShare, LargerShare + 1} \ {0}

----------------------------------------------------------------------------
(* MakerVolumeService.                                                       *)

StartSingle ==
    /\ runner = "single" /\ demo.at = "start"
    /\ \/ demoLots = 0 /\ DemoGoes("submit")
       \/ demoLots > 0 /\ Ends("stopped")
       \/ Raises
    /\ ExchangeStays

\* pre_submit_state_error, on the position read just before
StateError == IF Opens THEN demoLots > 0 ELSE demoLots # demo.quantity

RefuseSubmit ==
    /\ demo.at = "submit"
    /\ \/ StateError /\ Ends("stopped")
       \/ Raises
    /\ ExchangeStays

\* submit_order: the order may be placed whatever its answer says.  A network
\* error is followed by the order's recovery from the history, a refusal in
\* the verification of an accepted order is taken for one of the submission.
SubmitSingle ==
    /\ demo.at = "submit" /\ ~StateError
    /\ \E size \in (IF Opens THEN Openings ELSE {demo.quantity}) :
         LET placed    == demoOrder' = NewOrder(IF Opens THEN "buy" ELSE "sell", size)
             submitted == [demo EXCEPT !.quantity = size]
             in(place, status) == demo' = [submitted EXCEPT !.at = place, !.status = status] IN
         \/ placed /\ in("wait", "running") /\ UNCHANGED mislaid       \* or recovered
         \/ placed /\ in("done", "uncertain") /\ UNCHANGED mislaid
         \/ placed /\ in("done", "stopped") /\ mislaid' = TRUE
         \/ demoOrder' = NoDemoOrder /\ in("done", "uncertain") /\ UNCHANGED mislaid
         \/ demoOrder' = NoDemoOrder /\ in("done", "stopped") /\ UNCHANGED mislaid
    /\ UNCHANGED <<demoLots, demoMade, handled, runner>>

\* filled_position_matches
PositionMatches == IF Opens THEN demoLots = demoOrder.done ELSE demoLots = 0

\* One answer of the history: the order is followed to its end, and a fill
\* counts once the position shows it, too.
RecordFill ==
    /\ demo.at = "wait" /\ demoOrder.state = "filled" /\ PositionMatches
    /\ demo' = [demo EXCEPT !.total = @ + demoOrder.done, !.sequence = @ + 1,
                            !.at = IF demo.sequence = DemoFills THEN "final" ELSE "submit"]
    /\ ExchangeStays

OrderCanceled ==
    /\ demo.at = "wait" /\ demoOrder.state = "canceled"
    /\ Ends(IF demoOrder.done = 0 THEN "stopped" ELSE "uncertain")
    /\ ExchangeStays

\* The deadline, unreadable histories, fills nobody can vouch for.
GiveUpWaiting == demo.at = "wait" /\ Ends("uncertain") /\ ExchangeStays

\* The last look of run.
Flat == demoLots = 0
FinishSingle ==
    /\ runner = "single" /\ demo.at = "final"
    /\ \/ Ends(IF demo.total >= DemoTarget /\ Flat THEN "completed" ELSE "stopped")
       \/ Raises
    /\ ExchangeStays

----------------------------------------------------------------------------
(* AdaptiveMakerVolumeService, DemoMakerSoakService, MakerFlattenService.    *)

StartBatch ==
    /\ runner = "adaptive" /\ demo.at = "start"
    /\ \/ Raises
       \/ (DemoOrderWorks \/ demoLots > 0) /\ Ends("stopped")
       \/ ~DemoOrderWorks /\ demoLots = 0 /\ DemoGoes("leg")
    /\ ExchangeStays

\* It may find another quantity than it was asked to close.
StartFlatten ==
    /\ runner = "flatten" /\ demo.at = "start"
    /\ \/ Raises
       \/ Ends("stopped")
       \/ ~DemoOrderWorks /\ demo' = [demo EXCEPT !.at = "leg", !.sequence = DemoFills]
    /\ ExchangeStays

\* execute_adaptive_maker_target of n lots, of which f fill: it completes, or
\* it ends early, and then the service does, with the leg's status.
AdaptiveLeg ==
    /\ demo.at = "leg"
    /\ \E n \in (IF Opens THEN Openings ELSE {demoLots}), left \in BOOLEAN : \E f \in 0..n :
         /\ demoLots' = IF Opens THEN demoLots + f ELSE demoLots - f
         /\ demoMade' = demoMade + f
         /\ left => f < n
         /\ demoOrder' = IF left THEN NewOrder(IF Opens THEN "buy" ELSE "sell", n - f) ELSE NoDemoOrder
         /\ \/ /\ f = n /\ ~left
               /\ demo' = [demo EXCEPT !.total = @ + f, !.sequence = @ + 1, !.quantity = n,
                               !.at = IF demo.sequence = DemoFills THEN "final" ELSE "leg"]
            \/ \E status \in {"uncertain", "stopped"} :
                  demo' = [demo EXCEPT !.at = "done", !.quantity = n, !.status = status]
         /\ mislaid' = (left /\ demo'.status = "stopped")
    /\ UNCHANGED <<handled, runner>>

RefuseLeg == demo.at = "leg" /\ Opens /\ Ends("stopped") /\ ExchangeStays

\* The last look at the account.
Accepted == Flat /\ ~DemoOrderWorks
\* The status of a leg that completed stays, whatever the last look shows.
FinishFlatten ==
    /\ runner = "flatten" /\ demo.at = "final"
    /\ Raises \/ Ends("completed")
    /\ ExchangeStays

FinishBatch ==
    /\ runner = "adaptive" /\ demo.at = "final"
    /\ \/ Raises
       \/ (~Accepted \/ demo.total < DemoTarget) /\ Ends("stopped")
       \/ Accepted /\ demo.total >= DemoTarget /\ DemoGoes("round")
    /\ ExchangeStays

\* A soak runs batches until one does not complete.
NextRound ==
    /\ demo.at = "round"
    /\ IF demo.round < DemoRounds
       THEN /\ demo' = [demo EXCEPT !.at = "start", !.sequence = 1, !.total = 0, !.round = @ + 1]
            /\ demoMade' = 0
       ELSE Ends("completed") /\ UNCHANGED demoMade
    /\ UNCHANGED <<demoOrder, demoLots, mislaid, handled, runner>>

----------------------------------------------------------------------------
\* The exchange fills the working order lot by lot or cancels it.
DemoExchange ==
    /\ DemoOrderWorks
    /\ \/ demoOrder' = [demoOrder EXCEPT !.state = "canceled"] /\ UNCHANGED <<demoLots, demoMade>>
       \/ /\ demoOrder.side = "sell" => demoLots > 0
          /\ demoOrder' = [demoOrder EXCEPT !.done = @ + 1,
                               !.state = IF @ = "new" /\ demoOrder.done + 1 = demoOrder.size
                                         THEN "filled" ELSE "new"]
          /\ demoLots' = IF demoOrder.side = "buy" THEN demoLots + 1 ELSE demoLots - 1
          /\ demoMade' = demoMade + 1
    /\ UNCHANGED <<runner, demo, mislaid, handled>>

\* Somebody trades a lot of the account by hand, though not beside a leg.
HandTrades ==
    /\ runner = "single" \/ demo.at = "final"
    /\ ~handled /\ demo.status = "running" /\ handled' = TRUE
    /\ demoLots' \in {demoLots + 1, demoLots - 1} \cap Nat
    /\ UNCHANGED <<runner, demo, demoOrder, demoMade, mislaid>>

DemoStep == \/ StartSingle \/ RefuseSubmit \/ SubmitSingle \/ RecordFill \/ OrderCanceled
            \/ GiveUpWaiting \/ FinishSingle
            \/ StartBatch \/ StartFlatten \/ AdaptiveLeg \/ RefuseLeg
            \/ FinishBatch \/ FinishFlatten \/ NextRound

DemoNext == DemoStep \/ DemoExchange \/ HandTrades

\* Every wait has a deadline, and the process is not suspended.
DemoSpec == DemoInit /\ [][DemoNext]_demoVars /\ WF_demoVars(DemoStep)

----------------------------------------------------------------------------
(* Properties.                                                               *)

\* The result is true.  A completed batch made its target and ends flat, and so
\* does every round of a soak; a flatten ends flat, unless a hand traded after
\* its leg; a stopped run leaves no order at work, but where the exchange refused
\* to show an order it had accepted (service.py:47-55 recovers from network
\* errors only) or the leg failed.
DemoVerdictIsTrue ==
    /\ demo.status = "completed" =>
         /\ demoLots = 0 \/ (runner = "flatten" /\ handled)
         /\ runner # "flatten" => demo.total >= DemoTarget /\ demoMade >= demo.total
         /\ runner # "single" => ~DemoOrderWorks
    /\ demo.status = "stopped" /\ demo.quantity > 0 => ~DemoOrderWorks \/ mislaid

\* A batch, a soak, a flatten ends.
DemoRunEnds == demo.at # "start" ~> demo.at \in {"done", "raised"}
=============================================================================
