--------------------------- MODULE MakerLegProofs ---------------------------
(***************************************************************************)
(* What TLAPS proves of MakerLeg, for every target, every number of orders *)
(* and every limit, on every kind of venue.                                *)
(***************************************************************************)
EXTENDS MakerLeg, TLAPS

(***************************************************************************)
(* Type correctness                                                        *)
(***************************************************************************)
\* Reads return lots.
LEMMA ViewsTyped ==
    ASSUME TypeOK, NEW o \in Orders, NEW view \in OrderViews(o)
    PROVE  view.filled \in Nat
    BY DEF TypeOK, ExchangeTypeOK, CountersTypeOK, OrderViews

LEMMA PositionsTyped ==
    ASSUME TypeOK, NEW p \in PositionReads
    PROVE  p \in Nat
    BY DEF TypeOK, ExchangeTypeOK, PositionReads

LEMMA NewFillTyped ==
    ASSUME TypeOK, NEW view, view.filled \in Nat
    PROVE  counted + NewFill(view) \in Nat
    BY DEF TypeOK, CountersTypeOK, NewFill

\* The control operators lead to a label, a purpose and a result of their
\* types.
LEMMA PurposesNamed ==
    /\ ObservationFailures \subseteq Purposes
    /\ ObservationFailures \subseteq Reasons
    /\ {"requote", "stop", "deadline"} \subseteq Purposes
    /\ "position_observation_unavailable" \in ObservationFailures
    /\ "order_observation_unavailable" \in ObservationFailures
    /\ "market_observation_unavailable" \in ObservationFailures
    BY DEF Purposes, ObservationFailures, Reasons

LEMMA FinishFlow ==
    ASSUME FlowTypeOK, NEW outcome \in Outcomes, NEW why \in Reasons, NEW at \in Nat,
           Finish(outcome, why, at), UNCHANGED cancelling
    PROVE  FlowTypeOK'
    BY DEF FlowTypeOK, CancellingTypeOK, cancelling, Finish, Labels

LEMMA FinishHereFlow ==
    ASSUME TypeOK, NEW outcome \in Outcomes, NEW why \in Reasons,
           FinishHere(outcome, why), UNCHANGED cancelling
    PROVE  FlowTypeOK'
    BY FinishFlow DEF FinishHere, TypeOK, CountersTypeOK

LEMMA GotoFlow ==
    ASSUME FlowTypeOK, NEW label \in Labels, Goto(label)
    PROVE  FlowTypeOK'
    BY DEF FlowTypeOK, CancellingTypeOK, cancelling, Goto

LEMMA StartCancelFlow ==
    ASSUME FlowTypeOK, NEW why \in Purposes, StartCancel(why)
    PROVE  FlowTypeOK'
    BY DEF FlowTypeOK, CancellingTypeOK, StartCancel, NoPosition, Labels

LEMMA EndWithFlow ==
    ASSUME FlowTypeOK, NEW why \in Purposes, EndWith(why)
    PROVE  FlowTypeOK'
    BY DEF FlowTypeOK, CancellingTypeOK, EndWith, Labels

LEMMA StopForRequestFlow ==
    ASSUME FlowTypeOK, StopForRequest
    PROVE  FlowTypeOK'
    BY StartCancelFlow, EndWithFlow, PurposesNamed DEF StopForRequest

LEMMA FinishDeadlineFlow ==
    ASSUME FlowTypeOK, FinishDeadline
    PROVE  FlowTypeOK'
<1>1. CASE BulkCleanup
    BY <1>1 DEF FinishDeadline, FlowTypeOK, CancellingTypeOK, cancelling, Labels
<1>2. CASE ~BulkCleanup
    BY <1>2, StartCancelFlow, EndWithFlow, PurposesNamed DEF FinishDeadline
<1> QED BY <1>1, <1>2

LEMMA ObservationFailureFlow ==
    ASSUME TypeOK, NEW why \in ObservationFailures, StopAfterObservationFailure(why)
    PROVE  FlowTypeOK'
<1>1. why \in Purposes /\ why \in Reasons /\ FlowTypeOK /\ "uncertain" \in Outcomes
    BY PurposesNamed DEF TypeOK, Outcomes
<1> QED BY <1>1, FinishHereFlow, StartCancelFlow DEF StopAfterObservationFailure

LEMMA InitTyped == Init => TypeOK
<1> SUFFICES ASSUME Init PROVE TypeOK
    OBVIOUS
<1> USE LegAssumption DEF Init
<1>1. ExchangeTypeOK
    BY DEF ExchangeTypeOK
<1>2. expired \in BOOLEAN /\ stopping \in BOOLEAN
    OBVIOUS
<1>7. active \in Orders \cup {None} /\ sent \in 0..MaxOrders
    OBVIOUS
<1>5. lastRead \in Nat
    OBVIOUS
<1>6. CountersTypeOK
    BY <1>5 DEF CountersTypeOK
<1>3. CancellingTypeOK
    BY DEF CancellingTypeOK, NoPosition, Purposes
<1>4. pc \in Labels /\ result \in [status : Outcomes, reason : Reasons, position : Nat]
    BY DEF NoResult, Labels, Outcomes, Reasons
<1> QED BY <1>1, <1>2, <1>3, <1>4, <1>6, <1>7 DEF TypeOK, ControlTypeOK, FlowTypeOK

\* What happens to an order that is being verified keeps the types.
LEMMA VerifiedTyped ==
    ASSUME TypeOK, NEW view, view.filled \in Nat, NEW maker, Verified(view, maker)
    PROVE  /\ pc' \in Labels
           /\ result' \in [status : Outcomes, reason : Reasons, position : Nat]
           /\ active' \in Orders \cup {None}
           /\ seen' \in Nat /\ counted' \in Nat /\ requotes' \in Nat
<1> USE DEF TypeOK
<1>1. counted' \in Nat
    BY NewFillTyped DEF Verified
<1>2. active' \in Orders \cup {None} /\ seen' \in Nat /\ requotes' \in Nat
    BY DEF Verified, AfterVerified, ControlTypeOK, CountersTypeOK
<1>3. pc' \in Labels
    BY DEF Verified, AfterVerified, FinishHere, Finish, Labels
<1>4. result' \in [status : Outcomes, reason : Reasons, position : Nat]
    BY DEF Verified, AfterVerified, FinishHere, Finish, CountersTypeOK, FlowTypeOK,
           Outcomes, Reasons
<1> QED BY <1>1, <1>2, <1>3, <1>4

LEMMA NotVerifiedTyped ==
    ASSUME TypeOK, NEW gone \in BOOLEAN, NextVerify(gone) \/ NotReconciled
    PROVE  /\ pc' \in Labels
           /\ result' \in [status : Outcomes, reason : Reasons, position : Nat]
           /\ UNCHANGED <<active, tally, requotes>>
<1> USE DEF NextVerify, NotReconciled, VerifyExhausted, Unverified, FinishHere, Finish
<1>1. pc' \in Labels
    BY DEF Labels
<1>2. result' \in [status : Outcomes, reason : Reasons, position : Nat]
    BY DEF TypeOK, FlowTypeOK, CountersTypeOK, Outcomes, Reasons
<1>3. UNCHANGED <<active, tally, requotes>>
    OBVIOUS
<1> QED BY <1>1, <1>2, <1>3

\* Every step of the leg and of its environment keeps every variable in its
\* type.
LEMMA NextTyped == TypeOK /\ ActiveIsHeld /\ [Next]_vars => TypeOK'
<1> SUFFICES ASSUME TypeOK, ActiveIsHeld, [Next]_vars PROVE TypeOK'
    OBVIOUS
<1> USE LegAssumption
<1>h. pc \in Holding => active \in Orders
    BY DEF ActiveIsHeld, TypeOK, ControlTypeOK
<1>t. ExchangeTypeOK /\ ControlTypeOK /\ CountersTypeOK /\ FlowTypeOK
    BY DEF TypeOK
<1>e. UNCHANGED exchange => ExchangeTypeOK'
    BY <1>t DEF exchange, ExchangeTypeOK
<1>c. UNCHANGED <<signals, active, sent>> => ControlTypeOK'
    BY <1>t DEF signals, ControlTypeOK
<1>n. UNCHANGED <<plan, tally, limits, lastRead>> => CountersTypeOK'
    BY <1>t DEF plan, tally, limits, CountersTypeOK
<1>f. UNCHANGED <<pc, cancelling, result>> => FlowTypeOK'
    BY <1>t DEF cancelling, FlowTypeOK, CancellingTypeOK
<1>g. UNCHANGED engine => CountersTypeOK' /\ FlowTypeOK'
    BY <1>n, <1>f DEF engine
<1>q. ExchangeTypeOK' /\ ControlTypeOK' /\ CountersTypeOK' /\ FlowTypeOK' => TypeOK'
    BY DEF TypeOK
<1>1. CASE Start
  <2>1. CountersTypeOK'
    BY <1>1, <1>t, PositionsTyped DEF Start, CountersTypeOK, plan, tally, limits
  <2>2. CASE \E p \in PositionReads : lastRead' = p /\ Goto("loop")
    BY <2>2, <1>t, GotoFlow, <2>1, <1>1, <1>e, <1>c, <1>q DEF Start, Labels
  <2>3. CASE Finish("raised", "position_observation_unavailable", lastRead)
             /\ UNCHANGED <<cancelling, lastRead>>
    <3>1. FlowTypeOK'
      BY <2>3, <1>t, FinishFlow DEF CountersTypeOK, Outcomes, Reasons, ObservationFailures
    <3> QED BY <3>1, <2>1, <1>1, <1>e, <1>c, <1>q DEF Start
  <2> QED BY <2>2, <2>3, <1>1 DEF Start
<1>2. CASE Loop
  <2>1. ExchangeTypeOK' /\ ControlTypeOK'
    BY <1>2, <1>e, <1>c DEF Loop
  <2>2. CountersTypeOK'
    BY <1>2, <1>t, PositionsTyped DEF Loop, LoopHead, Distance, CountersTypeOK, tally, limits
  <2>3. ASSUME NEW p \in PositionReads, LoopHead(p) PROVE FlowTypeOK'
    <3>1. p \in Nat
      BY PositionsTyped
    <3>2. CASE Finish("failed", "target_overfilled", p) /\ UNCHANGED cancelling
      BY <3>1, <3>2, <1>t, FinishFlow DEF Outcomes, Reasons
    <3>3. CASE Finish("completed", "target_reached", p) /\ UNCHANGED cancelling
      BY <3>1, <3>3, <1>t, FinishFlow DEF Outcomes, Reasons
    <3>4. CASE Goto("advance") \/ Goto("slot")
      BY <3>4, <1>t, GotoFlow DEF Labels
    <3> QED BY <2>3, <3>2, <3>3, <3>4 DEF LoopHead
  <2>4. FlowTypeOK'
    BY <1>2, <1>t, <2>3, FinishDeadlineFlow, StopForRequestFlow, ObservationFailureFlow,
       PurposesNamed DEF Loop
  <2> QED BY <2>1, <2>2, <2>4, <1>q
<1>3. CASE Advance
  <2>1. ExchangeTypeOK'
    BY <1>3, <1>e DEF Advance
  <2>2. CASE ShouldStop /\ StopForRequest /\ UNCHANGED <<active, tally, errors>>
    BY <2>1, <2>2, <1>3, <1>t, <1>c, <1>n, <1>q, StopForRequestFlow DEF Advance, limits
  <2>3. CASE RetryObservation
    <3>1. FlowTypeOK'
      BY <2>3, <1>t, ObservationFailureFlow, GotoFlow, PurposesNamed DEF RetryObservation, Labels
    <3>2. CountersTypeOK'
      BY <2>3, <1>3, <1>t DEF Advance, RetryObservation, CountersTypeOK, plan, tally
    <3> QED BY <2>1, <2>3, <3>1, <3>2, <1>3, <1>c, <1>q DEF Advance, RetryObservation
  <2>4. ASSUME NEW view \in OrderViews(active), NEW maker \in BOOLEAN,
               Observed(view, maker)
        PROVE  TypeOK'
    <3>1. view.filled \in Nat
      BY <1>3, <1>h, ViewsTyped DEF Advance, Holding
    <3>2. CountersTypeOK'
      <4>1. counted' \in Nat
        BY <3>1, <2>4, NewFillTyped DEF Observed
      <4>2. seen' \in Nat /\ errors' \in Nat
        BY <3>1, <2>4, <1>t DEF Observed, CountersTypeOK
      <4> QED BY <4>1, <4>2, <1>3, <1>t DEF Advance, CountersTypeOK, plan
    <3>3. ControlTypeOK'
      BY <2>4, <1>3, <1>t DEF Observed, Advance, ControlTypeOK, signals
    <3>4. FlowTypeOK'
      <4>1. CASE FinishHere("failed", "taker_fill_detected") /\ UNCHANGED cancelling
        BY <4>1, FinishHereFlow DEF Outcomes, Reasons
      <4>2. CASE FinishHere("failed", "post_only_rejected") /\ UNCHANGED cancelling
        BY <4>2, FinishHereFlow DEF Outcomes, Reasons
      <4>3. CASE Goto("loop") \/ Goto("market")
        BY <4>3, <1>t, GotoFlow DEF Labels
      <4> QED BY <4>1, <4>2, <4>3, <2>4 DEF Observed
    <3> QED BY <2>1, <3>2, <3>3, <3>4, <1>q
  <2> QED BY <2>2, <2>3, <2>4, <1>3 DEF Advance
<1>4. CASE Market
  <2>1. FlowTypeOK'
    BY <1>4, <1>t, ObservationFailureFlow, GotoFlow, StartCancelFlow, PurposesNamed
    DEF Market, Labels
  <2> QED BY <2>1, <1>4, <1>e, <1>c, <1>n, <1>q DEF Market
<1>5. CASE Slot
  <2>1. FlowTypeOK'
    <3>1. ASSUME NEW why \in {"policy_did_not_quote", "policy_would_take_liquidity"},
                 FinishHere("failed", why), UNCHANGED cancelling
          PROVE  FlowTypeOK'
      BY <3>1, FinishHereFlow DEF Outcomes, Reasons
    <3>2. ASSUME NEW q \in ChildQuantities, Goto("submit") PROVE FlowTypeOK'
      BY <3>2, <1>t, GotoFlow DEF Labels
    <3> QED BY <1>5, <1>t, <3>1, <3>2, StopForRequestFlow, FinishDeadlineFlow,
            ObservationFailureFlow, PurposesNamed DEF Slot
  <2>2. CountersTypeOK'
    BY <1>5, <1>t DEF Slot, ChildQuantities, CountersTypeOK, tally, limits
  <2> QED BY <2>1, <2>2, <1>5, <1>e, <1>c, <1>q DEF Slot
<1>6. CASE NotSubmitted
  <2>1. CountersTypeOK'
    BY <1>6, <1>t DEF NotSubmitted, CountersTypeOK, plan, tally
  <2>2. FlowTypeOK'
    BY <1>6, <1>t, FinishHereFlow, GotoFlow DEF NotSubmitted, Labels, Outcomes, Reasons
  <2> QED BY <2>1, <2>2, <1>6, <1>e, <1>c, <1>q DEF NotSubmitted
<1>7. CASE LocalFailure
  <2>1. FlowTypeOK'
    BY <1>7, FinishHereFlow DEF LocalFailure, Outcomes, Reasons
  <2> QED BY <2>1, <1>7, <1>e, <1>c, <1>n, <1>q DEF LocalFailure
<1>8. CASE Send
  <2>1. ExchangeTypeOK'
    BY <1>8, <1>t DEF Send, ExchangeTypeOK, CountersTypeOK
  <2>2. sent' \in 0..MaxOrders
    BY <1>8, <1>t DEF Send, ControlTypeOK
  <2>3. ControlTypeOK'
    BY <2>2, <1>8, <1>t DEF Send, ControlTypeOK, signals
  <2>4. CountersTypeOK'
    BY <1>8, <1>t DEF Send, CountersTypeOK, plan, tally, limits
  <2>5. FlowTypeOK'
    BY <1>8, <1>t, GotoFlow DEF Send, Labels
  <2> QED BY <2>1, <2>3, <2>4, <2>5, <1>q
<1>9. CASE Submitted
  <2>1. FlowTypeOK'
    BY <1>9, <1>t, FinishHereFlow, GotoFlow DEF Submitted, Labels, Outcomes, Reasons
  <2>2. CountersTypeOK'
    BY <1>9, <1>t DEF Submitted, CountersTypeOK, plan, limits
  <2>3. active' \in Orders \cup {None}
    BY <1>9, <1>t DEF Submitted, ControlTypeOK, Orders, None
  <2>4. ControlTypeOK'
    BY <2>3, <1>9, <1>t DEF Submitted, ControlTypeOK, signals
  <2> QED BY <2>1, <2>2, <2>4, <1>9, <1>e, <1>q DEF Submitted
<1>10. CASE SubmissionUncertain
  <2>1. FlowTypeOK'
    BY <1>10, FinishHereFlow DEF SubmissionUncertain, Outcomes, Reasons
  <2> QED BY <2>1, <1>10, <1>e, <1>c, <1>n, <1>q DEF SubmissionUncertain
<1>11. CASE CancelPosition
  <2>1. before' \in [known : BOOLEAN, at : Nat]
    <3>1. \A p \in Nat : [known |-> TRUE, at |-> p] \in [known : BOOLEAN, at : Nat]
      OBVIOUS
    <3>2. NoPosition \in [known : BOOLEAN, at : Nat]
      BY DEF NoPosition
    <3> QED BY <1>11, <3>1, <3>2, PositionsTyped DEF CancelPosition
  <2>2. FlowTypeOK'
    BY <2>1, <1>11, <1>t DEF CancelPosition, FlowTypeOK, CancellingTypeOK, Labels
  <2> QED BY <2>2, <1>11, <1>e, <1>c, <1>n, <1>q DEF CancelPosition
<1>12. CASE CancelRequest
  <2>1. ExchangeTypeOK'
    BY <1>12, <1>t, <1>h DEF CancelRequest, Holding, ExchangeTypeOK, market
  <2>2. FlowTypeOK'
    BY <1>12, <1>t DEF CancelRequest, FlowTypeOK, CancellingTypeOK, cancelling, Labels
  <2> QED BY <2>1, <2>2, <1>12, <1>c, <1>n, <1>q DEF CancelRequest
<1>13. CASE CancelResponse
  <2>1. FlowTypeOK'
    BY <1>13, <1>t DEF CancelResponse, FlowTypeOK, CancellingTypeOK, Labels
  <2> QED BY <2>1, <1>13, <1>e, <1>c, <1>n, <1>q DEF CancelResponse
<1>14. CASE CancelVerify
  <2> DEFINE Typed ==
        /\ pc' \in Labels
        /\ result' \in [status : Outcomes, reason : Reasons, position : Nat]
        /\ active' \in Orders \cup {None}
        /\ seen' \in Nat /\ counted' \in Nat /\ requotes' \in Nat
        /\ absent' \in BOOLEAN
  <2>1. Typed
    <3>1. ASSUME NEW view \in OrderViews(active) PROVE view.filled \in Nat
      BY <3>1, <1>14, <1>h, ViewsTyped DEF CancelVerify, Holding
    <3>2. /\ active \in Orders \cup {None}
          /\ seen \in Nat /\ counted \in Nat /\ requotes \in Nat
          /\ absent \in BOOLEAN
          /\ result \in [status : Outcomes, reason : Reasons, position : Nat]
      BY <1>t DEF ControlTypeOK, CountersTypeOK, FlowTypeOK, CancellingTypeOK
    <3>3. CASE NextVerify(absent) /\ UNCHANGED absent
      BY <3>2, <3>3, NotVerifiedTyped DEF tally
    <3>4. ASSUME NEW view \in OrderViews(active), NEW maker \in BOOLEAN, NEW gone \in BOOLEAN,
                 absent' = gone, Verified(view, maker)
          PROVE  Typed
      BY <3>1, <3>4, VerifiedTyped
    <3>5. ASSUME NEW gone \in BOOLEAN, absent' = gone, pc' = "reconcile",
                 UNCHANGED <<active, tally, requotes, result>>
          PROVE  Typed
      BY <3>2, <3>5 DEF Labels, tally
    <3>6. ASSUME NEW gone \in BOOLEAN, absent' = gone, NextVerify(gone)
          PROVE  Typed
      BY <3>2, <3>6, NotVerifiedTyped DEF tally
    <3> QED BY <1>14, <3>3, <3>4, <3>5, <3>6 DEF CancelVerify
  <2>2. ControlTypeOK'
    BY <2>1, <1>14, <1>t DEF CancelVerify, ControlTypeOK, signals
  <2>3. CountersTypeOK'
    BY <2>1, <1>14, <1>t DEF CancelVerify, CountersTypeOK, plan
  <2>4. FlowTypeOK'
    BY <2>1, <1>14, <1>t DEF CancelVerify, FlowTypeOK, CancellingTypeOK
  <2> QED BY <2>2, <2>3, <2>4, <1>14, <1>e, <1>q DEF CancelVerify
<1>15. CASE Reconcile
  <2> DEFINE Typed ==
        /\ pc' \in Labels
        /\ result' \in [status : Outcomes, reason : Reasons, position : Nat]
        /\ active' \in Orders \cup {None}
        /\ seen' \in Nat /\ counted' \in Nat /\ requotes' \in Nat
  <2>1. Typed
    <3>1. ASSUME Verified([status |-> "canceled", filled |-> seen], TRUE) PROVE Typed
      <4>1. [status |-> "canceled", filled |-> seen].filled \in Nat
        BY <1>t DEF CountersTypeOK
      <4> QED BY <3>1, <4>1, VerifiedTyped
    <3>2. ASSUME NotReconciled PROVE Typed
      BY <3>2, <1>t, NotVerifiedTyped DEF tally, ControlTypeOK, CountersTypeOK
    <3> QED BY <1>15, <3>1, <3>2 DEF Reconcile
  <2>2. lastRead' \in Nat
    BY <1>15, <1>t, PositionsTyped DEF Reconcile, CountersTypeOK
  <2>3. ControlTypeOK'
    BY <2>1, <1>15, <1>t DEF Reconcile, ControlTypeOK, signals
  <2>4. CountersTypeOK'
    BY <2>1, <2>2, <1>15, <1>t DEF Reconcile, CountersTypeOK, plan
  <2>5. FlowTypeOK'
    BY <2>1, <1>15, <1>t DEF Reconcile, FlowTypeOK, CancellingTypeOK, cancelling
  <2> QED BY <2>3, <2>4, <2>5, <1>15, <1>e, <1>q DEF Reconcile
<1>16. CASE BulkCancel
  <2>1. ExchangeTypeOK'
    BY <1>16, <1>t DEF BulkCancel, ExchangeTypeOK, market
  <2>2. FlowTypeOK'
    BY <1>16, <1>t DEF BulkCancel, FlowTypeOK, CancellingTypeOK, cancelling, Labels
  <2> QED BY <2>1, <2>2, <1>16, <1>c, <1>n, <1>q DEF BulkCancel
<1>17. CASE BulkVerify
  <2>1. FlowTypeOK'
    BY <1>17, <1>t, FinishHereFlow, EndWithFlow, GotoFlow, PurposesNamed
    DEF BulkVerify, Labels, Outcomes, Reasons
  <2> QED BY <2>1, <1>17, <1>e, <1>c, <1>n, <1>q DEF BulkVerify
<1>18. CASE DeadlineFetch
  <2>1. FlowTypeOK'
    BY <1>18, <1>t, FinishHereFlow, EndWithFlow, PurposesNamed
    DEF DeadlineFetch, Outcomes, Reasons
  <2>2. ControlTypeOK'
    BY <1>18, <1>t DEF DeadlineFetch, ControlTypeOK, signals
  <2>3. seen' \in Nat /\ counted' \in Nat
    BY <1>18, <1>t, <1>h, ViewsTyped, NewFillTyped DEF DeadlineFetch, Holding, CountersTypeOK, tally
  <2>4. CountersTypeOK'
    BY <2>3, <1>18, <1>t DEF DeadlineFetch, CountersTypeOK, plan, limits
  <2> QED BY <2>1, <2>2, <2>4, <1>18, <1>e, <1>q DEF DeadlineFetch
<1>19. CASE Final
  <2>1. CountersTypeOK'
    BY <1>19, <1>t, PositionsTyped DEF Final, CountersTypeOK, plan, tally, limits
  <2>2. FlowTypeOK'
    <3>1. lastRead \in Nat /\ \A p \in PositionReads : p \in Nat
      BY <1>t, PositionsTyped DEF CountersTypeOK
    <3>2. \A why \in ObservationFailures : why \in Reasons
      BY PurposesNamed
    <3>3. ASSUME NEW p \in Nat, NEW outcome \in {"stopped", "completed", "failed", "uncertain"},
                 NEW why \in Reasons, Finish(outcome, why, p)
          PROVE  FlowTypeOK'
      BY <1>19, <1>t, <3>3, FinishFlow DEF Final, Outcomes
    <3>4. {"stop_requested", "target_reached", "deadline_exceeded",
           "stop_position_observation_unavailable", "position_observation_unavailable"}
          \subseteq Reasons
      BY DEF Reasons, ObservationFailures
    <3>5. \E p \in Nat, outcome \in {"stopped", "completed", "failed", "uncertain"}, why \in Reasons :
             Finish(outcome, why, p)
      BY <1>19, <3>1, <3>2, <3>4, Zenon DEF Final, FinishHere
    <3> QED BY <3>3, <3>5
  <2> QED BY <2>1, <2>2, <1>19, <1>e, <1>c, <1>q DEF Final
<1>20. CASE UNCHANGED vars
  BY <1>20, <1>e, <1>c, <1>n, <1>f, <1>q DEF vars
<1>21. CASE Exchange
  <2>1. ExchangeTypeOK'
    BY <1>21, <1>t DEF Exchange, Accept, Reject, Fill, Cancel, ExchangeTypeOK, Terminal
  <2>2. UNCHANGED signals /\ UNCHANGED engine
    BY <1>21 DEF Exchange, Accept, Reject, Fill, Cancel
  <2> QED BY <2>1, <2>2, <1>g, <1>c, <1>q DEF engine
<1>22. CASE Deadline \/ RequestStop
  <2>1. ControlTypeOK'
    BY <1>22, <1>t DEF Deadline, RequestStop, ControlTypeOK, engine
  <2> QED BY <2>1, <1>22, <1>e, <1>g, <1>q DEF Deadline, RequestStop
<1> QED BY <1>1, <1>2, <1>3, <1>4, <1>5, <1>6, <1>7, <1>8, <1>9, <1>10, <1>11, <1>12,
        <1>13, <1>14, <1>15, <1>16, <1>17, <1>18, <1>19, <1>20, <1>21, <1>22
    DEF Next, Engine, Done

(***************************************************************************)
(* Orders never overlap and clean results are honest                       *)
(***************************************************************************)
\* Every step keeps the control part of the inductive invariant; one step
\* per action, since each of them can disturb it.
LEMMA ControlStep == LegInv /\ [Next]_vars => ControlInv'
<1> SUFFICES ASSUME LegInv, [Next]_vars PROVE ControlInv'
    OBVIOUS
<1>t. /\ active \in Orders \cup {None} /\ sent \in 0..MaxOrders
      /\ ActiveIsHeld /\ OnlyLastWorks /\ AbsenceIsTerminal /\ ResultEnds /\ CleanLeavesNothing
    BY DEF LegInv, TypeOK, ControlTypeOK, ControlInv
<1> USE DEF ActiveIsHeld, OnlyLastWorks, AbsenceIsTerminal, ResultEnds, CleanLeavesNothing,
            Clean, LeavesOrder, Holding, NotHolding, Working, Terminal, None
<1>1. CASE Start
  <2>1. ActiveIsHeld' /\ ResultEnds'
    BY <1>1, <1>t DEF Start, exchange, Goto, Finish, cancelling
  <2>2. OnlyLastWorks' /\ AbsenceIsTerminal'
    BY <1>1, <1>t DEF Start, exchange, Goto, Finish, cancelling
  <2>3. CleanLeavesNothing'
    BY <1>1, <1>t DEF Start, exchange, Goto, Finish, cancelling
  <2> QED BY <2>1, <2>2, <2>3 DEF ControlInv
<1>2. CASE Loop
  <2>1. ActiveIsHeld' /\ ResultEnds'
    BY <1>2, <1>t
    DEF Loop, LoopHead, FinishDeadline, StopForRequest, StopAfterObservationFailure,
        StartCancel, EndWith, Goto, Finish, FinishHere, exchange, cancelling
  <2>2. OnlyLastWorks' /\ AbsenceIsTerminal'
    BY <1>2, <1>t
    DEF Loop, LoopHead, FinishDeadline, StopForRequest, StopAfterObservationFailure,
        StartCancel, EndWith, Goto, Finish, FinishHere, exchange, cancelling
  <2>3. CleanLeavesNothing'
    BY <1>2, <1>t
    DEF Loop, LoopHead, FinishDeadline, StopForRequest, StopAfterObservationFailure,
        StartCancel, EndWith, Goto, Finish, FinishHere, exchange, cancelling
  <2> QED BY <2>1, <2>2, <2>3 DEF ControlInv
<1>3. CASE Advance
  <2>1. ActiveIsHeld' /\ ResultEnds'
    BY <1>3, <1>t
    DEF Advance, RetryObservation, Observed, OrderViews, StopForRequest,
        StopAfterObservationFailure, StartCancel, EndWith, Goto, Finish, FinishHere,
        exchange, cancelling
  <2>2. OnlyLastWorks' /\ AbsenceIsTerminal'
    BY <1>3, <1>t
    DEF Advance, RetryObservation, Observed, OrderViews, StopForRequest,
        StopAfterObservationFailure, StartCancel, EndWith, Goto, Finish, FinishHere,
        exchange, cancelling
  <2>3. CleanLeavesNothing'
    BY <1>3, <1>t
    DEF Advance, RetryObservation, Observed, OrderViews, StopForRequest,
        StopAfterObservationFailure, StartCancel, EndWith, Goto, Finish, FinishHere,
        exchange, cancelling
  <2> QED BY <2>1, <2>2, <2>3 DEF ControlInv
<1>4. CASE Market
  <2>1. ActiveIsHeld' /\ ResultEnds'
    BY <1>4, <1>t
    DEF Market, StopAfterObservationFailure, StartCancel, Goto, Finish, FinishHere,
        exchange, cancelling
  <2>2. OnlyLastWorks' /\ AbsenceIsTerminal'
    BY <1>4, <1>t
    DEF Market, StopAfterObservationFailure, StartCancel, Goto, Finish, FinishHere,
        exchange, cancelling
  <2>3. CleanLeavesNothing'
    BY <1>4, <1>t
    DEF Market, StopAfterObservationFailure, StartCancel, Goto, Finish, FinishHere,
        exchange, cancelling
  <2> QED BY <2>1, <2>2, <2>3 DEF ControlInv
<1>5. CASE Slot
  <2>1. ActiveIsHeld' /\ ResultEnds'
    BY <1>5, <1>t
    DEF Slot, FinishDeadline, StopForRequest, StopAfterObservationFailure, StartCancel,
        EndWith, Goto, Finish, FinishHere, exchange, cancelling
  <2>2. OnlyLastWorks' /\ AbsenceIsTerminal'
    BY <1>5, <1>t
    DEF Slot, FinishDeadline, StopForRequest, StopAfterObservationFailure, StartCancel,
        EndWith, Goto, Finish, FinishHere, exchange, cancelling
  <2>3. CleanLeavesNothing'
    BY <1>5, <1>t
    DEF Slot, FinishDeadline, StopForRequest, StopAfterObservationFailure, StartCancel,
        EndWith, Goto, Finish, FinishHere, exchange, cancelling
  <2> QED BY <2>1, <2>2, <2>3 DEF ControlInv
<1>6. CASE NotSubmitted
  <2>1. ActiveIsHeld' /\ ResultEnds'
    BY <1>6, <1>t DEF NotSubmitted, Goto, Finish, FinishHere, exchange, cancelling
  <2>2. OnlyLastWorks' /\ AbsenceIsTerminal'
    BY <1>6, <1>t DEF NotSubmitted, Goto, Finish, FinishHere, exchange, cancelling
  <2>3. CleanLeavesNothing'
    BY <1>6, <1>t DEF NotSubmitted, Goto, Finish, FinishHere, exchange, cancelling
  <2> QED BY <2>1, <2>2, <2>3 DEF ControlInv
<1>7. CASE LocalFailure
  <2>1. ActiveIsHeld' /\ ResultEnds'
    BY <1>7, <1>t DEF LocalFailure, Finish, FinishHere, exchange, cancelling
  <2>2. OnlyLastWorks' /\ AbsenceIsTerminal'
    BY <1>7, <1>t DEF LocalFailure, Finish, FinishHere, exchange, cancelling
  <2>3. CleanLeavesNothing'
    BY <1>7, <1>t DEF LocalFailure, Finish, FinishHere, exchange, cancelling
  <2> QED BY <2>1, <2>2, <2>3 DEF ControlInv
<1>8. CASE Send
  <2>1. ActiveIsHeld' /\ ResultEnds'
    BY <1>8, <1>t DEF Send, Goto, cancelling
  <2>2. OnlyLastWorks' /\ AbsenceIsTerminal'
    BY <1>8, <1>t DEF Send, Goto, cancelling
  <2>3. CleanLeavesNothing'
    BY <1>8, <1>t DEF Send, Goto, cancelling
  <2> QED BY <2>1, <2>2, <2>3 DEF ControlInv
<1>9. CASE Submitted
  <2>1. ActiveIsHeld' /\ ResultEnds'
    BY <1>9, <1>t DEF Orders, Submitted, Goto, Finish, FinishHere, exchange, cancelling
  <2>2. OnlyLastWorks' /\ AbsenceIsTerminal'
    BY <1>9, <1>t DEF Orders, Submitted, Goto, Finish, FinishHere, exchange, cancelling
  <2>3. CleanLeavesNothing'
    BY <1>9, <1>t DEF Orders, Submitted, Goto, Finish, FinishHere, exchange, cancelling
  <2> QED BY <2>1, <2>2, <2>3 DEF ControlInv
<1>10. CASE SubmissionUncertain
  <2>1. ActiveIsHeld' /\ ResultEnds'
    BY <1>10, <1>t DEF SubmissionUncertain, Finish, FinishHere, exchange, cancelling
  <2>2. OnlyLastWorks' /\ AbsenceIsTerminal'
    BY <1>10, <1>t DEF SubmissionUncertain, Finish, FinishHere, exchange, cancelling
  <2>3. CleanLeavesNothing'
    BY <1>10, <1>t DEF SubmissionUncertain, Finish, FinishHere, exchange, cancelling
  <2> QED BY <2>1, <2>2, <2>3 DEF ControlInv
<1>11. CASE CancelPosition
  <2>1. ActiveIsHeld' /\ ResultEnds'
    BY <1>11, <1>t DEF CancelPosition, exchange
  <2>2. OnlyLastWorks' /\ AbsenceIsTerminal'
    BY <1>11, <1>t DEF CancelPosition, exchange
  <2>3. CleanLeavesNothing'
    BY <1>11, <1>t DEF CancelPosition, exchange
  <2> QED BY <2>1, <2>2, <2>3 DEF ControlInv
<1>12. CASE CancelRequest
  <2>1. ActiveIsHeld' /\ ResultEnds'
    BY <1>12, <1>t DEF CancelRequest, market, cancelling
  <2>2. OnlyLastWorks' /\ AbsenceIsTerminal'
    BY <1>12, <1>t DEF CancelRequest, market, cancelling
  <2>3. CleanLeavesNothing'
    BY <1>12, <1>t DEF CancelRequest, market, cancelling
  <2> QED BY <2>1, <2>2, <2>3 DEF ControlInv
<1>13. CASE CancelResponse
  <2>1. ActiveIsHeld' /\ ResultEnds'
    BY <1>13, <1>t DEF CancelResponse, exchange
  <2>2. OnlyLastWorks' /\ AbsenceIsTerminal'
    BY <1>13, <1>t DEF CancelResponse, exchange
  <2>3. CleanLeavesNothing'
    BY <1>13, <1>t DEF CancelResponse, exchange
  <2> QED BY <2>1, <2>2, <2>3 DEF ControlInv
<1>14. CASE CancelVerify
  <2>1. ActiveIsHeld' /\ ResultEnds'
    BY <1>14, <1>t
    DEF CancelVerify, NextVerify, VerifyExhausted, Unverified, Verified, AfterVerified,
        AbsenceProven, OrderViews, Finish, FinishHere, exchange, tally
  <2>2. OnlyLastWorks' /\ AbsenceIsTerminal'
    BY <1>14, <1>t
    DEF CancelVerify, NextVerify, VerifyExhausted, Unverified, Verified, AfterVerified,
        AbsenceProven, OrderViews, Finish, FinishHere, exchange, tally
  <2>3. CleanLeavesNothing'
    BY <1>14, <1>t
    DEF CancelVerify, NextVerify, VerifyExhausted, Unverified, Verified, AfterVerified,
        AbsenceProven, OrderViews, Finish, FinishHere, exchange, tally
  <2> QED BY <2>1, <2>2, <2>3 DEF ControlInv
<1>15. CASE Reconcile
  <2>1. ActiveIsHeld' /\ ResultEnds'
    <3>1. CASE Verified([status |-> "canceled", filled |-> seen], TRUE)
      <4>1. AfterVerified
        BY <3>1 DEF Verified, TakerFill
      <4> QED BY <4>1, <1>15, <1>t DEF Reconcile, AfterVerified, Finish, FinishHere
    <3>2. CASE NotReconciled
      BY <3>2, <1>15, <1>t
      DEF Reconcile, NotReconciled, VerifyExhausted, Unverified, Finish, FinishHere
    <3> QED BY <3>1, <3>2, <1>15 DEF Reconcile
  <2>2. OnlyLastWorks' /\ AbsenceIsTerminal'
    BY <1>15, <1>t
    DEF Reconcile, NotReconciled, VerifyExhausted, Unverified, Verified, AfterVerified,
        AbsenceProven, Finish, FinishHere, exchange, cancelling, tally
  <2>3. CleanLeavesNothing'
    BY <1>15, <1>t
    DEF Reconcile, NotReconciled, VerifyExhausted, Unverified, Verified, AfterVerified,
        AbsenceProven, Finish, FinishHere, exchange, cancelling, tally
  <2> QED BY <2>1, <2>2, <2>3 DEF ControlInv
<1>16. CASE BulkCancel
  <2>1. ActiveIsHeld' /\ ResultEnds'
    BY <1>16, <1>t DEF BulkCancel, market, cancelling
  <2>2. OnlyLastWorks' /\ AbsenceIsTerminal'
    BY <1>16, <1>t DEF BulkCancel, market, cancelling
  <2>3. CleanLeavesNothing'
    BY <1>16, <1>t DEF BulkCancel, market, cancelling
  <2> QED BY <2>1, <2>2, <2>3 DEF ControlInv
<1>17. CASE BulkVerify
  <2>1. ActiveIsHeld' /\ ResultEnds'
    BY <1>17, <1>t
    DEF BulkVerify, BooksEmpty, EndWith, Goto, Finish, FinishHere, exchange, cancelling
  <2>2. OnlyLastWorks' /\ AbsenceIsTerminal'
    BY <1>17, <1>t
    DEF BulkVerify, BooksEmpty, EndWith, Goto, Finish, FinishHere, exchange, cancelling
  <2>3. CleanLeavesNothing'
    BY <1>17, <1>t
    DEF BulkVerify, BooksEmpty, EndWith, Goto, Finish, FinishHere, exchange, cancelling
  <2> QED BY <2>1, <2>2, <2>3 DEF ControlInv
<1>18. CASE DeadlineFetch
  <2>1. ActiveIsHeld' /\ ResultEnds'
    BY <1>18, <1>t
    DEF DeadlineFetch, OrderViews, EndWith, Finish, FinishHere, exchange, cancelling, tally
  <2>2. OnlyLastWorks' /\ AbsenceIsTerminal'
    BY <1>18, <1>t
    DEF DeadlineFetch, OrderViews, EndWith, Finish, FinishHere, exchange, cancelling, tally
  <2>3. CleanLeavesNothing'
    BY <1>18, <1>t
    DEF DeadlineFetch, OrderViews, EndWith, Finish, FinishHere, exchange, cancelling, tally
  <2> QED BY <2>1, <2>2, <2>3 DEF ControlInv
<1>19. CASE Final
  <2>1. ActiveIsHeld' /\ ResultEnds'
    BY <1>19, <1>t DEF Final, Finish, FinishHere, exchange, cancelling
  <2>2. OnlyLastWorks' /\ AbsenceIsTerminal'
    BY <1>19, <1>t DEF Final, Finish, FinishHere, exchange, cancelling
  <2>3. CleanLeavesNothing'
    BY <1>19, <1>t DEF Final, Finish, FinishHere, exchange, cancelling
  <2> QED BY <2>1, <2>2, <2>3 DEF ControlInv
<1>20. CASE UNCHANGED vars
  BY <1>20, <1>t DEF vars, exchange, cancelling, ControlInv
<1>21. CASE Exchange
  <2>1. UNCHANGED engine /\ \A o \in Orders : Working(o)' => Working(o)
    BY <1>21 DEF LegInv, TypeOK, ExchangeTypeOK, Exchange, Accept, Reject, Fill, Cancel
  <2>2. \A o \in Orders : status[o] = "unsent" => status'[o] = "unsent"
    BY <1>21 DEF LegInv, TypeOK, ExchangeTypeOK, Exchange, Accept, Reject, Fill, Cancel
  <2> QED BY <2>1, <2>2, <1>t DEF engine, cancelling, ControlInv
<1>22. CASE Deadline \/ RequestStop
  BY <1>22, <1>t DEF Deadline, RequestStop, engine, exchange, cancelling, ControlInv
<1> QED BY <1>1, <1>2, <1>3, <1>4, <1>5, <1>6, <1>7, <1>8, <1>9, <1>10, <1>11, <1>12,
        <1>13, <1>14, <1>15, <1>16, <1>17, <1>18, <1>19, <1>20, <1>21, <1>22
    DEF Next, Engine, Done, LegInv

LEMMA InitInv == Init => LegInv
<1> SUFFICES ASSUME Init PROVE LegInv
    OBVIOUS
<1>1. TypeOK
    BY InitTyped
<1>2. ControlInv
    BY DEF Init, ControlInv, ActiveIsHeld, OnlyLastWorks, AbsenceIsTerminal, ResultEnds,
           CleanLeavesNothing, Clean, LeavesOrder, Holding, NotHolding, Working, None, NoResult
<1> QED BY <1>1, <1>2 DEF LegInv

\* The inductive invariant of the leg.
THEOREM LegInvariant == Spec => []LegInv
<1>1. LegInv /\ [Next]_vars => LegInv'
    BY NextTyped, ControlStep DEF LegInv, ControlInv
<1> QED BY InitInv, <1>1, PTL DEF Spec

\* Every variable of the leg keeps its type, whatever the exchange, the
\* network and the operator do.
THEOREM LegTyped == Spec => []TypeOK
<1>1. LegInv => TypeOK
    BY DEF LegInv
<1> QED BY LegInvariant, <1>1, PTL

\* At no time can two orders of one leg work on the exchange.
THEOREM OrdersNeverOverlap == Spec => []OneWorkingOrder
<1>1. LegInv => OneWorkingOrder
    BY DEF LegInv, ControlInv, OnlyLastWorks, OneWorkingOrder
<1> QED BY LegInvariant, <1>1, PTL

\* A leg that reports a clean result has left no order working.
THEOREM CleanIsHonest == Spec => []CleanLeavesNothing
<1>1. LegInv => CleanLeavesNothing
    BY DEF LegInv, ControlInv
<1> QED BY LegInvariant, <1>1, PTL

(***************************************************************************)
(* What the leg does and reports is exact                                  *)
(***************************************************************************)
\* What the proofs below need of LegInv.
LEMMA LegFacts ==
    ASSUME LegInv
    PROVE  /\ status \in [Orders -> {"unsent", "sent", "live"} \cup Terminal]
           /\ qty \in [Orders -> Nat] /\ filled \in [Orders -> Nat]
           /\ cancels \in [Orders -> Nat] /\ position \in Nat /\ start \in Nat
           /\ active \in Orders \cup {None} /\ sent \in 0..MaxOrders
           /\ size \in Nat /\ remaining \in Nat /\ seen \in Nat /\ counted \in Nat
           /\ lastRead \in Nat
           /\ ActiveIsHeld /\ OnlyLastWorks /\ AbsenceIsTerminal /\ ResultEnds
           /\ CleanLeavesNothing
    BY DEF LegInv, TypeOK, ExchangeTypeOK, ControlTypeOK, CountersTypeOK, ControlInv

\* Only Send and the exchange touch the orders, and only the exchange the
\* position.
LEMMA OrdersUntouched ==
    ASSUME Engine, ~Send
    PROVE  UNCHANGED <<status, qty, filled, position, start>>
    BY DEF Engine, Start, Loop, Advance, Market, Slot, NotSubmitted,
           LocalFailure, Submitted, SubmissionUncertain, CancelPosition, CancelRequest,
           CancelResponse, CancelVerify, Reconcile, BulkCancel, BulkVerify, DeadlineFetch,
           Final, exchange, market

\* An order is cancelled once at most, and not before the engine turns to it.
LEMMA CancelStep == LegInv /\ CancelInv /\ [Next]_vars => CancelInv'
<1> SUFFICES ASSUME LegInv, CancelInv, [Next]_vars PROVE CancelInv'
    OBVIOUS
<1>t. /\ cancels \in [Orders -> Nat]
      /\ active \in Orders \cup {None} /\ sent \in 0..MaxOrders
      /\ ActiveIsHeld /\ OnlyLastWorks
    BY LegFacts
<1> USE DEF CancelInv, Uncancelled, ActiveIsHeld, Holding, NotHolding, None
<1>1. CASE Start
    BY <1>1, <1>t DEF Start, exchange, Goto, Finish
<1>2. CASE Loop
    BY <1>2, <1>t
    DEF Loop, LoopHead, FinishDeadline, StopForRequest, StopAfterObservationFailure,
        StartCancel, EndWith, Goto, Finish, FinishHere, exchange
<1>3. CASE Advance
    BY <1>3, <1>t
    DEF Advance, RetryObservation, Observed, StopForRequest, StopAfterObservationFailure,
        StartCancel, EndWith, Goto, Finish, FinishHere, exchange
<1>4. CASE Market
    BY <1>4, <1>t DEF Market, StopAfterObservationFailure, StartCancel, Goto, Finish, FinishHere,
       exchange
<1>5. CASE Slot
    BY <1>5, <1>t
    DEF Slot, FinishDeadline, StopForRequest, StopAfterObservationFailure, StartCancel,
        EndWith, Goto, Finish, FinishHere, exchange
<1>6. CASE NotSubmitted \/ LocalFailure \/ SubmissionUncertain
    BY <1>6, <1>t DEF NotSubmitted, LocalFailure, SubmissionUncertain, Goto, Finish, FinishHere,
       exchange
<1>7. CASE Send
  <2>1. sent + 1 \in Orders /\ sent' = sent + 1 /\ UNCHANGED <<cancels, active>>
        /\ pc' = "await" /\ pc = "submit"
    BY <1>7, <1>t, LegAssumption DEF Send, Goto, Orders
  <2>2. active = None /\ sent \in Nat
    BY <1>t, <2>1 DEF Orders
  <2>3. cancels[sent + 1] = 0
    BY <2>1, <2>2
  <2>4. \A o \in Orders : o > sent + 1 => o > sent
    BY <2>2 DEF Orders
  <2> QED BY <2>1, <2>2, <2>3, <2>4
<1>8. CASE Submitted
    BY <1>8, <1>t DEF Submitted, Goto, Finish, FinishHere, exchange
<1>9. CASE CancelPosition \/ CancelResponse
    BY <1>9, <1>t DEF CancelPosition, CancelResponse, exchange
<1>10. CASE CancelRequest
    BY <1>10, <1>t DEF CancelRequest
<1>11. CASE CancelVerify
    BY <1>11, <1>t
    DEF CancelVerify, NextVerify, VerifyExhausted, Unverified, Verified, AfterVerified,
        Finish, FinishHere, exchange, tally
<1>12. CASE Reconcile
    BY <1>12, <1>t
    DEF Reconcile, NotReconciled, VerifyExhausted, Unverified, Verified, AfterVerified,
        Finish, FinishHere, exchange, tally
<1>13. CASE BulkCancel
    BY <1>13, <1>t DEF BulkCancel, OnlyLastWorks
<1>14. CASE BulkVerify
    BY <1>14, <1>t DEF BulkVerify, EndWith, Goto, Finish, FinishHere, exchange
<1>15. CASE DeadlineFetch
    BY <1>15, <1>t DEF DeadlineFetch, EndWith, Finish, FinishHere, exchange
<1>16. CASE Final
    BY <1>16, <1>t DEF Final, Finish, FinishHere, exchange
<1>17. CASE Exchange \/ Deadline \/ RequestStop \/ UNCHANGED vars
    BY <1>17 DEF Exchange, Accept, Reject, Fill, Cancel, Deadline, RequestStop, engine, exchange,
       vars
<1> QED BY <1>1, <1>2, <1>3, <1>4, <1>5, <1>6, <1>7, <1>8, <1>9, <1>10, <1>11, <1>12,
        <1>13, <1>14, <1>15, <1>16, <1>17 DEF Next, Engine, Done

\* A working order has lots left to fill; one that was never accepted has none
\* filled.
LEMMA FillStep == LegInv /\ FillInv /\ SizeInv /\ [Next]_vars => FillInv'
<1> SUFFICES ASSUME LegInv, FillInv, SizeInv, [Next]_vars PROVE FillInv'
    OBVIOUS
<1>t. /\ status \in [Orders -> {"unsent", "sent", "live"} \cup Terminal]
      /\ qty \in [Orders -> Nat] /\ filled \in [Orders -> Nat] /\ size \in Nat
      /\ sent \in 0..MaxOrders /\ OnlyLastWorks
    BY LegFacts
<1> USE DEF FillInv, Working
<1>1. CASE Send
  <2>1. sent + 1 \in Orders /\ status[sent + 1] = "unsent" /\ size > 0
    BY <1>1, <1>t, LegAssumption DEF Send, Orders, OnlyLastWorks, SizeInv
  <2> QED BY <1>1, <1>t, <2>1 DEF Send
<1>2. CASE Exchange
    BY <1>2, <1>t DEF Exchange, Accept, Reject, Fill, Cancel, Terminal
<1>3. CASE Engine /\ ~Send
    BY <1>3, OrdersUntouched
<1>4. CASE Deadline \/ RequestStop \/ UNCHANGED vars
    BY <1>4 DEF Deadline, RequestStop, exchange, vars
<1> QED BY <1>1, <1>2, <1>3, <1>4 DEF Next, Done

\* Where positions are read as they are, nothing is filled between the read that
\* sizes an order and its submission.
LEMMA SizeStep == LegInv /\ SizeInv /\ [Next]_vars => SizeInv'
<1> SUFFICES ASSUME LegInv, SizeInv, [Next]_vars PROVE SizeInv'
    OBVIOUS
<1>t. /\ position \in Nat /\ size \in Nat /\ remaining \in Nat /\ start \in Nat
      /\ active \in Orders \cup {None} /\ ActiveIsHeld /\ OnlyLastWorks
    BY LegFacts
<1> USE LegAssumption DEF SizeInv
<1>1. CASE Loop
  <2>1. pc' # "submit"
    BY <1>1 DEF Loop, LoopHead, FinishDeadline, StopForRequest, StopAfterObservationFailure,
       StartCancel, EndWith, Goto, Finish, FinishHere
  <2>2. ASSUME pc' = "slot", ~StalePositions PROVE remaining' + position' = Target
    <3>1. PICK p \in PositionReads : LoopHead(p) /\ p < Target
      BY <1>1, <2>2 DEF Loop, LoopHead, FinishDeadline, StopForRequest, EndWith, Goto, Finish,
         StopAfterObservationFailure, StartCancel, FinishHere
    <3>2. p = position /\ remaining' = Target - position /\ position' = position
      BY <1>1, <2>2, <3>1 DEF Loop, PositionReads, LoopHead, Distance, exchange
    <3> QED BY <3>2, <1>t
  <2> QED BY <2>1, <2>2
<1>2. CASE Slot
  <2>1. UNCHANGED <<remaining, position>>
    BY <1>2 DEF Slot, exchange
  <2>2. pc' # "slot"
    BY <1>2, <1>t DEF Slot, FinishDeadline, StopForRequest, StopAfterObservationFailure,
       StartCancel, EndWith, Goto, Finish, FinishHere
  <2>3. ASSUME pc' = "submit" PROVE size' \in 1..remaining
    BY <1>2, <2>3 DEF Slot, FinishDeadline, StopForRequest, StopAfterObservationFailure,
       StartCancel, EndWith, Goto, Finish, FinishHere, ChildQuantities
  <2> QED BY <1>2, <1>t, <2>1, <2>2, <2>3 DEF Slot
<1>3. CASE Engine /\ ~Loop /\ ~Slot
    BY <1>3
    DEF Engine, Start, Advance, RetryObservation, Observed, Market, NotSubmitted, LocalFailure,
        Send, Submitted, SubmissionUncertain, CancelPosition, CancelRequest, CancelResponse,
        CancelVerify, NextVerify, VerifyExhausted, Unverified, Verified, AfterVerified,
        Reconcile, NotReconciled, BulkCancel, BulkVerify, DeadlineFetch, Final,
        StopForRequest, StopAfterObservationFailure, StartCancel, EndWith, Goto, Finish,
        FinishHere
<1>4. CASE Exchange
  <2>1. UNCHANGED <<pc, size, remaining>>
    BY <1>4 DEF Exchange, Accept, Reject, Fill, Cancel, engine, plan
  <2>2. pc \in {"slot", "submit"} => position' = position
    BY <1>4, <1>t DEF Exchange, Accept, Reject, Fill, Cancel, ActiveIsHeld, NotHolding,
       OnlyLastWorks, Working
  <2> QED BY <2>1, <2>2
<1>5. CASE Deadline \/ RequestStop \/ UNCHANGED vars
    BY <1>5 DEF Deadline, RequestStop, engine, exchange, plan, vars
<1> QED BY <1>1, <1>2, <1>3, <1>4, <1>5 DEF Next, Done

\* No order is sized beyond what is missing.
LEMMA OverfillStep ==
    ASSUME ~StalePositions, LegInv, FillInv, SizeInv, NoOverfill, [Next]_vars
    PROVE  NoOverfill'
<1>t. /\ status \in [Orders -> {"unsent", "sent", "live"} \cup Terminal]
      /\ qty \in [Orders -> Nat] /\ filled \in [Orders -> Nat] /\ size \in Nat
      /\ position \in Nat /\ start \in Nat /\ remaining \in Nat
      /\ sent \in 0..MaxOrders /\ ActiveIsHeld /\ OnlyLastWorks
    BY LegFacts
<1> USE LegAssumption DEF NoOverfill, Working
<1>1. CASE Send
  <2>1. sent + 1 \in Orders /\ status[sent + 1] = "unsent" /\ position + size <= Target
    BY <1>1, <1>t DEF Send, Orders, OnlyLastWorks, SizeInv
  <2>2. \A o \in Orders : status[o] \notin {"sent", "live"}
    BY <1>1, <1>t DEF Send, OnlyLastWorks, ActiveIsHeld, NotHolding
  <2> QED BY <1>1, <1>t, <2>1, <2>2 DEF Send
<1>2. CASE Exchange
  <2>1. PICK o \in Orders : Accept(o) \/ Reject(o) \/ Fill(o) \/ Cancel(o)
    BY <1>2 DEF Exchange
  <2>2. CASE Accept(o) \/ Reject(o) \/ Cancel(o)
    BY <2>2, <1>t DEF Accept, Reject, Cancel
  <2>3. CASE Fill(o)
    <3>1. filled[o] < qty[o] /\ status[o] = "live"
      BY <2>3 DEF Fill, FillInv
    <3>2. \A p \in Orders : status[p] \in {"sent", "live"} => p = o
      BY <3>1, <1>t DEF OnlyLastWorks
    <3> QED BY <2>3, <3>1, <3>2, <1>t DEF Fill
  <2> QED BY <2>1, <2>2, <2>3
<1>3. CASE Engine /\ ~Send
    BY <1>3, OrdersUntouched
<1>4. CASE Deadline \/ RequestStop \/ UNCHANGED vars
    BY <1>4 DEF Deadline, RequestStop, exchange, vars
<1> QED BY <1>1, <1>2, <1>3, <1>4 DEF Next, Done

\* The position a leg ends with is the one it reads, and nothing fills after it.
LEMMA HeldStep ==
    ASSUME ~StalePositions, LegInv, LegInv', PositionIsHeld, [Next]_vars
    PROVE  PositionIsHeld'
<1>t. ActiveIsHeld /\ OnlyLastWorks /\ ResultEnds /\ CleanLeavesNothing
    BY LegFacts
<1>n. ResultEnds'
    BY DEF LegInv, ControlInv
<1> USE DEF PositionIsHeld
<1>1. CASE Loop
    BY <1>1 DEF Loop, LoopHead, FinishDeadline, StopForRequest, StopAfterObservationFailure,
       StartCancel, EndWith, Goto, Finish, FinishHere, PositionReads, exchange, cancelling
<1>2. CASE Final
    BY <1>2 DEF Final, Finish, FinishHere, PositionReads, exchange
<1>3. CASE Engine /\ ~Loop /\ ~Final
  <2>1. pc' = "done" => /\ result'.status \notin {"completed", "stopped"}
                        /\ result'.reason # "deadline_exceeded"
    <3>a. CASE Start \/ NotSubmitted \/ LocalFailure \/ SubmissionUncertain
      BY <3>a DEF Start, NotSubmitted, LocalFailure, SubmissionUncertain, Goto, Finish, FinishHere
    <3>b. CASE Advance
      BY <3>b DEF Advance, RetryObservation, Observed, StopForRequest, StartCancel, EndWith,
         StopAfterObservationFailure, Goto, Finish, FinishHere
    <3>c. CASE Market \/ Slot
      BY <3>c DEF Market, Slot, FinishDeadline, StopForRequest, StartCancel, EndWith,
         StopAfterObservationFailure, Goto, Finish, FinishHere
    <3>d. CASE Send \/ CancelPosition \/ CancelRequest \/ CancelResponse \/ BulkCancel
      BY <3>d DEF Send, CancelPosition, CancelRequest, CancelResponse, BulkCancel, Goto
    <3>e. CASE Submitted
      BY <3>e DEF Submitted, Goto, Finish, FinishHere
    <3>f. CASE CancelVerify
      BY <3>f DEF CancelVerify, NextVerify, VerifyExhausted, Unverified, Verified, AfterVerified,
         Finish, FinishHere
    <3>g. CASE Reconcile
      <4> DEFINE row == [status |-> "canceled", filled |-> seen]
      <4>1. ASSUME Unverified
            PROVE  result'.status = "uncertain" /\ result'.reason # "deadline_exceeded"
        BY <4>1 DEF Unverified, Finish, FinishHere
      <4>2. ASSUME NEW view, NEW maker, Verified(view, maker), pc' = "done"
            PROVE  result'.status = "failed" /\ result'.reason # "deadline_exceeded"
        BY <4>2 DEF Verified, AfterVerified, Finish, FinishHere
      <4>3. pc' = "done" => Unverified \/ Verified(row, TRUE)
        BY <3>g DEF Reconcile, NotReconciled, VerifyExhausted
      <4> QED BY <4>1, <4>2, <4>3
    <3>h. CASE BulkVerify \/ DeadlineFetch
      BY <3>h DEF BulkVerify, DeadlineFetch, EndWith, Goto, Finish, FinishHere
    <3> QED BY <1>3, <3>a, <3>b, <3>c, <3>d, <3>e, <3>f, <3>g, <3>h DEF Engine
  <2> QED BY <1>n, <2>1 DEF ResultEnds
<1>4. CASE Exchange
  <2>1. result' = result
    BY <1>4 DEF Exchange, Accept, Reject, Fill, Cancel, engine
  <2>2. Clean => position' = position
    BY <1>4, <1>t DEF Exchange, Accept, Reject, Fill, Cancel, CleanLeavesNothing, Working
  <2> QED BY <2>1, <2>2 DEF Clean, LeavesOrder
<1>5. CASE Deadline \/ RequestStop \/ UNCHANGED vars
    BY <1>5 DEF Deadline, RequestStop, engine, exchange, vars
<1> QED BY <1>1, <1>2, <1>3, <1>4, <1>5 DEF Next, Engine, Done

\* A step that counts nothing leaves the account as it is.
LEMMA QuietStep ==
    ASSUME LegInv, LegInv', CountInv, response' # "absent",
           pc \notin {"await", "done"}, pc' # "await", pc = "final" => pc' = "done",
           UNCHANGED <<position, start, filled, active, sent, seen, counted>>,
           pc' = "done" /\ Clean' => active = None
    PROVE  CountInv'
<1>1. pc' # "done" => ~Clean'
    BY DEF LegInv, ControlInv, ResultEnds, Clean
<1>2. position \in Nat /\ start \in Nat /\ counted \in Nat
    BY LegFacts
<1> QED BY <1>1, <1>2 DEF CountInv, Uncounted, VolumeIsFilled

\* What reading a row of the active order counts.
LEMMA RowCounted ==
    ASSUME LegInv, CountInv, active # None, pc # "done", NEW view \in OrderViews(active)
    PROVE  /\ active \in Orders /\ filled[active] \in Nat
           /\ position = start + counted + (filled[active] - seen)
           /\ view.status \notin {"unknown", "live"} =>
                  counted + NewFill(view) = counted + (filled[active] - seen)
           /\ view.status # "unknown" =>
                  /\ counted + NewFill(view) + (filled[active] - view.filled)
                        = counted + (filled[active] - seen)
                  /\ view.filled <= filled[active]
<1>t. /\ filled \in [Orders -> Nat] /\ counted \in Nat /\ seen \in Nat /\ position \in Nat
      /\ start \in Nat /\ active \in Orders
    BY LegFacts DEF None
<1>1. seen <= filled[active] /\ position = start + counted + (filled[active] - seen)
    BY DEF CountInv, Uncounted
<1>2. view.status # "unknown" =>
          /\ view.filled \in seen..filled[active]
          /\ view.status # "live" => view.filled = filled[active]
    BY <1>t, <1>1 DEF OrderViews
<1> QED BY <1>t, <1>1, <1>2 DEF NewFill

\* What observing a row of the active order does to the count.
LEMMA ObservedCounts ==
    ASSUME LegInv, LegInv', CountInv, active # None, pc # "done", pc' # "await",
           response' # "absent",
           NEW view \in OrderViews(active), view.status # "unknown",
           UNCHANGED <<position, start, filled>>,
           counted' = counted + NewFill(view),
           \/ ~Clean' /\ pc' = "done"
           \/ /\ pc' # "done" /\ active' = active /\ seen' = view.filled
           \/ /\ active' = active /\ seen' = view.filled /\ view.status # "live"
           \/ /\ active' = None /\ (seen' = 0 \/ pc' = "final") /\ view.status # "live"
    PROVE  CountInv'
<1>t. /\ position \in Nat /\ start \in Nat /\ counted \in Nat /\ seen \in Nat
    BY LegFacts
<1>1. /\ active \in Orders /\ filled[active] \in Nat
      /\ position = start + counted + (filled[active] - seen)
      /\ view.status # "live" => counted' = counted + (filled[active] - seen)
      /\ counted' + (filled[active] - view.filled) = counted + (filled[active] - seen)
      /\ view.filled <= filled[active]
    BY RowCounted
<1>2. pc' # "done" => ~Clean'
    BY DEF LegInv, ControlInv, ResultEnds, Clean
<1>3. view.status # "live" => position' = start' + counted'
    BY <1>t, <1>1
<1>4. CASE ~Clean' /\ pc' = "done"
    BY <1>4 DEF CountInv, VolumeIsFilled
<1>5. CASE pc' # "done" /\ active' = active /\ seen' = view.filled
  <2>1. Uncounted' = filled[active] - view.filled
    BY <1>5 DEF Uncounted
  <2> QED BY <1>t, <1>1, <1>2, <1>5, <2>1 DEF CountInv, VolumeIsFilled
<1>6. CASE active' = active /\ seen' = view.filled /\ view.status # "live" /\ pc' = "done"
    BY <1>3, <1>6 DEF CountInv, VolumeIsFilled
<1>7. CASE active' = None /\ (seen' = 0 \/ pc' = "final") /\ view.status # "live"
  <2>1. Uncounted' = 0
    BY <1>7 DEF Uncounted
  <2>2. counted' \in Nat
    BY DEF LegInv, TypeOK, CountersTypeOK
  <2> QED BY <1>t, <1>2, <1>3, <1>7, <2>1, <2>2 DEF CountInv, VolumeIsFilled
<1> QED BY <1>4, <1>5, <1>6, <1>7

\* Every fill is counted once, whichever poll, cancellation or cleanup sees it.
LEMMA CountStep ==
    ASSUME ~ReportsAbsence, LegInv, LegInv', FillInv, CountInv, [Next]_vars
    PROVE  CountInv'
<1>t. /\ status \in [Orders -> {"unsent", "sent", "live"} \cup Terminal]
      /\ filled \in [Orders -> Nat] /\ position \in Nat /\ start \in Nat
      /\ counted \in Nat /\ seen \in Nat /\ sent \in 0..MaxOrders
      /\ ActiveIsHeld /\ OnlyLastWorks /\ AbsenceIsTerminal /\ ResultEnds
      /\ CleanLeavesNothing
    BY LegFacts
<1>r. response # "absent" /\ pc \notin {"reconcile", "reconcile_last"}
    BY <1>t DEF CountInv, AbsenceIsTerminal
<1>q. pc \in Holding => active # None
    BY <1>t DEF ActiveIsHeld
<1>p. pc \in NotHolding => active = None
    BY <1>t DEF ActiveIsHeld
<1>1. CASE Start \/ NotSubmitted \/ LocalFailure
    BY <1>1, <1>p, <1>r, QuietStep
    DEF Start, NotSubmitted, LocalFailure, Goto, Finish, FinishHere, NotHolding, Clean,
        exchange, tally, cancelling
<1>2. CASE Loop
    BY <1>2, <1>r, QuietStep
    DEF Loop, LoopHead, FinishDeadline, StopForRequest, StopAfterObservationFailure,
        StartCancel, EndWith, Goto, Finish, FinishHere, Clean, LeavesOrder, exchange, tally,
        cancelling
<1>3. CASE Advance
  <2>1. CASE ShouldStop \/ RetryObservation
    BY <1>3, <1>q, <1>r, <2>1, QuietStep
    DEF Advance, RetryObservation, Observed, StopForRequest, StartCancel, EndWith, Holding,
        StopAfterObservationFailure, Goto, Finish, FinishHere, Clean, exchange, tally, cancelling
  <2>2. CASE ~ShouldStop /\ ~RetryObservation
    <3>1. PICK view \in OrderViews(active), maker \in BOOLEAN :
              view.status # "unknown" /\ Observed(view, maker)
      BY <1>3, <2>2 DEF Advance
    <3>2. active # None /\ pc = "advance" /\ UNCHANGED <<position, start, filled>>
      BY <1>3, <1>q DEF Advance, exchange, Holding
    <3>3. counted' = counted + NewFill(view) /\ response' # "absent" /\ pc' # "await"
      BY <3>1, <1>r DEF Observed, Goto, Finish, FinishHere, cancelling
    <3>4. \/ ~Clean' /\ pc' = "done"
          \/ /\ pc' # "done" /\ active' = active /\ seen' = view.filled
          \/ /\ active' = active /\ seen' = view.filled /\ view.status # "live"
          \/ /\ active' = None /\ (seen' = 0 \/ pc' = "final") /\ view.status # "live"
      BY <3>1 DEF Observed, Goto, Finish, FinishHere, Clean, LeavesOrder
    <3> QED BY <3>1, <3>2, <3>3, <3>4, ObservedCounts
  <2> QED BY <2>1, <2>2
<1>4. CASE Market
    BY <1>4, <1>r, QuietStep
    DEF Market, StopAfterObservationFailure, StartCancel, Goto, Finish, FinishHere, Clean,
        exchange, tally, cancelling
<1>5. CASE Slot
    BY <1>5, <1>p, <1>r, QuietStep
    DEF Slot, FinishDeadline, StopForRequest, StopAfterObservationFailure, StartCancel,
        EndWith, Goto, Finish, FinishHere, NotHolding, exchange, tally, cancelling
<1>6. CASE Send
  <2>1. sent + 1 \in Orders /\ sent' = sent + 1 /\ status[sent + 1] = "unsent"
    BY <1>6, <1>t, LegAssumption DEF Send, Orders, OnlyLastWorks
  <2>2. filled[sent + 1] = 0
    BY <2>1 DEF FillInv
  <2>3. /\ pc = "submit" /\ pc' = "await" /\ active = None /\ active' = None
        /\ UNCHANGED <<filled, position, start, seen, counted, response, result>>
    BY <1>6, <1>p DEF Send, Goto, NotHolding, tally, cancelling
  <2>4. Uncounted = 0 /\ Uncounted' = 0
    BY <2>1, <2>2, <2>3 DEF Uncounted
  <2>5. sent' # None
    BY <2>1, LegAssumption DEF Orders, None
  <2>6. UNCHANGED Clean
    BY <2>3 DEF Clean
  <2> QED BY <2>3, <2>4, <2>5, <2>6 DEF CountInv, VolumeIsFilled
<1>7. CASE Submitted
  <2>1. /\ pc = "await" /\ active = None /\ pc' # "await" /\ response' # "absent"
        /\ UNCHANGED <<position, start, filled, sent, counted>>
    BY <1>7, <1>p, <1>r DEF Submitted, Goto, Finish, FinishHere, NotHolding, exchange, cancelling
  <2>2. position = start + counted + filled[sent]
    BY <2>1 DEF CountInv, Uncounted
  <2>3. sent # None /\ sent \in Orders /\ filled[sent] \in Nat
    BY <1>t, <2>1, LegAssumption DEF CountInv, Orders, None
  <2>4. CASE active' = sent /\ seen' = 0 /\ pc' = "loop"
    <3>1. Uncounted' = filled[sent]
      BY <2>1, <2>4, <2>3 DEF Uncounted
    <3>2. ~Clean'
      BY <2>4 DEF LegInv, ControlInv, ResultEnds, Clean
    <3> QED BY <2>1, <2>2, <2>4, <2>3, <3>1, <3>2 DEF CountInv, VolumeIsFilled
  <2>5. CASE status[sent] = "rejected" /\ pc' = "done"
    BY <1>t, <2>1, <2>2, <2>5, <2>3 DEF CountInv, VolumeIsFilled, FillInv
  <2>6. CASE ~Clean' /\ pc' = "done"
    BY <2>1, <2>6 DEF CountInv, VolumeIsFilled
  <2> QED BY <1>7, <2>4, <2>5, <2>6 DEF Submitted, Goto, Finish, FinishHere, Clean, LeavesOrder
<1>8. CASE SubmissionUncertain
    BY <1>8, <1>r DEF SubmissionUncertain, FinishHere, Finish, Clean, CountInv, VolumeIsFilled,
       cancelling
<1>9. CASE CancelPosition \/ CancelRequest \/ CancelResponse
    BY <1>9, <1>r, <1>q, QuietStep
    DEF CancelPosition, CancelRequest, CancelResponse, exchange, market, tally, cancelling
<1>10. CASE CancelVerify
  <2>1. /\ active # None /\ pc = "cancel_verify" /\ response' = response
        /\ UNCHANGED <<position, start, filled, sent>>
    BY <1>10, <1>q DEF CancelVerify, exchange, Holding
  <2>2. ASSUME NEW gone, NextVerify(gone)
        PROVE  CountInv'
    <3>1. /\ pc' \in {"cancel_verify", "done"} /\ UNCHANGED <<active, seen, counted>>
          /\ pc' = "done" => ~Clean'
      BY <1>r, <2>2
      DEF NextVerify, VerifyExhausted, AbsenceProven, Unverified, Finish, FinishHere, Clean, tally
    <3> QED BY <1>r, <2>1, <3>1, QuietStep
  <2>3. ASSUME NEW view \in OrderViews(active), NEW maker, Verified(view, maker),
               view.status \in {"filled", "canceled", "could_not_fill"}
        PROVE  CountInv'
    <3>1. counted' = counted + NewFill(view) /\ pc' # "await"
      BY <2>3 DEF Verified, AfterVerified, Finish, FinishHere
    <3>2. \/ ~Clean' /\ pc' = "done"
          \/ /\ active' = active /\ seen' = view.filled /\ view.status # "live"
          \/ /\ active' = None /\ seen' = 0 /\ view.status # "live"
      BY <2>3 DEF Verified, AfterVerified, Finish, FinishHere, Clean, LeavesOrder
    <3> QED BY <1>r, <2>1, <2>3, <3>1, <3>2, ObservedCounts
  <2>4. CASE NextVerify(absent)
    BY <2>2, <2>4
  <2>5. CASE ~NextVerify(absent)
    <3>1. PICK view \in OrderViews(active), maker \in BOOLEAN, gone \in BOOLEAN :
              IF view.status \in {"filled", "canceled", "could_not_fill"}
              THEN Verified(view, maker)
              ELSE NextVerify(gone)
      BY <1>10, <1>r, <2>5 DEF CancelVerify, AbsenceProven
    <3> QED BY <2>2, <2>3, <3>1
  <2> QED BY <2>4, <2>5
<1>11. CASE Reconcile
    BY <1>11, <1>r DEF Reconcile
<1>12. CASE BulkCancel \/ BulkVerify
    BY <1>12, <1>r, QuietStep
    DEF BulkCancel, BulkVerify, EndWith, Goto, Finish, FinishHere, Clean, exchange, market,
        tally, cancelling
<1>13. CASE DeadlineFetch
  <2>1. /\ active # None /\ pc = "deadline_fetch" /\ response' = response /\ pc' # "await"
        /\ UNCHANGED <<position, start, filled, sent>>
    BY <1>13, <1>q DEF DeadlineFetch, EndWith, Finish, FinishHere, exchange, Holding, cancelling
  <2>2. CASE UNCHANGED <<active, tally>> /\ ~Clean' /\ pc' = "done"
    BY <1>r, <2>1, <2>2 DEF CountInv, VolumeIsFilled
  <2>3. ASSUME NEW view \in OrderViews(active), NEW maker \in BOOLEAN,
               counted' = counted + NewFill(view),
               \/ /\ TakerFill(view, maker)
                  /\ FinishHere("failed", "taker_fill_detected")
                  /\ UNCHANGED <<active, seen, cancelling>>
               \/ /\ ~TakerFill(view, maker)
                  /\ view.status \notin {"filled", "canceled", "could_not_fill"}
                  /\ FinishHere("uncertain", "deadline_order_not_confirmed")
                  /\ seen' = view.filled
                  /\ UNCHANGED <<active, cancelling>>
               \/ /\ ~TakerFill(view, maker)
                  /\ view.status \in {"filled", "canceled", "could_not_fill"}
                  /\ active' = None /\ seen' = view.filled
                  /\ EndWith("deadline")
        PROVE  CountInv'
    <3>1. \/ ~Clean' /\ pc' = "done"
          \/ /\ active' = None /\ pc' = "final" /\ view.status \notin {"live", "unknown"}
      BY <2>3 DEF EndWith, Finish, FinishHere, Clean, LeavesOrder
    <3>2. CASE ~Clean' /\ pc' = "done"
      BY <1>r, <2>1, <3>2 DEF CountInv, VolumeIsFilled
    <3>3. CASE active' = None /\ pc' = "final" /\ view.status \notin {"live", "unknown"}
      BY <1>r, <2>1, <2>3, <3>3, ObservedCounts
    <3> QED BY <3>1, <3>2, <3>3
  <2> QED BY <1>13, <2>2, <2>3 DEF DeadlineFetch, Finish, FinishHere, Clean
<1>14. CASE Final
    BY <1>14, <1>p, <1>r, QuietStep
    DEF Final, Finish, FinishHere, NotHolding, exchange, tally, cancelling
<1>15. CASE Exchange
  <2>1. UNCHANGED <<start, pc, active, sent, seen, counted, response, result>>
    BY <1>15 DEF Exchange, Accept, Reject, Fill, Cancel, engine, tally, cancelling
  <2>2. CASE UNCHANGED <<position, filled>>
    BY <2>1, <2>2 DEF CountInv, VolumeIsFilled, Uncounted, Clean
  <2>3. PICK o \in Orders : Accept(o) \/ Reject(o) \/ Fill(o) \/ Cancel(o)
    BY <1>15 DEF Exchange
  <2>4. CASE Fill(o)
    <3>1. /\ o = sent /\ Working(o) /\ position' = position + 1
          /\ filled' = [filled EXCEPT ![o] = filled[o] + 1]
      BY <2>4, <1>t DEF Fill, Working, OnlyLastWorks
    <3>2. ~Clean /\ ~Clean'
      BY <2>1, <3>1, <1>t DEF CleanLeavesNothing, Clean
    <3>3. pc # "done" => active = o \/ (active = None /\ pc = "await")
      BY <3>1, <1>t DEF OnlyLastWorks, ActiveIsHeld
    <3>4. filled'[o] = filled[o] + 1 /\ filled[o] \in Nat /\ o # None
      BY <3>1, <1>t DEF Orders, None
    <3>5. pc # "done" => Uncounted' = Uncounted + 1 /\ Uncounted \in Int
      BY <2>1, <3>1, <3>3, <3>4, <1>t DEF Uncounted
    <3>6. pc # "done" /\ active # None => active = o
      BY <3>3
    <3> QED BY <1>t, <2>1, <3>1, <3>2, <3>4, <3>5, <3>6 DEF CountInv, VolumeIsFilled
  <2> QED BY <2>2, <2>3, <2>4 DEF Accept, Reject, Cancel
<1>16. CASE Deadline \/ RequestStop \/ UNCHANGED vars
    BY <1>16 DEF Deadline, RequestStop, engine, exchange, tally, cancelling, vars, CountInv,
       VolumeIsFilled, Uncounted, Clean
<1> QED BY <1>1, <1>2, <1>3, <1>4, <1>5, <1>6, <1>7, <1>8, <1>9, <1>10, <1>11, <1>12,
        <1>13, <1>14, <1>15, <1>16 DEF Next, Engine, Done

LEMMA InitExact == Init => ExactInv
<1> SUFFICES ASSUME Init PROVE ExactInv
    OBVIOUS
<1>1. CancelInv /\ FillInv /\ SizeInv
    BY DEF Init, CancelInv, FillInv, SizeInv, Uncancelled, Working, None
<1>2. NoOverfill /\ PositionIsHeld
    BY LegAssumption DEF Init, NoOverfill, PositionIsHeld, Working, NoResult
<1>3. CountInv
    BY LegAssumption DEF Init, CountInv, Uncounted, VolumeIsFilled, Clean, NoResult, None
<1> QED BY <1>1, <1>2, <1>3 DEF ExactInv

LEMMA ExactStep == LegInv /\ LegInv' /\ ExactInv /\ [Next]_vars => ExactInv'
<1> SUFFICES ASSUME LegInv, LegInv', ExactInv, [Next]_vars PROVE ExactInv'
    OBVIOUS
<1>1. CancelInv' /\ FillInv' /\ SizeInv'
    BY CancelStep, FillStep, SizeStep DEF ExactInv
<1>2. ASSUME ~StalePositions PROVE NoOverfill' /\ PositionIsHeld'
    BY <1>2, OverfillStep, HeldStep DEF ExactInv
<1>3. ASSUME ~ReportsAbsence PROVE CountInv'
    BY <1>3, CountStep DEF ExactInv
<1> QED BY <1>1, <1>2, <1>3 DEF ExactInv

\* A leg sends one cancellation per order; where it reads positions as they are,
\* it never orders beyond its target and reports the position the account keeps;
\* and where absence is no proof of cancellation, the volume it reports is what
\* was filled.
THEOREM LegExact == Spec => []LegIsExact
<1>1. LegInv /\ ExactInv => LegIsExact
    BY LegAssumption DEF ExactInv, LegIsExact, CancelInv, CancelSentOnce, CountInv
<1> QED BY LegInvariant, InitExact, ExactStep, <1>1, PTL DEF Spec

(***************************************************************************)
(* Refinement of MakerLane                                                 *)
(***************************************************************************)
\* A step of the engine that does not touch an order either leaves the lane
\* as it is or concludes it, with a verdict the invariant vouches for.
LEMMA EngineConcludes ==
    ASSUME LegInv, LegInv', UNCHANGED status, pc # "done"
    PROVE  [Lane!LaneNext]_Lane!laneVars
<1>1. LaneOrder' = LaneOrder
    BY DEF LaneOrder, Working
<1>2. LaneVerdict = "running"
    BY DEF LaneVerdict, LegInv, ControlInv, ResultEnds
<1>3. CASE LaneVerdict' = "running"
    BY <1>1, <1>2, <1>3 DEF Lane!laneVars
<1>4. CASE LaneVerdict' = "clean"
  <2>1. Clean'
    BY <1>4 DEF LaneVerdict
  <2>2. \A o \in Orders : ~Working(o)
    BY <2>1 DEF LegInv, ControlInv, CleanLeavesNothing, Working
  <2>3. Lane!NothingOpen
    BY <2>2 DEF Lane!NothingOpen, LaneOrder
  <2> QED BY <1>1, <1>2, <1>4, <2>3 DEF Lane!LaneNext, Lane!Conclude
<1>5. CASE LaneVerdict' = "exposed"
    BY <1>1, <1>2, <1>5 DEF Lane!LaneNext, Lane!Conclude
<1> QED BY <1>3, <1>4, <1>5 DEF LaneVerdict

\* Sending an order is the lane's submission.
LEMMA SendSubmits ==
    ASSUME LegInv, Send
    PROVE  Lane!LaneNext
<1>1. sent + 1 \in Orders /\ sent' = sent + 1 /\ status[sent + 1] = "unsent"
    BY LegAssumption DEF LegInv, TypeOK, ControlTypeOK, ControlInv, OnlyLastWorks, Send, Orders
<1>2. \A o \in Orders : ~Working(o)
    BY DEF LegInv, ControlInv, OnlyLastWorks, ActiveIsHeld, NotHolding, Send
<1>3. LaneVerdict = "running" /\ UNCHANGED LaneVerdict
    BY DEF LaneVerdict, Clean, LegInv, ControlInv, ResultEnds, Send, Goto
<1>4. LaneOrder[sent + 1] = "unsent" /\ Lane!NothingOpen
    BY <1>1, <1>2 DEF LaneOrder, Lane!NothingOpen
<1>5. LaneOrder' = [LaneOrder EXCEPT ![sent + 1] = "open"]
    BY <1>1 DEF LaneOrder, Working, Send, LegInv, TypeOK, ExchangeTypeOK
<1> QED BY <1>1, <1>3, <1>4, <1>5 DEF Lane!LaneNext, Lane!Submit

\* A step of the exchange settles an order or leaves it open.
LEMMA ExchangeSettles ==
    ASSUME LegInv, Exchange
    PROVE  [Lane!LaneNext]_Lane!laneVars
<1>1. PICK o \in Orders : Accept(o) \/ Reject(o) \/ Fill(o) \/ Cancel(o)
    BY DEF Exchange
<1>2. UNCHANGED LaneVerdict
    BY <1>1 DEF Accept, Reject, Fill, Cancel, engine, LaneVerdict, Clean
<1>3. /\ Working(o) /\ status'[o] \in {"live"} \cup Terminal
      /\ status' = [status EXCEPT ![o] = status'[o]]
      /\ status \in [Orders -> {"unsent", "sent", "live"} \cup Terminal]
    BY <1>1 DEF Accept, Reject, Fill, Cancel, Working, Terminal, LegInv, TypeOK, ExchangeTypeOK
<1>4. LaneOrder[o] = "open"
    BY <1>3 DEF LaneOrder, Working
<1>5. CASE status'[o] = "live"
  <2>1. UNCHANGED LaneOrder
    BY <1>3, <1>5 DEF LaneOrder, Working
  <2> QED BY <1>2, <2>1 DEF Lane!laneVars
<1>6. CASE status'[o] \in Terminal
  <2>1. LaneOrder' = [LaneOrder EXCEPT ![o] = "settled"]
    BY <1>3, <1>6 DEF LaneOrder, Working, Terminal
  <2> QED BY <1>2, <1>4, <2>1 DEF Lane!LaneNext, Lane!Settle
<1> QED BY <1>3, <1>5, <1>6

\* The leg implements the lane's contract: every submission is made over
\* settled orders, and the verdict it concludes with is true.
THEOREM LegImplementsLane == Spec => Lane!LaneInit /\ [][Lane!LaneNext]_Lane!laneVars
<1>1. Init => Lane!LaneInit
    BY DEF Init, NoResult, Lane!LaneInit, LaneOrder, LaneVerdict
<1>2. LegInv /\ LegInv' /\ [Next]_vars => [Lane!LaneNext]_Lane!laneVars
  <2> SUFFICES ASSUME LegInv, LegInv', [Next]_vars PROVE [Lane!LaneNext]_Lane!laneVars
      OBVIOUS
  <2>1. CASE Engine
    <3>1. CASE Send
      BY <3>1, SendSubmits
    <3>2. CASE ~Send
      <4>1. pc # "done" /\ UNCHANGED status
        BY <2>1, <3>2 DEF Engine, Start, Loop, Advance, Market, Slot, NotSubmitted,
           LocalFailure, Submitted, SubmissionUncertain, CancelPosition, CancelRequest,
           CancelResponse, CancelVerify, Reconcile, BulkCancel, BulkVerify, DeadlineFetch,
           Final, exchange, market
      <4> QED BY <4>1, EngineConcludes
    <3> QED BY <3>1, <3>2
  <2>2. CASE Exchange
    BY <2>2, ExchangeSettles
  <2>3. CASE Deadline \/ RequestStop \/ UNCHANGED vars
    <3>1. UNCHANGED <<LaneOrder, LaneVerdict>>
      BY <2>3 DEF Deadline, RequestStop, vars, exchange, engine, LaneOrder, LaneVerdict,
         Working, Clean
    <3> QED BY <3>1 DEF Lane!laneVars
  <2> QED BY <2>1, <2>2, <2>3 DEF Next, Done
<1> QED BY LegInvariant, <1>1, <1>2, PTL DEF Spec
=============================================================================
