----------------------------- MODULE MakerLane -----------------------------
(***************************************************************************)
(* What one Maker leg promises to its caller about the orders it leaves on *)
(* the exchange, whatever the exchange, the network or the operator do:    *)
(*                                                                         *)
(*   - it submits an order only when none of its earlier orders can still  *)
(*     work on the exchange;                                               *)
(*   - when it concludes "clean" none of its orders works, and none ever   *)
(*     will again; when it concludes "exposed" the caller must assume that *)
(*     one may;                                                            *)
(*   - after it concluded it submits nothing.                              *)
(*                                                                         *)
(* MakerLeg refines this specification.                                    *)
(***************************************************************************)
CONSTANT Orders      \* identities of the orders the leg may submit

VARIABLES order,     \* order[o] is "unsent", "open" (may work) or "settled"
          verdict    \* "running", or how the leg concluded

laneVars == <<order, verdict>>

NothingOpen == \A o \in Orders : order[o] # "open"

LaneInit ==
    /\ order = [o \in Orders |-> "unsent"]
    /\ verdict = "running"

Submit(o) ==
    /\ verdict = "running"
    /\ NothingOpen
    /\ order[o] = "unsent"
    /\ order' = [order EXCEPT ![o] = "open"]
    /\ UNCHANGED verdict

Settle(o) ==
    /\ order[o] = "open"
    /\ order' = [order EXCEPT ![o] = "settled"]
    /\ UNCHANGED verdict

Conclude ==
    /\ verdict = "running"
    /\ \/ NothingOpen /\ verdict' = "clean"
       \/ verdict' = "exposed"
    /\ UNCHANGED order

LaneNext ==
    \/ \E o \in Orders : Submit(o) \/ Settle(o)
    \/ Conclude

LaneSpec == LaneInit /\ [][LaneNext]_laneVars /\ WF_laneVars(Conclude)
=============================================================================
