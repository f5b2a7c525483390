---------------------------- MODULE MCFleetActors ----------------------------
(***************************************************************************)
(* A small instance of FleetActors: two actors behind one proxy.  A cycle  *)
(* makes two lots of volume and the target is three, so a campaign with    *)
(* two cycles passes it with the second one.                               *)
(***************************************************************************)
EXTENDS FleetActors, TLC

CONSTANTS a1, a2, p1

\* Both actors go through one proxy.
OneProxy == a1 :> p1 @@ a2 :> p1

\* A long campaign beside a short one.
TwoAndOne == a1 :> 2 @@ a2 :> 1

\* A stop that is asked for ends the campaign wherever it waits, and a phase
\* that waits for a slot starts.
ActorsMoveOn == StopEnds /\ PhaseStarts
=============================================================================
