--------------------------- MODULE MCSessionAndLeg ---------------------------
(***************************************************************************)
(* Small instances of a beta session, of what it settles before a cycle    *)
(* and of one of its legs, side by side in one model: sessions of two      *)
(* rounds that nobody stops, sessions of one round that are asked to stop  *)
(* and whose plan closes dust, the preparation of two cycles, a leg on the *)
(* live venue, and one on the demo venue that may not requote.  They share *)
(* no state: the initial state picks the one that runs, and the others     *)
(* rest.  Two lots and three orders are enough for a partial fill, a       *)
(* replacement, and a replacement of the replacement.                      *)
(***************************************************************************)
EXTENDS BetaCycle, CyclePreparation

VARIABLES kind,
          legStatus, qty, filled, cancels, position, start, expired, legStopping, legPc,
          active, sent, size, remaining, seen, counted, requotes, skips, errors, lastRead,
          purpose, attempts, before, response, absent, result

legVars == <<legStatus, qty, filled, cancels, position, start, expired, legStopping, legPc,
             active, sent, size, remaining, seen, counted, requotes, skips, errors, lastRead,
             purpose, attempts, before, response, absent, result>>

Stopped == INSTANCE BetaCycle WITH
    TargetVolume <- 2, MaxRounds <- 1, MaxEmptyRounds <- 0,
    DustAllowed <- TRUE, Stoppable <- TRUE, MaxFaults <- 1

Leg == INSTANCE MakerLeg WITH
    status <- legStatus, stopping <- legStopping, pc <- legPc,
    Target <- 2, MaxOrders <- 3, MaxRequotes <- 1, MaxSkips <- 0, MaxReadErrors <- 2,
    MaxVerify <- 2, BulkCleanup <- TRUE, ReportsAbsence <- FALSE, AssuresPostOnly <- TRUE,
    StaleOrders <- FALSE, StalePositions <- FALSE

DemoLeg == INSTANCE MakerLeg WITH
    status <- legStatus, stopping <- legStopping, pc <- legPc,
    Target <- 2, MaxOrders <- 3, MaxRequotes <- 0, MaxSkips <- 0, MaxReadErrors <- 2,
    MaxVerify <- 2, BulkCleanup <- FALSE, ReportsAbsence <- TRUE, AssuresPostOnly <- FALSE,
    StaleOrders <- FALSE, StalePositions <- FALSE

\* Two ratios, prices around one percent, two settings of the account, and a
\* change of margin mode that an earlier session may have left on its way.
TwoRatios == {[num |-> 1, den |-> 2], [num |-> 3, den |-> 2]}
MidPrices     == {[BTC |-> price, ETH |-> 30] : price \in {100, 101, 103}}
SixFifths == [num |-> 6, den |-> 5]
Accounts  == {[mode |-> "isolated", leverage |-> 1], [mode |-> "cross", leverage |-> 2]}
Leftover  == {[side |-> "BTC", change |-> [mode |-> "cross", leverage |-> 0]]}

PartsInit ==
    /\ kind \in {"session", "stopped session", "preparation", "leg", "demo leg"}
    /\ Init /\ Leg!Init /\ PrepInit
    /\ kind \notin {"leg", "demo leg"} => start = 0
    /\ kind # "preparation" => late = {} /\ \A s \in Pair : setting[s].mode = "cross"

PartsNext ==
    /\ kind' = kind
    /\ \/ kind = "session" /\ Next /\ UNCHANGED <<legVars, prepVars>>
       \/ kind = "stopped session" /\ Stopped!Next /\ UNCHANGED <<legVars, prepVars>>
       \/ kind = "preparation" /\ PrepNext /\ UNCHANGED <<vars, legVars>>
       \/ kind = "leg" /\ Leg!Next /\ UNCHANGED <<vars, prepVars>>
       \/ kind = "demo leg" /\ DemoLeg!Next /\ UNCHANGED <<vars, prepVars>>

PartsSpec == PartsInit /\ [][PartsNext]_<<kind, vars, legVars, prepVars>>

\* The states have their types; a cycle is begun at rest, with quantities that
\* reach its goal and a leverage that was seen.
ReadyAndAtRest == TypeOK /\ OpensAtRest /\ PrepTypeOK /\ CyclesAreReady

\* The leg's property, as MakerLeg states it, on both venues: no order is cancelled
\* twice and nothing filled beyond the target, and what the leg reports is what
\* the exchange did.
ExactLegs == /\ kind = "leg" => Leg!LegIsExact
             /\ kind = "demo leg" => DemoLeg!LegIsExact
=============================================================================
