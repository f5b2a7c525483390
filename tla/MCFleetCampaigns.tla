--------------------------- MODULE MCFleetCampaigns --------------------------
(***************************************************************************)
(* Small instances of FleetCampaigns: two campaigns on two accounts that   *)
(* share one API key and one admission, with two requests in flight; the   *)
(* same with requests that overlap on an account, before a position is     *)
(* opened; and one campaign alone, with requests that overlap.  One        *)
(* campaign with every fault is in MCFleetBooks.                           *)
(*                                                                         *)
(* Beside them, sharing no state, the volume sessions of two runs of one   *)
(* account of the fleet: the initial state picks the part that runs, and   *)
(* the others rest.                                                        *)
(***************************************************************************)
EXTENDS FleetCampaigns, SessionAudit, TLC

CONSTANTS c1, c2, a1, a2, k1

VARIABLE part

\* Two account instances whose credentials name one API key.
TwoAccounts == c1 :> a1 @@ c2 :> a2
OneKey      == a1 :> k1 @@ a2 :> k1

\* The request threads are alike.
Threads == Permutations(Requests)

Pressed == INSTANCE FleetCampaigns WITH Overlap <- Accounts, MaxRounds <- 0
Alone   == INSTANCE FleetCampaigns WITH Overlap <- Accounts

PartsInit ==
    part \in {"campaigns", "pressed", "alone", "sessions"} /\ Init /\ AuditInit

PartsNext ==
    /\ part' = part
    /\ \/ part = "campaigns" /\ Next /\ UNCHANGED auditVars
       \/ part = "pressed" /\ Pressed!Next /\ UNCHANGED auditVars
       \/ part = "alone" /\ Alone!Next /\ status'[c2] = "absent" /\ UNCHANGED auditVars
       \/ part = "sessions" /\ AuditNext /\ UNCHANGED vars

PartsSpec == PartsInit /\ [][PartsNext]_<<part, vars, auditVars>>

\* The volume sessions of an account are those of its runs: what ended and is verified
\* shows the trades of its run and no others, no trade is counted twice, one session
\* at a time is open, and the end of a run is not forgotten (fleet_api/volume,
\* fleet_api/strategy).
SessionsAreOwn == AuditTypeOK /\ VerifiedIsOwn /\ CountedOnce /\ OneOpen /\ NoRunForgotten
=============================================================================
