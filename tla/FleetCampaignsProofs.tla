------------------------ MODULE FleetCampaignsProofs ------------------------
(***************************************************************************)
(* What TLAPS proves of the campaign manager of the control plane, for any *)
(* number of campaigns, accounts, keys, requests, restarts and rounds.     *)
(***************************************************************************)
EXTENDS FleetCampaigns, TLAPS

(***************************************************************************)
(* Types.                                                                  *)
(***************************************************************************)

LEMMA OpTyped ==
    ASSUME TypeOK, NEW r \in Requests
    PROVE  \/ op[r] = Idle /\ op[r].at = "idle"
           \/ /\ op[r].at \in {"retire", "enter", "lease", "boundary", "claim"}
              /\ op[r] = [at |-> op[r].at, campaign |-> op[r].campaign]
              /\ op[r].campaign \in Campaigns
           \/ /\ op[r].at \in {"signal", "admit", "own", "launch", "mark"}
              /\ op[r] = [at |-> op[r].at, campaign |-> op[r].campaign, recovering |-> op[r].recovering,
                          ours |-> op[r].ours, plan |-> op[r].plan]
              /\ op[r].campaign \in Campaigns /\ op[r].recovering \in BOOLEAN
              /\ op[r].ours \in BOOLEAN /\ op[r].plan \in BOOLEAN
<1>1. op[r] \in Requested
  BY DEF TypeOK
<1> QED
  BY <1>1 DEF Requested, Idle

LEMMA SavesTyped ==
    ASSUME TypeOK, NEW c \in Campaigns, NEW outcome \in {"completed", "stopped", Doubtful(c)},
           Saves(c, outcome)
    PROVE  /\ status' \in [Campaigns -> Active \cup {"absent", "completed", "stopped"}]
           /\ worker' \in [Campaigns -> WorkerStates] /\ waiting' \in [Campaigns -> BOOLEAN]
BY DEF TypeOK, Saves, Doubtful, Active, WorkerStates

LEMMA ActorsTyped ==
    ASSUME TypeOK, NEW c \in Campaigns, ActorStep(c)
    PROVE  TypeOK'
<1> USE FleetAssumption DEF TypeOK, journalVars, processVars, worldVars, history, Active, WorkerStates
<1>1. CASE ActorPrepares(c)
  BY <1>1, SavesTyped DEF ActorPrepares, Doubtful
<1>2. CASE ActorResumes(c)
  BY <1>2, SavesTyped DEF ActorResumes, Doubtful
<1>3. CASE ActorWaits(c)
  BY <1>3 DEF ActorWaits
<1>4. CASE ActorReady(c)
  BY <1>4 DEF ActorReady
<1>5. CASE ActorPlans(c)
  BY <1>5 DEF ActorPlans
<1>6. CASE ActorSubmits(c)
  BY <1>6 DEF ActorSubmits
<1>7. CASE ActorFills(c)
  BY <1>7 DEF ActorFills
<1>8. CASE ActorOpens(c)
  BY <1>8 DEF ActorOpens
<1>9. CASE ActorCloses(c)
  <2>1. /\ status' \in [Campaigns -> Active \cup {"absent", "completed", "stopped"}]
        /\ worker' \in [Campaigns -> WorkerStates] /\ waiting' \in [Campaigns -> BOOLEAN]
    <3>1. CASE \E outcome \in {"completed", "stopped", Doubtful(c)} : Saves(c, outcome)
      BY <3>1, SavesTyped
    <3>2. CASE ~\E outcome \in {"completed", "stopped", Doubtful(c)} : Saves(c, outcome)
      BY ZenonT(60), <1>9, <3>2 DEF ActorCloses
    <3> QED
      BY <3>1, <3>2
  <2> QED
    BY <1>9, <2>1 DEF ActorCloses
<1>10. CASE ActorEnds(c)
  BY <1>10, SavesTyped DEF ActorEnds, Doubtful
<1>11. CASE ActorTurnsToStop(c)
  BY <1>11 DEF ActorTurnsToStop
<1>12. CASE ActorSafeStops(c)
  BY <1>12, SavesTyped DEF ActorSafeStops, Doubtful
<1>13. CASE ActorLeaves(c)
  BY <1>13 DEF ActorLeaves
<1>14. CASE ActorReleased(c)
  BY <1>14 DEF ActorReleased, DropLease
<1> QED
  BY <1>1, <1>2, <1>3, <1>4, <1>5, <1>6, <1>7, <1>8, <1>9, <1>10, <1>11, <1>12, <1>13,
       <1>14 DEF ActorStep

LEMMA ChecksTyped ==
    ASSUME TypeOK, NEW c \in Campaigns, CheckStep(c)
    PROVE  TypeOK'
<1> USE FleetAssumption DEF TypeOK, journalVars, processVars, worldVars, history, Active, WorkerStates
<1>1. CASE CheckReads(c)
  BY <1>1 DEF CheckReads, CheckDue, Boundary
<1>2. CASE CheckUnreadable(c)
  BY <1>2 DEF CheckUnreadable, CheckDue
<1>3. CASE CheckWrites(c)
  BY <1>3 DEF CheckWrites
<1>4. CASE CheckArchives(c)
  BY <1>4 DEF CheckArchives
<1> QED
  BY <1>1, <1>2, <1>3, <1>4 DEF CheckStep

LEMMA RequestsTyped ==
    ASSUME TypeOK, NEW r \in Requests, RequestStep(r)
    PROVE  TypeOK'
<1> USE FleetAssumption DEF TypeOK, journalVars, processVars, worldVars, history, Active, WorkerStates
<1>1. CASE PrepareRetires(r)
  BY <1>1, OpTyped DEF PrepareRetires, Requested
<1>2. CASE StartEnters(r)
  BY <1>2, OpTyped DEF StartEnters, Idle, Requested
<1>3. CASE StartLeases(r)
  BY SMTT(40), <1>3, OpTyped DEF StartLeases, Abandon, LetGo, Requested
<1>4. CASE StartVerifies(r)
  BY <1>4, OpTyped DEF StartVerifies, Abandon, LetGo, Requested
<1>5. CASE StartLaunches(r)
  <2>1. PICK c \in Campaigns : c = op[r].campaign
    BY <1>5, OpTyped DEF StartLaunches
  <2>2. /\ status' = [status EXCEPT ![c] = "executing"] /\ worker' = [worker EXCEPT ![c] = "prepare"]
        /\ flock' = [flock EXCEPT ![Key(c)] = c] /\ op' = [op EXCEPT ![r] = Idle]
    BY <1>5, <2>1 DEF StartLaunches
  <2>3. /\ launched' = launched \cup {c} /\ stops' = stops \cup {c}
        /\ asked' = asked \ {c} /\ starting' = starting \ {c}
    BY <1>5, <2>1 DEF StartLaunches
  <2>4. UNCHANGED <<submitted, owned, waiting, proven, admitted, closing, checking, worldVars,
                    blind, rounds, restarts>>
    BY <1>5 DEF StartLaunches
  <2>5. /\ status' \in [Campaigns -> Active \cup {"absent", "completed", "stopped"}]
        /\ worker' \in [Campaigns -> WorkerStates]
    BY <2>1, <2>2
  <2>6. flock' \in [Keys -> {Free} \cup Campaigns \cup Requests] /\ op' \in [Requests -> Requested]
    BY <2>1, <2>2 DEF Requested
  <2> QED
    BY <2>1, <2>3, <2>4, <2>5, <2>6
<1>6. CASE StartFails(r)
  BY <1>6, OpTyped DEF StartFails, Abandon, LetGo, Requested
<1>7. CASE StopSignals(r)
  BY <1>7, OpTyped DEF StopSignals, Requested
<1>8. CASE RecoveryStopAdmits(r)
  BY <1>8, OpTyped DEF RecoveryStopAdmits, Requested
<1>9. CASE RecoveryStopLeases(r)
  BY <1>9, OpTyped DEF RecoveryStopLeases, RecoveryStopFails, DropLease, Requested
<1>10. CASE RecoveryStopLaunches(r)
  BY <1>10, OpTyped DEF RecoveryStopLaunches, RecoveryStopFails, DropLease, Requested
<1>11. CASE StopMarks(r)
  BY <1>11, OpTyped DEF StopMarks, Requested
<1> QED
  BY <1>1, <1>2, <1>3, <1>4, <1>5, <1>6, <1>7, <1>8, <1>9, <1>10, <1>11 DEF RequestStep

LEMMA ArrivalsTyped ==
    ASSUME TypeOK, NEW c \in Campaigns, NEW r \in Requests,
           PrepareReads(r, c) \/ StartReads(r, c) \/ StopReads(r, c)
    PROVE  TypeOK'
<1> USE FleetAssumption DEF TypeOK, journalVars, processVars, worldVars, history, Active, WorkerStates
<1>1. CASE PrepareReads(r, c)
  BY <1>1 DEF PrepareReads, Requested
<1>2. CASE StartReads(r, c)
  BY <1>2 DEF StartReads, Requested
<1>3. CASE StopReads(r, c)
  BY <1>3 DEF StopReads, Requested
<1> QED
  BY <1>1, <1>2, <1>3

LEMMA RestartTyped == ASSUME TypeOK, Restart PROVE TypeOK'
BY FleetAssumption DEF TypeOK, Restart, Resumable, worldVars, Requested, Idle, Active, WorkerStates

LEMMA OthersTyped ==
    ASSUME TypeOK,
           \/ \E c \in Campaigns : Preview(c) \/ Expire(c) \/ FlattenedByHand(c)
           \/ \E a \in Accounts : BindingChanged(a)
           \/ \E k \in Keys : ForeignAppears(k) \/ ForeignLeaves(k)
           \/ Close \/ RuntimeCloses
    PROVE  TypeOK'
<1> USE FleetAssumption DEF TypeOK, journalVars, processVars, worldVars, history, Active, WorkerStates
<1>1. CASE \E c \in Campaigns : Preview(c)
  BY <1>1 DEF Preview
<1>2. CASE \E c \in Campaigns : Expire(c)
  BY <1>2 DEF Expire
<1>3. CASE \E c \in Campaigns : FlattenedByHand(c)
  BY <1>3 DEF FlattenedByHand
<1>4. CASE \E a \in Accounts : BindingChanged(a)
  BY <1>4 DEF BindingChanged
<1>5. CASE \E k \in Keys : ForeignAppears(k)
  BY <1>5 DEF ForeignAppears
<1>6. CASE \E k \in Keys : ForeignLeaves(k)
  BY <1>6 DEF ForeignLeaves
<1>7. CASE Close
  BY <1>7 DEF Close
<1>8. CASE RuntimeCloses
  BY <1>8 DEF RuntimeCloses
<1> QED
  BY <1>1, <1>2, <1>3, <1>4, <1>5, <1>6, <1>7, <1>8

LEMMA NextTyped == TypeOK /\ [Next]_vars => TypeOK'
<1> SUFFICES ASSUME TypeOK, [Next]_vars PROVE TypeOK'
  OBVIOUS
<1>1. CASE UNCHANGED vars
  BY <1>1 DEF TypeOK, vars, journalVars, processVars, worldVars, history
<1>2. CASE Next
  BY <1>2, ActorsTyped, ChecksTyped, RequestsTyped, ArrivalsTyped, RestartTyped, OthersTyped DEF Next
<1> QED
  BY <1>1, <1>2

(***************************************************************************)
(* Control.  A campaign is launched once, from its confirmation, and past  *)
(* its launch it is either with its actor or it never opens again.  An     *)
(* actor that opens holds the lock file of its key and its stop event is   *)
(* registered; only a request that knows of a campaign in recovery, which  *)
(* no longer opens, forgets these.                                         *)
(***************************************************************************)
Past(c) == c \in launched /\ ~Opening(c) /\ status[c] # "executing"

\* What was never launched has left no trace.
Apart(c) ==
    c \notin launched =>
        /\ worker[c] = "none" /\ status[c] \in {"absent", "planned", "stopped"}
        /\ ~submitted[c] /\ ~waiting[c] /\ checking[c] = "none" /\ c \notin own

Begun(c) ==
    /\ status[c] \in {"absent", "planned"} => c \notin launched
    /\ Opening(c) => flock[Key(c)] = c /\ c \in stops
    /\ status[c] = "executing" => Opening(c)
    /\ (status[c] = "recovering" \/ checking[c] # "none") => Past(c)

Serves(r) ==
    /\ op[r].at \in {"boundary", "claim"} => flock[Key(op[r].campaign)] = r
    /\ op[r].at \in {"signal", "admit", "own", "launch", "mark"} => op[r].campaign \in launched
    /\ op[r].at \in {"admit", "own", "launch"} => op[r].recovering
    /\ (op[r].at \in {"signal", "admit", "own", "launch"} /\ op[r].recovering) => Past(op[r].campaign)

ControlInv == (\A c \in Campaigns : Apart(c) /\ Begun(c)) /\ \A r \in Requests : Serves(r)

LEMMA OthersServe ==
    ASSUME TypeOK, ControlInv, NEW q \in Requests, op'[q] = op[q],
           \A c \in Campaigns : Past(c) => Past(c)', launched \subseteq launched',
           \A k \in Keys : flock[k] = q => flock'[k] = q
    PROVE  Serves(q)'
BY OpTyped, FleetAssumption DEF Serves, ControlInv, Key

\* A step that leaves the requests where they are keeps their invariant too.
LEMMA RequestsWait ==
    ASSUME TypeOK, ControlInv, op' = op, launched' = launched,
           \A q \in Requests, k \in Keys : flock[k] = q => flock'[k] = q,
           \A d \in Campaigns : Apart(d)' /\ Begun(d)' /\ (Past(d) => Past(d)')
    PROVE  ControlInv'
<1>1. \A q \in Requests : Serves(q)'
  BY OthersServe
<1> QED
  BY <1>1 DEF ControlInv

LEMMA ActorsControl ==
    ASSUME TypeOK, ControlInv, NEW c \in Campaigns, ActorStep(c)
    PROVE  ControlInv'
<1> USE FleetAssumption DEF TypeOK, journalVars, processVars, worldVars, history, ControlInv, Key, Apart,
           Begun, Past, Opening, Trading
<1>1. op' = op /\ launched' = launched /\ \A q \in Requests, k \in Keys : flock[k] = q => flock'[k] = q
  BY DEF ActorStep, ActorPrepares, ActorResumes, ActorWaits, ActorReady, ActorPlans,
         ActorSubmits, ActorFills, ActorOpens, ActorCloses, ActorEnds, ActorTurnsToStop,
         ActorSafeStops, ActorLeaves, ActorReleased, DropLease
<1>2. \A d \in Campaigns : Apart(d)' /\ Begun(d)' /\ (Past(d) => Past(d)')
  <2>1. CASE ActorPrepares(c)
    BY <2>1 DEF ActorPrepares, Saves, Doubtful
  <2>2. CASE ActorResumes(c)
    BY <2>2 DEF ActorResumes, Saves, Doubtful
  <2>3. CASE ActorWaits(c)
    BY <2>3 DEF ActorWaits
  <2>4. CASE ActorReady(c)
    BY <2>4 DEF ActorReady
  <2>5. CASE ActorPlans(c)
    BY <2>5 DEF ActorPlans
  <2>6. CASE ActorSubmits(c)
    BY <2>6 DEF ActorSubmits
  <2>7. CASE ActorFills(c)
    BY <2>7 DEF ActorFills
  <2>8. CASE ActorOpens(c)
    BY <2>8 DEF ActorOpens
  <2>9. CASE ActorCloses(c)
    BY <2>9 DEF ActorCloses, Saves, Doubtful
  <2>10. CASE ActorEnds(c)
    BY <2>10 DEF ActorEnds, Saves, Doubtful
  <2>11. CASE ActorTurnsToStop(c)
    BY <2>11 DEF ActorTurnsToStop
  <2>12. CASE ActorSafeStops(c)
    BY <2>12 DEF ActorSafeStops, Saves, Doubtful
  <2>13. CASE ActorLeaves(c)
    BY <2>13 DEF ActorLeaves
  <2>14. CASE ActorReleased(c)
    BY <2>14 DEF ActorReleased, DropLease
  <2> QED
    BY <2>1, <2>2, <2>3, <2>4, <2>5, <2>6, <2>7, <2>8, <2>9, <2>10, <2>11, <2>12, <2>13,
           <2>14 DEF ActorStep
<1> QED
  BY <1>1, <1>2, RequestsWait

LEMMA ChecksControl ==
    ASSUME TypeOK, ControlInv, NEW c \in Campaigns, CheckStep(c)
    PROVE  ControlInv'
<1> USE FleetAssumption DEF TypeOK, journalVars, processVars, worldVars, history, ControlInv, Key, Apart,
           Begun, Past, Opening, Trading
<1>1. op' = op /\ launched' = launched /\ \A q \in Requests, k \in Keys : flock[k] = q => flock'[k] = q
  BY DEF CheckStep, CheckReads, CheckUnreadable, CheckWrites, CheckArchives, DropLease
<1>2. \A d \in Campaigns : Apart(d)' /\ Begun(d)' /\ (Past(d) => Past(d)')
  <2>1. CASE CheckReads(c)
    BY <2>1 DEF CheckReads, CheckDue, Boundary
  <2>2. CASE CheckUnreadable(c)
    BY <2>2 DEF CheckUnreadable, CheckDue
  <2>3. CASE CheckWrites(c)
    BY <2>3 DEF CheckWrites
  <2>4. CASE CheckArchives(c)
    BY <2>4 DEF CheckArchives
  <2> QED
    BY <2>1, <2>2, <2>3, <2>4 DEF CheckStep
<1> QED
  BY <1>1, <1>2, RequestsWait

\* The same when one request moves on.
LEMMA RequestMoves ==
    ASSUME TypeOK, ControlInv, NEW r \in Requests, Serves(r)', launched \subseteq launched',
           \A q \in Requests \ {r} :
              op'[q] = op[q] /\ \A k \in Keys : flock[k] = q => flock'[k] = q,
           \A d \in Campaigns : Apart(d)' /\ Begun(d)' /\ (Past(d) => Past(d)')
    PROVE  ControlInv'
<1>1. \A q \in Requests \ {r} : Serves(q)'
  BY OthersServe
<1> QED
  BY <1>1 DEF ControlInv

\* The launch: the campaign was never launched before, and its start holds the lock file.
LEMMA LaunchControl ==
    ASSUME TypeOK, ControlInv, NEW r \in Requests, StartLaunches(r)
    PROVE  ControlInv'
<1>0. PICK c \in Campaigns : c = op[r].campaign
  BY OpTyped DEF StartLaunches
<1>1. /\ status[c] = "planned" /\ c \notin launched /\ flock[Key(c)] = r /\ r # c
      /\ worker[c] = "none" /\ checking[c] = "none" /\ Key(c) \in Keys
  <2>1. status[c] = "planned" /\ op[r].at = "claim"
    BY <1>0 DEF StartLaunches, Claimable
  <2>2. c \notin launched
    BY <2>1 DEF ControlInv, Begun
  <2>3. flock[Key(c)] = r
    BY <1>0, <2>1 DEF ControlInv, Serves
  <2>4. worker[c] = "none" /\ checking[c] = "none"
    BY <2>2 DEF ControlInv, Apart
  <2> QED
    BY <2>1, <2>2, <2>3, <2>4, FleetAssumption DEF Key
<1>2. /\ status' = [status EXCEPT ![c] = "executing"]
        /\ launched' = launched \cup {c}
        /\ stops' = stops \cup {c}
        /\ flock' = [flock EXCEPT ![Key(c)] = c]
        /\ worker' = [worker EXCEPT ![c] = "prepare"]
        /\ checking' = checking
  BY <1>0 DEF StartLaunches
<1>3. \A d \in Campaigns \ {c} :
         /\ status'[d] = status[d] /\ worker'[d] = worker[d]
         /\ d \in launched' <=> d \in launched
         /\ Opening(d)' = Opening(d) /\ Past(d)' = Past(d)
  BY <1>1, <1>2 DEF TypeOK, Opening, Trading, Past
<1>4. \A d \in Campaigns : Past(d) => Past(d)'
  BY <1>1, <1>3 DEF Past
<1>5. \A d \in Campaigns \ {c} : Opening(d) => Key(d) # Key(c)
  BY <1>1, FleetAssumption DEF ControlInv, Begun
<1>6. ASSUME NEW d \in Campaigns \ {c} PROVE Begun(d)'
  <2>1. Opening(d) => flock'[Key(d)] = d /\ d \in stops'
    BY <1>2, <1>5, FleetAssumption DEF TypeOK, ControlInv, Begun, Key
  <2> QED
    BY <2>1, <1>2, <1>3 DEF Begun, ControlInv, Key
<1>7. Begun(c)'
  <2>1. /\ status'[c] = "executing" /\ worker'[c] = "prepare" /\ checking'[c] = "none"
        /\ c \in launched' /\ c \in stops' /\ flock'[Key(c)] = c
    BY <1>1, <1>2 DEF TypeOK
  <2> QED
    BY <2>1 DEF Begun, Opening, Trading, Key
<1>8. /\ Serves(r)'
      /\ \A q \in Requests \ {r} : op'[q] = op[q] /\ \A k \in Keys : flock[k] = q => flock'[k] = q
  <2>1. op' = [op EXCEPT ![r] = Idle]
    BY DEF StartLaunches
  <2>2. op'[r].at = "idle" /\ \A q \in Requests \ {r} : op'[q] = op[q]
    BY <2>1 DEF TypeOK, Idle
  <2> QED
    BY <1>1, <1>2, <2>2 DEF TypeOK, Serves
<1>9. \A d \in Campaigns : Apart(d)'
  BY <1>2, <1>3 DEF ControlInv, Apart, StartLaunches, journalVars, worldVars
<1> QED
  BY <1>2, <1>4, <1>6, <1>7, <1>8, <1>9, RequestMoves

LEMMA RequestsControl ==
    ASSUME TypeOK, ControlInv, NEW r \in Requests, RequestStep(r), ~StartLaunches(r)
    PROVE  ControlInv'
<1> USE FleetAssumption DEF TypeOK, journalVars, processVars, worldVars, history, ControlInv, Key, Apart,
           Begun, Past, Opening, Trading
<1>1. /\ launched' = launched
      /\ \A q \in Requests \ {r} : op'[q] = op[q] /\ \A k \in Keys : flock[k] = q => flock'[k] = q
  <2>1. CASE PrepareRetires(r) \/ StartEnters(r) \/ StopSignals(r) \/ StopMarks(r)
    BY <2>1 DEF PrepareRetires, StartEnters, StopSignals, StopMarks
  <2>2. CASE RecoveryStopAdmits(r)
    BY <2>2 DEF RecoveryStopAdmits
  <2>3. CASE StartLeases(r)
    BY <2>3, OpTyped DEF StartLeases, Abandon, LetGo
  <2>4. CASE StartVerifies(r) \/ StartFails(r)
    BY <2>4, OpTyped DEF StartVerifies, StartFails, Abandon, LetGo
  <2>5. CASE RecoveryStopLeases(r)
    BY <2>5, OpTyped DEF RecoveryStopLeases, DropLease, RecoveryStopFails
  <2>6. CASE RecoveryStopLaunches(r)
    BY <2>6, OpTyped DEF RecoveryStopLaunches, DropLease, RecoveryStopFails
  <2> QED
    BY <2>1, <2>2, <2>3, <2>4, <2>5, <2>6 DEF RequestStep
<1>2. \A d \in Campaigns : Apart(d)' /\ Begun(d)' /\ (Past(d) => Past(d)')
  <2>1. CASE PrepareRetires(r)
    BY <2>1, OpTyped DEF PrepareRetires
  <2>2. CASE StartEnters(r)
    BY <2>2, OpTyped DEF StartEnters, Idle
  <2>3. CASE StartLeases(r)
    BY <2>3, OpTyped DEF StartLeases, Abandon, LetGo
  <2>4. CASE StartVerifies(r)
    BY <2>4, OpTyped DEF StartVerifies, Abandon, LetGo
  <2>5. CASE StartFails(r)
    BY <2>5, OpTyped DEF StartFails, Abandon, LetGo
  <2>6. CASE StopSignals(r)
    BY <2>6, OpTyped DEF StopSignals
  <2>7. CASE RecoveryStopAdmits(r)
    BY <2>7, OpTyped DEF RecoveryStopAdmits
  <2>8. CASE RecoveryStopLeases(r)
    <3>1. PICK c \in Campaigns : c = op[r].campaign /\ Past(c)
      BY <2>8, OpTyped DEF RecoveryStopLeases, Serves
    <3> QED
      BY <2>8, <3>1 DEF RecoveryStopLeases, RecoveryStopFails, DropLease
  <2>9. CASE RecoveryStopLaunches(r)
    <3>1. PICK c \in Campaigns : c = op[r].campaign /\ Past(c)
      BY <2>9, OpTyped DEF RecoveryStopLaunches, Serves
    <3> QED
      BY <2>9, <3>1 DEF RecoveryStopLaunches, RecoveryStopFails, DropLease
  <2>10. CASE StopMarks(r)
    <3>1. PICK c \in Campaigns : c = op[r].campaign /\ c \in launched
      BY <2>10, OpTyped DEF StopMarks, Serves
    <3> QED
      BY <2>10, <3>1 DEF StopMarks
  <2> QED
    BY <2>1, <2>2, <2>3, <2>4, <2>5, <2>6, <2>7, <2>8, <2>9, <2>10 DEF RequestStep
<1>3. Serves(r)'
  <2>1. CASE PrepareRetires(r)
    BY <2>1, OpTyped DEF PrepareRetires, Idle, Serves
  <2>2. CASE StartEnters(r)
    BY <2>2, OpTyped DEF StartEnters, Idle, Serves
  <2>3. CASE StartLeases(r)
    BY <2>3, OpTyped DEF StartLeases, Abandon, LetGo, Idle, Serves
  <2>4. CASE StartVerifies(r)
    BY <2>4, OpTyped DEF StartVerifies, Abandon, LetGo, Idle, Serves
  <2>5. CASE StartFails(r)
    BY <2>5, OpTyped DEF StartFails, Abandon, LetGo, Idle, Serves
  <2>6. CASE StopSignals(r)
    BY <2>6, OpTyped DEF StopSignals, Idle, Serves
  <2>7. CASE RecoveryStopAdmits(r)
    BY <2>7, OpTyped DEF RecoveryStopAdmits, Idle, Serves
  <2>8. CASE RecoveryStopLeases(r)
    BY <2>8, OpTyped DEF RecoveryStopLeases, RecoveryStopFails, DropLease, Idle, Serves
  <2>9. CASE RecoveryStopLaunches(r)
    BY <2>9, OpTyped DEF RecoveryStopLaunches, RecoveryStopFails, DropLease, Idle, Serves
  <2>10. CASE StopMarks(r)
    BY <2>10, OpTyped DEF StopMarks, Idle, Serves
  <2> QED
    BY <2>1, <2>2, <2>3, <2>4, <2>5, <2>6, <2>7, <2>8, <2>9, <2>10 DEF RequestStep
<1> QED
  BY <1>1, <1>2, <1>3, RequestMoves

LEMMA ArrivalsControl ==
    ASSUME TypeOK, ControlInv, NEW c \in Campaigns, NEW r \in Requests,
           PrepareReads(r, c) \/ StartReads(r, c) \/ StopReads(r, c)
    PROVE  ControlInv'
<1> USE FleetAssumption DEF TypeOK, journalVars, processVars, worldVars, history, ControlInv, Key, Apart,
           Begun, Past, Opening, Trading
<1>1. /\ launched' = launched
      /\ \A q \in Requests \ {r} : op'[q] = op[q] /\ \A k \in Keys : flock[k] = q => flock'[k] = q
  BY OpTyped DEF PrepareReads, StartReads, StopReads
<1>2. \A d \in Campaigns : Apart(d)' /\ Begun(d)' /\ (Past(d) => Past(d)')
  <2>1. CASE PrepareReads(r, c)
    BY <2>1 DEF PrepareReads
  <2>2. CASE StartReads(r, c)
    BY <2>2 DEF StartReads
  <2>3. CASE StopReads(r, c)
    BY <2>3 DEF StopReads
  <2> QED
    BY <2>1, <2>2, <2>3 DEF RequestStep
<1>3. Serves(r)'
  <2>1. CASE PrepareReads(r, c)
    BY <2>1 DEF PrepareReads, Idle, Serves
  <2>2. CASE StartReads(r, c)
    BY <2>2 DEF StartReads, Idle, Serves
  <2>3. CASE StopReads(r, c)
    <3>1. op'[r] = [at |-> "signal", campaign |-> c, recovering |-> status[c] = "recovering",
                     ours |-> proven[c] = "owned_exposure",
                     plan |-> owned[c] \in {"opened", "uncertain", "closed"}]
      BY <2>3 DEF StopReads, TypeOK
    <3>2. op'[r].at = "signal" /\ op'[r].campaign = c /\ op'[r].recovering = (status[c] = "recovering")
      BY <3>1
    <3>3. c \in launched /\ (status[c] = "recovering" => Past(c))
      BY <2>3 DEF StopReads, ControlInv, Apart, Begun
    <3>4. launched' = launched /\ Past(c)' = Past(c)
      BY <2>3 DEF StopReads, Past, Opening, Trading, journalVars, history
    <3> QED
      BY <3>2, <3>3, <3>4 DEF Serves
  <2> QED
    BY <2>1, <2>2, <2>3 DEF RequestStep
<1> QED
  BY <1>1, <1>2, <1>3, RequestMoves

LEMMA RestartControl == ASSUME TypeOK, ControlInv, Restart PROVE ControlInv'
<1> USE FleetAssumption DEF TypeOK, worldVars, ControlInv, Apart, Begun, Past, Opening, Trading
<1>1. PICK R \in SUBSET {c \in Campaigns : Resumable(c)} :
         /\ \A c, d \in R : c # d => Key(c) # Key(d)
         /\ status' = [c \in Campaigns |->
                IF status[c] \in {"executing", "stopping"} /\ c \notin R
                THEN "recovering" ELSE status[c]]
         /\ worker' = [c \in Campaigns |-> IF c \in R THEN "resume" ELSE "none"]
         /\ flock' = [k \in Keys |->
                IF \E c \in R : Key(c) = k THEN CHOOSE c \in R : Key(c) = k ELSE Free]
         /\ stops' = R
  BY DEF Restart
<1>2. \A c \in R : status[c] = "executing" /\ Key(c) \in Keys /\ flock'[Key(c)] = c
  BY <1>1 DEF Resumable, Key
<1>3. /\ launched' = launched /\ submitted' = submitted /\ waiting' = waiting /\ own' = own
      /\ \A d \in Campaigns : checking'[d] = "none"
      /\ \A q \in Requests : op'[q].at = "idle"
  BY DEF Restart, Idle
<1>4. \A d \in Campaigns : Apart(d)' /\ Begun(d)'
  BY <1>1, <1>2, <1>3
<1>5. \A q \in Requests : Serves(q)'
  BY <1>3 DEF Serves
<1> QED
  BY <1>4, <1>5

LEMMA OthersControl ==
    ASSUME TypeOK, ControlInv,
           \/ \E c \in Campaigns : Preview(c) \/ Expire(c) \/ FlattenedByHand(c)
           \/ \E a \in Accounts : BindingChanged(a)
           \/ \E k \in Keys : ForeignAppears(k) \/ ForeignLeaves(k)
           \/ Close \/ RuntimeCloses
    PROVE  ControlInv'
<1> USE FleetAssumption DEF TypeOK, journalVars, processVars, worldVars, history, ControlInv, Key, Apart,
           Begun, Past, Opening, Trading
<1>1. op' = op /\ launched' = launched /\ flock' = flock
  BY DEF Preview, Expire, FlattenedByHand, BindingChanged, ForeignAppears, ForeignLeaves, Close,
         RuntimeCloses
<1>2. \A d \in Campaigns : Apart(d)' /\ Begun(d)' /\ (Past(d) => Past(d)')
  <2>1. CASE \E c \in Campaigns : Preview(c)
    BY <2>1 DEF Preview
  <2>2. CASE \E c \in Campaigns : Expire(c)
    BY <2>2 DEF Expire
  <2>3. CASE \E c \in Campaigns : FlattenedByHand(c)
    BY <2>3 DEF FlattenedByHand
  <2>4. CASE \E a \in Accounts : BindingChanged(a)
    BY <2>4 DEF BindingChanged
  <2>5. CASE \E k \in Keys : ForeignAppears(k) \/ ForeignLeaves(k)
    BY <2>5 DEF ForeignAppears, ForeignLeaves
  <2>6. CASE Close \/ RuntimeCloses
    BY <2>6 DEF Close, RuntimeCloses
  <2> QED
    BY <2>1, <2>2, <2>3, <2>4, <2>5, <2>6
<1> QED
  BY <1>1, <1>2, RequestsWait

LEMMA NextControl == TypeOK /\ ControlInv /\ [Next]_vars => ControlInv'
<1> SUFFICES ASSUME TypeOK, ControlInv, [Next]_vars PROVE ControlInv'
  OBVIOUS
<1>1. CASE UNCHANGED vars
  BY <1>1 DEF ControlInv, Apart, Begun, Past, Serves, Opening, Trading, vars, journalVars, processVars,
         worldVars, history
<1>2. CASE Next
  <2>1. \A r \in Requests : RequestStep(r) => ControlInv'
    BY RequestsControl, LaunchControl
  <2> QED
    BY <1>2, <2>1, ActorsControl, ChecksControl, ArrivalsControl, RestartControl, OthersControl
       DEF Next
<1> QED
  BY <1>1, <1>2

LEMMA InitControl == Init => TypeOK /\ ControlInv
<1> SUFFICES ASSUME Init PROVE TypeOK /\ ControlInv
  OBVIOUS
<1>1. TypeOK
  BY FleetAssumption DEF Init, TypeOK, Requested, WorkerStates, Active
<1>2. ControlInv
  BY DEF Init, ControlInv, Apart, Begun, Serves, Past, Opening, Trading, Idle
<1> QED
  BY <1>1, <1>2

LEMMA FleetInvariant == Spec => [](TypeOK /\ ControlInv)
BY InitControl, NextTyped, NextControl, PTL DEF Spec

\* On an API key at most one actor opens positions: each that does holds the lock file
\* of its key (campaign_contracts.py, _AccountLease), whatever starts, stops, recoveries
\* and restarts come together.
THEOREM OneOpener == Spec => []TypedOneOpener
<1>1. TypeOK /\ ControlInv => TypedOneOpener
  BY DEF ControlInv, Begun, TypedOneOpener, OneOpenerPerKey
<1> QED
  BY <1>1, FleetInvariant, PTL

\* A campaign becomes executing once: claim_execution takes it from planned, and nothing
\* that was launched is planned again.
THEOREM ConfirmedOnce == Spec => ConfirmationSpentOnce
<1>1. ASSUME TypeOK, ControlInv, Next
      PROVE  \A c \in launched : status[c] # "executing" => status'[c] # "executing"
  <2> USE <1>1 DEF TypeOK, journalVars, Saves, Doubtful
  <2>1. ASSUME NEW c \in Campaigns, ActorStep(c)
        PROVE  \A d \in Campaigns : status[d] # "executing" => status'[d] # "executing"
    BY <2>1 DEF ActorStep, ActorPrepares, ActorResumes, ActorWaits, ActorReady, ActorPlans,
           ActorSubmits, ActorFills, ActorOpens, ActorCloses, ActorEnds, ActorTurnsToStop,
           ActorSafeStops, ActorLeaves, ActorReleased
  <2>2. ASSUME NEW c \in Campaigns, CheckStep(c)
        PROVE  \A d \in Campaigns : status[d] # "executing" => status'[d] # "executing"
    BY <2>2 DEF CheckStep, CheckReads, CheckUnreadable, CheckWrites, CheckArchives
  <2>3. ASSUME NEW r \in Requests, RequestStep(r), ~StartLaunches(r)
        PROVE  \A d \in Campaigns : status[d] # "executing" => status'[d] # "executing"
    BY <2>3 DEF RequestStep, PrepareRetires, StartEnters, StartLeases, StartVerifies,
           StartFails, StopSignals, RecoveryStopAdmits, RecoveryStopLeases,
           RecoveryStopLaunches, StopMarks, Abandon, RecoveryStopFails
  <2>4. ASSUME NEW r \in Requests, StartLaunches(r)
        PROVE  \A d \in launched : status[d] # "executing" => status'[d] # "executing"
    BY <2>4, OpTyped DEF StartLaunches, Claimable, ControlInv, Begun
  <2>5. CASE Restart
    BY <2>5 DEF Restart
  <2>6. ASSUME NEW c \in Campaigns, Preview(c) \/ Expire(c) \/ FlattenedByHand(c)
                  \/ \E r \in Requests : PrepareReads(r, c) \/ StartReads(r, c) \/ StopReads(r, c)
        PROVE  \A d \in Campaigns : status[d] # "executing" => status'[d] # "executing"
    BY <2>6 DEF Preview, Expire, FlattenedByHand, PrepareReads, StartReads, StopReads
  <2>7. CASE (\E a \in Accounts : BindingChanged(a)) \/ Close \/ RuntimeCloses
             \/ \E k \in Keys : ForeignAppears(k) \/ ForeignLeaves(k)
    BY <2>7 DEF BindingChanged, Close, RuntimeCloses, ForeignAppears, ForeignLeaves
  <2> QED
    BY <1>1, <2>1, <2>2, <2>3, <2>4, <2>5, <2>6, <2>7 DEF Next
<1>2. TypeOK /\ ControlInv /\ [Next]_vars
      => [\A c \in Campaigns : status[c] # "executing" /\ status'[c] = "executing"
            => c \notin launched \/ restarts' # restarts]_vars
  BY <1>1
<1> QED
  BY <1>2, FleetInvariant, PTL DEF Spec, ConfirmationSpentOnce

(***************************************************************************)
(* Answers.                                                                *)
(***************************************************************************)
StartStages == {"retire", "enter", "lease", "boundary", "claim"}

\* An account has one request at a time, and one that starts or retires a campaign
\* is about a campaign that was never launched.
OneRequest ==
    /\ \A r, s \in Requests :
          r # s /\ op[r] # Idle /\ op[s] # Idle => AccountOf[op[r].campaign] # AccountOf[op[s].campaign]
    /\ \A r \in Requests : op[r].at \in StartStages => op[r].campaign \notin launched

Exposed(c) ==
    /\ submitted[c] /\ worker[c] \notin {"prepare", "resume", "idle", "planned"}
    /\ status[c] \in {"executing", "stopping", "recovering"} \/ c \in blind

Answers(c) ==
    /\ Opening(c) => status[c] \in {"executing", "stopping"}
    /\ worker[c] = "opening" => submitted[c]
    /\ c \in own => Exposed(c)
    /\ waiting[c] /\ Opening(c) =>
          worker[c] \in {"idle", "resume"} \/ (worker[c] = "retry" /\ owned[c] = "closing_retry")
    /\ checking[c] \in {"flat", "fills"} => c \notin own

AnswerInv == OneRequest /\ \A c \in Campaigns : Answers(c)

LEMMA OneRequestStays ==
    ASSUME TypeOK, OneRequest, NEW r \in Requests, launched' = launched,
           \A q \in Requests \ {r} : op'[q] = op[q],
           \/ op'[r] = Idle
           \/ /\ op[r] # Idle /\ op'[r].campaign = op[r].campaign
              /\ op'[r].at \in StartStages => op[r].at \in StartStages
    PROVE  OneRequest'
BY DEF OneRequest, Idle, StartStages

LEMMA ActorsAnswer ==
    ASSUME TypeOK, ControlInv, AnswerInv, NEW c \in Campaigns, ActorStep(c)
    PROVE  AnswerInv'
<1> USE FleetAssumption DEF TypeOK, journalVars, processVars, worldVars, history, ControlInv, Key, Apart,
           Begun, Past, Opening, Trading, Exposed
<1>1. op' = op /\ launched' = launched
  BY DEF ActorStep, ActorPrepares, ActorResumes, ActorWaits, ActorReady, ActorPlans,
         ActorSubmits, ActorFills, ActorOpens, ActorCloses, ActorEnds, ActorTurnsToStop,
         ActorSafeStops, ActorLeaves, ActorReleased
<1>2. \A d \in Campaigns : Answers(d)'
  <2>1. CASE ActorPrepares(c)
    BY <2>1 DEF ActorPrepares, Saves, Doubtful, AnswerInv, Answers
  <2>2. CASE ActorResumes(c)
    BY <2>2 DEF ActorResumes, Saves, Doubtful, AnswerInv, Answers
  <2>3. CASE ActorWaits(c)
    BY <2>3 DEF ActorWaits, AnswerInv, Answers
  <2>4. CASE ActorReady(c)
    BY <2>4 DEF ActorReady, AnswerInv, Answers
  <2>5. CASE ActorPlans(c)
    BY <2>5 DEF ActorPlans, AnswerInv, Answers
  <2>6. CASE ActorSubmits(c)
    BY <2>6 DEF ActorSubmits, AnswerInv, Answers
  <2>7. CASE ActorFills(c)
    BY <2>7 DEF ActorFills, AnswerInv, Answers
  <2>8. CASE ActorOpens(c)
    BY <2>8 DEF ActorOpens, AnswerInv, Answers
  <2>9. CASE ActorCloses(c)
    BY <2>9 DEF ActorCloses, Saves, Doubtful, AnswerInv, Answers
  <2>10. CASE ActorEnds(c)
    BY <2>10 DEF ActorEnds, Saves, Doubtful, AnswerInv, Answers
  <2>11. CASE ActorTurnsToStop(c)
    BY <2>11 DEF ActorTurnsToStop, AnswerInv, Answers
  <2>12. CASE ActorSafeStops(c)
    BY <2>12 DEF ActorSafeStops, Saves, Doubtful, AnswerInv, Answers
  <2>13. CASE ActorLeaves(c)
    BY <2>13 DEF ActorLeaves, AnswerInv, Answers
  <2>14. CASE ActorReleased(c)
    BY <2>14 DEF ActorReleased, DropLease, AnswerInv, Answers
  <2> QED
    BY <2>1, <2>2, <2>3, <2>4, <2>5, <2>6, <2>7, <2>8, <2>9, <2>10, <2>11, <2>12, <2>13,
           <2>14 DEF ActorStep
<1> QED
  BY <1>1, <1>2 DEF AnswerInv, OneRequest

LEMMA ChecksAnswer ==
    ASSUME TypeOK, ControlInv, AnswerInv, NEW c \in Campaigns, CheckStep(c)
    PROVE  AnswerInv'
<1> USE FleetAssumption DEF TypeOK, journalVars, processVars, worldVars, history, ControlInv, Key, Apart,
           Begun, Past, Opening, Trading, Exposed
<1>1. op' = op /\ launched' = launched
  BY DEF CheckStep, CheckReads, CheckUnreadable, CheckWrites, CheckArchives
<1>2. \A d \in Campaigns : Answers(d)'
  <2>1. CASE CheckReads(c)
    BY <2>1 DEF CheckReads, CheckDue, Boundary, AnswerInv, Answers, Flat
  <2>2. CASE CheckUnreadable(c)
    BY <2>2 DEF CheckUnreadable, CheckDue, AnswerInv, Answers
  <2>3. CASE CheckWrites(c)
    BY <2>3 DEF CheckWrites, AnswerInv, Answers
  <2>4. CASE CheckArchives(c)
    BY <2>4 DEF CheckArchives, AnswerInv, Answers
  <2> QED
    BY <2>1, <2>2, <2>3, <2>4 DEF CheckStep
<1> QED
  BY <1>1, <1>2 DEF AnswerInv, OneRequest

LEMMA RequestsAnswer ==
    ASSUME TypeOK, ControlInv, AnswerInv, NEW r \in Requests, RequestStep(r), ~StartLaunches(r)
    PROVE  AnswerInv'
<1> USE FleetAssumption DEF TypeOK, journalVars, processVars, worldVars, history, ControlInv, Key, Apart,
           Begun, Past, Opening, Trading, Exposed
<1>1. OneRequest'
  <2>1. CASE PrepareRetires(r)
    <3>1. \/ op'[r] = Idle
          \/ /\ op[r] # Idle /\ op'[r].campaign = op[r].campaign
             /\ op'[r].at \in StartStages => op[r].at \in StartStages
      BY <2>1, OpTyped DEF PrepareRetires, StartStages, Idle
    <3> QED
      BY <2>1, <3>1, OneRequestStays DEF PrepareRetires, AnswerInv
  <2>2. CASE StartEnters(r)
    <3>1. \/ op'[r] = Idle
          \/ /\ op[r] # Idle /\ op'[r].campaign = op[r].campaign
             /\ op'[r].at \in StartStages => op[r].at \in StartStages
      BY <2>2, OpTyped DEF StartEnters, Idle, StartStages
    <3> QED
      BY <2>2, <3>1, OneRequestStays DEF StartEnters, Idle, AnswerInv
  <2>3. CASE StartLeases(r)
    <3>1. \/ op'[r] = Idle
          \/ /\ op[r] # Idle /\ op'[r].campaign = op[r].campaign
             /\ op'[r].at \in StartStages => op[r].at \in StartStages
      BY <2>3, OpTyped DEF StartLeases, Abandon, LetGo, StartStages, Idle
    <3> QED
      BY <2>3, <3>1, OneRequestStays DEF StartLeases, Abandon, LetGo, AnswerInv
  <2>4. CASE StartVerifies(r)
    <3>1. \/ op'[r] = Idle
          \/ /\ op[r] # Idle /\ op'[r].campaign = op[r].campaign
             /\ op'[r].at \in StartStages => op[r].at \in StartStages
      BY <2>4, OpTyped DEF StartVerifies, Abandon, LetGo, StartStages, Idle
    <3> QED
      BY <2>4, <3>1, OneRequestStays DEF StartVerifies, Abandon, LetGo, AnswerInv
  <2>5. CASE StartFails(r)
    <3>1. \/ op'[r] = Idle
          \/ /\ op[r] # Idle /\ op'[r].campaign = op[r].campaign
             /\ op'[r].at \in StartStages => op[r].at \in StartStages
      BY <2>5, OpTyped DEF StartFails, Abandon, LetGo, StartStages, Idle
    <3> QED
      BY <2>5, <3>1, OneRequestStays DEF StartFails, Abandon, LetGo, AnswerInv
  <2>6. CASE StopSignals(r)
    <3>1. \/ op'[r] = Idle
          \/ /\ op[r] # Idle /\ op'[r].campaign = op[r].campaign
             /\ op'[r].at \in StartStages => op[r].at \in StartStages
      BY <2>6, OpTyped DEF StopSignals, StartStages, Idle
    <3> QED
      BY <2>6, <3>1, OneRequestStays DEF StopSignals, AnswerInv
  <2>7. CASE RecoveryStopAdmits(r)
    <3>1. \/ op'[r] = Idle
          \/ /\ op[r] # Idle /\ op'[r].campaign = op[r].campaign
             /\ op'[r].at \in StartStages => op[r].at \in StartStages
      BY <2>7, OpTyped DEF RecoveryStopAdmits, StartStages, Idle
    <3> QED
      BY <2>7, <3>1, OneRequestStays DEF RecoveryStopAdmits, AnswerInv
  <2>8. CASE RecoveryStopLeases(r)
    <3>1. \/ op'[r] = Idle
          \/ /\ op[r] # Idle /\ op'[r].campaign = op[r].campaign
             /\ op'[r].at \in StartStages => op[r].at \in StartStages
      BY <2>8, OpTyped DEF RecoveryStopLeases, RecoveryStopFails, DropLease, StartStages,
             Idle
    <3> QED
      BY <2>8, <3>1, OneRequestStays DEF RecoveryStopLeases, RecoveryStopFails, DropLease,
             AnswerInv
  <2>9. CASE RecoveryStopLaunches(r)
    <3>1. \/ op'[r] = Idle
          \/ /\ op[r] # Idle /\ op'[r].campaign = op[r].campaign
             /\ op'[r].at \in StartStages => op[r].at \in StartStages
      BY <2>9, OpTyped DEF RecoveryStopLaunches, RecoveryStopFails, DropLease, StartStages,
             Idle
    <3> QED
      BY <2>9, <3>1, OneRequestStays DEF RecoveryStopLaunches, RecoveryStopFails, DropLease,
             AnswerInv
  <2>10. CASE StopMarks(r)
    <3>1. \/ op'[r] = Idle
          \/ /\ op[r] # Idle /\ op'[r].campaign = op[r].campaign
             /\ op'[r].at \in StartStages => op[r].at \in StartStages
      BY <2>10, OpTyped DEF StopMarks, StartStages, Idle
    <3> QED
      BY <2>10, <3>1, OneRequestStays DEF StopMarks, AnswerInv
  <2> QED
    BY <2>1, <2>2, <2>3, <2>4, <2>5, <2>6, <2>7, <2>8, <2>9, <2>10 DEF RequestStep
<1>2. \A d \in Campaigns : Answers(d)'
  <2>1. CASE PrepareRetires(r)
    BY <2>1, OpTyped DEF PrepareRetires, AnswerInv, Answers, OneRequest, StartStages, Serves
  <2>2. CASE StartEnters(r)
    BY <2>2, OpTyped DEF StartEnters, Idle, AnswerInv, Answers, OneRequest, StartStages,
           Serves
  <2>3. CASE StartLeases(r)
    BY <2>3, OpTyped DEF StartLeases, Abandon, LetGo, AnswerInv, Answers, OneRequest,
           StartStages, Serves
  <2>4. CASE StartVerifies(r)
    BY <2>4, OpTyped DEF StartVerifies, Abandon, LetGo, AnswerInv, Answers, OneRequest,
           StartStages, Serves
  <2>5. CASE StartFails(r)
    BY <2>5, OpTyped DEF StartFails, Abandon, LetGo, AnswerInv, Answers, OneRequest,
           StartStages, Serves
  <2>6. CASE StopSignals(r)
    BY <2>6, OpTyped DEF StopSignals, AnswerInv, Answers, OneRequest, StartStages, Serves
  <2>7. CASE RecoveryStopAdmits(r)
    BY <2>7, OpTyped DEF RecoveryStopAdmits, AnswerInv, Answers, OneRequest, StartStages,
           Serves
  <2>8. CASE RecoveryStopLeases(r)
    BY <2>8, OpTyped DEF RecoveryStopLeases, RecoveryStopFails, DropLease, AnswerInv,
           Answers, OneRequest, StartStages, Serves
  <2>9. CASE RecoveryStopLaunches(r)
    BY <2>9, OpTyped DEF RecoveryStopLaunches, RecoveryStopFails, DropLease, AnswerInv,
           Answers, OneRequest, StartStages, Serves
  <2>10. CASE StopMarks(r)
    BY <2>10, OpTyped DEF StopMarks, AnswerInv, Answers, OneRequest, StartStages, Serves
  <2> QED
    BY <2>1, <2>2, <2>3, <2>4, <2>5, <2>6, <2>7, <2>8, <2>9, <2>10 DEF RequestStep
<1> QED
  BY <1>1, <1>2 DEF AnswerInv

LEMMA LaunchAnswers ==
    ASSUME TypeOK, ControlInv, AnswerInv, NEW r \in Requests, StartLaunches(r)
    PROVE  AnswerInv'
<1> USE FleetAssumption DEF TypeOK, journalVars, processVars, worldVars, history, ControlInv, Key, Apart,
           Begun, Past, Opening, Trading, Exposed
<1>1. OneRequest'
  <2>1. /\ op' = [op EXCEPT ![r] = Idle] /\ launched' = launched \cup {op[r].campaign}
        /\ op[r].at = "claim" /\ op[r] # Idle
    BY DEF StartLaunches, Idle
  <2>2. \A q \in Requests \ {r} : op'[q] = op[q]
    BY <2>1
  <2>3. \A q \in Requests \ {r} : op[q].at \in StartStages => op[q].campaign # op[r].campaign
    BY <2>1 DEF AnswerInv, OneRequest, StartStages, Idle
  <2>4. op'[r] = Idle /\ op'[r].at = "idle"
    BY <2>1 DEF Idle
  <2> QED
    BY <2>1, <2>2, <2>3, <2>4 DEF AnswerInv, OneRequest, StartStages
<1>2. \A d \in Campaigns : Answers(d)'
  BY OpTyped DEF StartLaunches, Claimable, AnswerInv, Answers
<1> QED
  BY <1>1, <1>2 DEF AnswerInv

LEMMA ArrivalsAnswer ==
    ASSUME TypeOK, ControlInv, AnswerInv, Overlap = {}, NEW c \in Campaigns, NEW r \in Requests,
           PrepareReads(r, c) \/ StartReads(r, c) \/ StopReads(r, c)
    PROVE  AnswerInv'
<1> USE FleetAssumption DEF TypeOK, journalVars, processVars, worldVars, history, ControlInv, Key, Apart,
           Begun, Past, Opening, Trading, Exposed
<1>1. OneRequest'
  <2>1. CASE PrepareReads(r, c)
    BY <2>1 DEF PrepareReads, MayRequest, Busy, AnswerInv, OneRequest, StartStages, Idle
  <2>2. CASE StartReads(r, c)
    BY <2>2 DEF StartReads, MayRequest, Busy, AnswerInv, OneRequest, StartStages, Idle
  <2>3. CASE StopReads(r, c)
    BY <2>3 DEF StopReads, MayRequest, Busy, AnswerInv, OneRequest, StartStages, Idle
  <2> QED
    BY <2>1, <2>2, <2>3
<1>2. \A d \in Campaigns : Answers(d)'
  BY DEF PrepareReads, StartReads, StopReads, AnswerInv, Answers
<1> QED
  BY <1>1, <1>2 DEF AnswerInv

LEMMA RestartAnswers == ASSUME TypeOK, ControlInv, AnswerInv, Restart PROVE AnswerInv'
<1> USE DEF TypeOK, worldVars, ControlInv, Begun, Opening, Trading, Exposed
<1>1. OneRequest'
  BY DEF Restart, OneRequest, StartStages, Idle
<1>2. \A d \in Campaigns : Answers(d)'
  BY DEF Restart, Resumable, AnswerInv, Answers
<1> QED
  BY <1>1, <1>2 DEF AnswerInv

LEMMA OthersAnswer ==
    ASSUME TypeOK, ControlInv, AnswerInv,
           \/ \E c \in Campaigns : Preview(c) \/ Expire(c) \/ FlattenedByHand(c)
           \/ \E a \in Accounts : BindingChanged(a)
           \/ \E k \in Keys : ForeignAppears(k) \/ ForeignLeaves(k)
           \/ Close \/ RuntimeCloses
    PROVE  AnswerInv'
<1> USE FleetAssumption DEF TypeOK, journalVars, processVars, worldVars, history, ControlInv, Key, Apart,
           Begun, Past, Opening, Trading, Exposed
<1>1. op' = op /\ launched' = launched
  BY DEF Preview, Expire, FlattenedByHand, BindingChanged, ForeignAppears, ForeignLeaves, Close,
         RuntimeCloses
<1>2. \A d \in Campaigns : Answers(d)'
  <2>1. CASE \E c \in Campaigns : Preview(c)
    BY <2>1 DEF Preview, AnswerInv, Answers
  <2>2. CASE \E c \in Campaigns : Expire(c)
    BY <2>2 DEF Expire, AnswerInv, Answers
  <2>3. CASE \E c \in Campaigns : FlattenedByHand(c)
    BY <2>3 DEF FlattenedByHand, AnswerInv, Answers
  <2>4. CASE \E a \in Accounts : BindingChanged(a)
    BY <2>4 DEF BindingChanged, AnswerInv, Answers
  <2>5. CASE \E k \in Keys : ForeignAppears(k) \/ ForeignLeaves(k)
    BY <2>5 DEF ForeignAppears, ForeignLeaves, AnswerInv, Answers
  <2>6. CASE Close \/ RuntimeCloses
    BY <2>6 DEF Close, RuntimeCloses, AnswerInv, Answers
  <2> QED
    BY <2>1, <2>2, <2>3, <2>4, <2>5, <2>6
<1> QED
  BY <1>1, <1>2 DEF AnswerInv, OneRequest

LEMMA NextAnswers ==
    ASSUME Overlap = {}
    PROVE  TypeOK /\ ControlInv /\ AnswerInv /\ [Next]_vars => AnswerInv'
<1> SUFFICES ASSUME TypeOK, ControlInv, AnswerInv, [Next]_vars PROVE AnswerInv'
  OBVIOUS
<1>1. CASE UNCHANGED vars
  BY <1>1 DEF AnswerInv, OneRequest, Answers, Exposed, Opening, Trading, vars, journalVars, processVars,
         worldVars, history
<1>2. CASE Next
  <2>1. \A r \in Requests : RequestStep(r) => AnswerInv'
    BY RequestsAnswer, LaunchAnswers
  <2> QED
    BY <1>2, <2>1, ActorsAnswer, ChecksAnswer, ArrivalsAnswer, RestartAnswers, OthersAnswer DEF Next
<1> QED
  BY <1>1, <1>2

LEMMA InitAnswers == Init => AnswerInv
BY DEF Init, AnswerInv, OneRequest, StartStages, Answers, Exposed, Opening, Trading, Idle

\* While a client waits for the answer to a request before it sends the next one for the
\* same account, an actor that may open positions can be stopped, and a campaign with an
\* open position stays among the active ones, but for the two ways an actor has of
\* saving "stopped" without having seen its account flat.
THEOREM CampaignsAnswer == ASSUME Overlap = {} PROVE Spec => []ActorsAnswerable
<1>1. Spec => [](TypeOK /\ ControlInv /\ AnswerInv)
  BY InitControl, InitAnswers, NextTyped, NextControl, NextAnswers, PTL DEF Spec
<1>2. TypeOK /\ ControlInv /\ AnswerInv => ActorsAnswerable
  BY DEF ControlInv, Begun, AnswerInv, Answers, Exposed, ActorsAnswerable, OpenerIsStoppable,
         ExposureStaysActive, TypeOK
<1> QED
  BY <1>1, <1>2, PTL
=============================================================================
