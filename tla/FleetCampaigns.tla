--------------------------- MODULE FleetCampaigns ---------------------------
(***************************************************************************)
(* The campaign manager of the control plane (fleet_api/campaigns/manager) *)
(* with what it shares its campaigns with: the journal, the per-API-key    *)
(* lock files, the admission of ExecutionCapacity, the actors it starts,   *)
(* the recovery loop of fleet_api/strategy and a restart of the process.   *)
(*                                                                         *)
(* Requests arrive over HTTP and run in threads of their own              *)
(* (asyncio.to_thread), so every request is a little process: its steps   *)
(* are the stretches between two of lock, journal, account and lease.  An  *)
(* actor is abstracted to what the manager can see of it: what it persists *)
(* about its cycle, whether it has submitted, the exposure it leaves and   *)
(* the outcome it saves.  Events, balances and wording are left out.       *)
(***************************************************************************)
EXTENDS Naturals, FiniteSets

CONSTANTS
    Campaigns,
    Accounts, AccountOf,    \* AccountOf[c]: the account instance of campaign c
    Keys, KeyOf,            \* KeyOf[a]: the API key the credentials of a name
    Requests,               \* threads that serve client requests
    MaxActive,              \* max_active_executions
    MaxRestarts,            \* bound: restarts of the control plane
    MaxRounds,              \* bound: positions the actors open, all together
    Expirable,              \* bound: campaigns whose authorization may run out
    Meddled,                \* bound: keys on which something else may trade
    Overlap,                \* bound: accounts a client may send a second request for
                            \* before the first one was answered
    Free

ASSUME FleetAssumption ==
    /\ AccountOf \in [Campaigns -> Accounts]
    /\ KeyOf \in [Accounts -> Keys]
    /\ MaxActive \in Nat /\ MaxRestarts \in Nat /\ MaxRounds \in Nat
    /\ Expirable \subseteq Campaigns /\ Meddled \subseteq Keys
    /\ Overlap \subseteq Accounts
    /\ Campaigns \cap Requests = {} /\ Free \notin Campaigns \cup Requests

VARIABLES
    \* the journal
    status,     \* BetaCampaignStatus, "absent" before the preview
    submitted,  \* an order_submission_attempted event is stored
    owned,      \* state of execution_ownership, "none" when there is none
    waiting,    \* the stored phase is condition_waiting
    proven,     \* recovery_boundary_state
    \* the files and the process
    flock,      \* who holds the lock file of an API key
    starting,   \* _starting
    admitted,   \* ExecutionCapacity._admitted
    stops,      \* campaigns with an event in _stops
    closing,    \* "no", "closing" (the manager's _closing), "closed" (the runtime's _closed)
    op,         \* what each request thread is doing
    worker,     \* where the actor of a campaign stands
    asked,      \* actors whose stop event is set
    checking,   \* what the recovery check of a campaign has read
    \* the account, the clock and history
    own,        \* campaigns whose own position is still open
    foreign,    \* keys with a position or order the fleet did not make
    expired,    \* campaigns past expires_at_ms
    launched,   \* campaigns that were started from a confirmation
    blind,      \* campaigns whose actor gave up without having seen its account flat
    rounds, restarts

journalVars == <<status, submitted, owned, waiting, proven>>
processVars == <<flock, starting, admitted, stops, closing>>
worldVars   == <<own, foreign, expired>>
history     == <<launched, blind, rounds, restarts>>
vars == <<journalVars, processVars, op, worker, asked, checking, worldVars, history>>

Key(c) == KeyOf[AccountOf[c]]
Active == {"planned", "executing", "stopping", "recovering"}

ActiveCampaigns(a) == {c \in Campaigns : AccountOf[c] = a /\ status[c] \in Active}

\* The actor is registered with the runtime; its future is not done.
Running(c) == worker[c] \notin {"none", "released"}

HasActiveWorker(a) ==
    \E c \in Campaigns : AccountOf[c] = a /\ (c \in starting \/ Running(c))

Flat(k) == k \notin foreign /\ \A c \in own : Key(c) # k

Idle == [at |-> "idle"]

Busy(a) == \E r \in Requests : op[r] # Idle /\ AccountOf[op[r].campaign] = a

\* A client sends the next request for an account once the last one is answered,
\* unless requests overlap.
MayRequest(r, c) == op[r] = Idle /\ (AccountOf[c] \in Overlap \/ ~Busy(AccountOf[c]))

\* The lease stored in _leases is the lock file held in the campaign's own name;
\* forgetting the lease closes the file.
DropLease(c) == [k \in Keys |-> IF flock[k] = c THEN Free ELSE flock[k]]
\* Mutant: the account's lock file is freed, whoever holds it.
LetGoAnyway(r) == [k \in Keys |-> IF k = Key(op[r].campaign) THEN Free ELSE flock[k]]
LetGo(r)     == [k \in Keys |-> IF flock[k] = r THEN Free ELSE flock[k]]

-----------------------------------------------------------------------------
(* Previews                                                                *)

Preview(c) ==
    /\ status[c] = "absent"
    /\ ActiveCampaigns(AccountOf[c]) = {}
    /\ Flat(Key(c))
    /\ status' = [status EXCEPT ![c] = "planned"]
    /\ UNCHANGED <<submitted, owned, waiting, proven, processVars, op, worker, asked,
                   checking, worldVars, history>>

\* Mutant: every active campaign of the account is retired.
BindingRetiresAll(a) ==
    /\ ActiveCampaigns(a) # {}
    /\ status' = [c \in Campaigns |-> IF c \in ActiveCampaigns(a) THEN "stopped" ELSE status[c]]
    /\ UNCHANGED <<submitted, owned, waiting, proven, processVars, op, worker, asked,
                   checking, worldVars, history>>

\* A changed binding retires the previews made for the old one, unless one of
\* the account's executions is under way.
BindingChanged(a) ==
    /\ \A c \in Campaigns :
          AccountOf[c] = a => status[c] \notin {"executing", "stopping", "recovering"}
    /\ \E c \in Campaigns : AccountOf[c] = a /\ status[c] = "planned"
    /\ status' = [c \in Campaigns |->
                    IF AccountOf[c] = a /\ status[c] = "planned" THEN "stopped" ELSE status[c]]
    /\ UNCHANGED <<submitted, owned, waiting, proven, processVars, op, worker, asked,
                   checking, worldVars, history>>

\* Opening the launch dialogue retires a preview that has expired.
PrepareReads(r, c) ==
    /\ MayRequest(r, c)
    /\ status[c] = "planned" /\ c \in expired
    /\ ~HasActiveWorker(AccountOf[c])
    /\ op' = [op EXCEPT ![r] = [at |-> "retire", campaign |-> c]]
    /\ UNCHANGED <<journalVars, processVars, worker, asked, checking, worldVars, history>>

PrepareRetires(r) ==
    /\ op[r].at = "retire"
    /\ status' = [status EXCEPT ![op[r].campaign] = "stopped"]
    /\ op' = [op EXCEPT ![r] = Idle]
    /\ UNCHANGED <<submitted, owned, waiting, proven, processVars, worker, asked,
                   checking, worldVars, history>>

-----------------------------------------------------------------------------
(* start                                                                   *)

StartReads(r, c) ==
    /\ MayRequest(r, c)
    /\ status[c] = "planned"
    /\ op' = [op EXCEPT ![r] = [at |-> "enter", campaign |-> c]]
    /\ UNCHANGED <<journalVars, processVars, worker, asked, checking, worldVars, history>>

Admissible(c) == c \in admitted \/ Cardinality(admitted) < MaxActive

StartEnters(r) ==
    LET c == op[r].campaign
        refused == closing # "no" \/ c \in starting \/ ~Admissible(c)
    IN  /\ op[r].at = "enter"
        /\ op' = [op EXCEPT ![r] = IF refused THEN Idle ELSE [at |-> "lease", campaign |-> c]]
        /\ starting' = IF refused THEN starting ELSE starting \cup {c}
        /\ admitted' = IF refused THEN admitted ELSE admitted \cup {c}
        /\ UNCHANGED <<journalVars, flock, stops, closing, worker, asked, checking,
                       worldVars, history>>

\* The finally clause of a start that launched nothing.
Abandon(r) ==
    LET c == op[r].campaign
    IN  /\ starting' = starting \ {c}
        /\ flock' = LetGo(r)
        /\ admitted' = admitted \ {c}
        /\ op' = [op EXCEPT ![r] = Idle]

\* Expired; or the lock file is taken; or the confirmation does not match, the
\* credentials are gone or another campaign holds the account.
StartLeases(r) ==
    LET c == op[r].campaign
    IN  /\ op[r].at = "lease"
        /\ IF c \in expired
           THEN /\ status' = [status EXCEPT ![c] = "stopped"]
                /\ Abandon(r)
           ELSE /\ UNCHANGED status
                /\ \/ /\ flock[Key(c)] = Free
                      /\ flock' = [flock EXCEPT ![Key(c)] = r]
                      /\ op' = [op EXCEPT ![r] = [at |-> "boundary", campaign |-> c]]
                      /\ UNCHANGED <<starting, admitted>>
                   \/ Abandon(r)
        /\ UNCHANGED <<submitted, owned, waiting, proven, stops, closing, worker, asked,
                       checking, worldVars, history>>

\* _verify_execution_boundary: flat, or the read failed or showed something.
StartVerifies(r) ==
    LET c == op[r].campaign
    IN  /\ op[r].at = "boundary"
        /\ \/ /\ Flat(Key(c))
              /\ op' = [op EXCEPT ![r] = [at |-> "claim", campaign |-> c]]
              /\ UNCHANGED <<status, flock, starting, admitted>>
           \/ /\ status' = [status EXCEPT ![c] = "stopped"]
              /\ Abandon(r)
        /\ UNCHANGED <<submitted, owned, waiting, proven, stops, closing, worker, asked,
                       checking, worldVars, history>>

\* Mutant: whatever does not run may be claimed.
ClaimableUnlessRunning(c) == status[c] \notin {"executing", "stopping"}
Claimable(c) == status[c] = "planned"

\* Under the manager's lock: claim_execution, the session callback, the actor.
StartLaunches(r) ==
    LET c == op[r].campaign
    IN  /\ op[r].at = "claim"
        /\ Claimable(c) /\ closing # "closed"
        /\ status' = [status EXCEPT ![c] = "executing"]
        /\ launched' = launched \cup {c}
        /\ stops' = stops \cup {c}
        /\ flock' = [flock EXCEPT ![Key(c)] = c]
        /\ worker' = [worker EXCEPT ![c] = "prepare"]
        /\ asked' = asked \ {c}
        /\ starting' = starting \ {c}
        /\ op' = [op EXCEPT ![r] = Idle]
        /\ UNCHANGED <<submitted, owned, waiting, proven, admitted, closing, checking,
                       worldVars, blind, rounds, restarts>>

\* The campaign was claimed already; or the callback or the runtime refused,
\* which spends the claim and stops the campaign.
StartFails(r) ==
    LET c == op[r].campaign
    IN  /\ op[r].at = "claim"
        /\ status' = [status EXCEPT ![c] = IF @ = "planned" THEN "stopped" ELSE @]
        /\ Abandon(r)
        /\ UNCHANGED <<submitted, owned, waiting, proven, stops, closing, worker, asked,
                       checking, worldVars, history>>

-----------------------------------------------------------------------------
(* stop                                                                    *)

StopReads(r, c) ==
    /\ MayRequest(r, c)
    /\ status[c] \in {"executing", "stopping", "recovering"}
    /\ op' = [op EXCEPT ![r] =
                [at |-> "signal", campaign |-> c,
                 recovering |-> status[c] = "recovering",
                 ours |-> proven[c] = "owned_exposure",
                 plan |-> owned[c] \in {"opened", "uncertain", "closed"}]]
    /\ UNCHANGED <<journalVars, processVars, worker, asked, checking, worldVars, history>>

\* Under the lock: set the stop event, if the campaign has one.
StopSignals(r) ==
    LET q == op[r]
    IN  /\ q.at = "signal"
        /\ asked' = IF q.campaign \in stops THEN asked \cup {q.campaign} ELSE asked
        /\ op' = [op EXCEPT ![r] =
                    CASE q.recovering -> [q EXCEPT !.at = "admit"]
                      [] ~q.recovering /\ q.campaign \in stops -> [q EXCEPT !.at = "mark"]
                      [] OTHER -> Idle]
        /\ UNCHANGED <<journalVars, processVars, worker, checking, worldVars, history>>

\* _start_recovery_stop, up to the lease.
RecoveryStopAdmits(r) ==
    LET q == op[r]
        refused == ~q.ours \/ ~Admissible(q.campaign)
    IN  /\ q.at = "admit"
        /\ admitted' = IF refused THEN admitted ELSE admitted \cup {q.campaign}
        /\ op' = [op EXCEPT ![r] = IF refused THEN Idle ELSE [q EXCEPT !.at = "own"]]
        /\ UNCHANGED <<journalVars, flock, starting, stops, closing, worker, asked,
                       checking, worldVars, history>>

\* Its exception handler: it forgets whatever stop event and lease the campaign has.
RecoveryStopFails(r) ==
    LET c == op[r].campaign
    IN  /\ stops' = stops \ {c}
        /\ flock' = DropLease(c)
        /\ admitted' = admitted \ {c}
        /\ op' = [op EXCEPT ![r] = Idle]

RecoveryStopLeases(r) ==
    LET q == op[r]
    IN  /\ q.at = "own"
        /\ IF flock[Key(q.campaign)] = Free
           THEN /\ flock' = [flock EXCEPT ![Key(q.campaign)] = q.campaign]
                /\ stops' = stops \cup {q.campaign}
                /\ op' = [op EXCEPT ![r] = [q EXCEPT !.at = "launch"]]
                /\ UNCHANGED admitted
           ELSE RecoveryStopFails(r)
        /\ UNCHANGED <<journalVars, starting, closing, worker, asked, checking,
                       worldVars, history>>

\* _start_recovery_actor needs the stored plan and a runtime without an actor of
\* that name; reading the plan may fail.
RecoveryStopLaunches(r) ==
    LET q == op[r]
    IN  /\ q.at = "launch"
        /\ \/ /\ q.plan /\ worker[q.campaign] = "none" /\ closing # "closed"
              /\ worker' = [worker EXCEPT ![q.campaign] = "recover"]
              /\ asked' = asked \cup {q.campaign}
              /\ op' = [op EXCEPT ![r] = [q EXCEPT !.at = "mark"]]
              /\ UNCHANGED <<stops, flock, admitted>>
           \/ /\ RecoveryStopFails(r)
              /\ UNCHANGED <<worker, asked>>
        /\ UNCHANGED <<journalVars, starting, closing, checking, worldVars, history>>

\* The last step of stop writes whatever the campaign has become since.
StopMarks(r) ==
    /\ op[r].at = "mark"
    /\ status' = [status EXCEPT ![op[r].campaign] = "stopping"]
    /\ op' = [op EXCEPT ![r] = Idle]
    /\ UNCHANGED <<submitted, owned, waiting, proven, processVars, worker, asked,
                   checking, worldVars, history>>

-----------------------------------------------------------------------------
(* The actor, as far as the manager sees it                                *)

\* Mutant: the uncertain outcome counts as stopped.
DoubtfulStopped(c) == IF owned[c] = "opened" THEN "recovering" ELSE "stopped"
\* _actor_failed, and _actor_completed of an uncertain result: what becomes of
\* the campaign depends on whether the journal crossed the mutation boundary.
Doubtful(c) == IF submitted[c] THEN "recovering" ELSE "stopped"

Saves(c, outcome) ==
    /\ status' = [status EXCEPT ![c] = outcome]
    /\ worker' = [worker EXCEPT ![c] = "ended"]
    /\ waiting' = [waiting EXCEPT ![c] = FALSE]

ActorPrepares(c) ==
    /\ worker[c] = "prepare"
    /\ \/ /\ worker' = [worker EXCEPT ![c] = "idle"]
          /\ UNCHANGED <<status, waiting>>
       \/ Saves(c, Doubtful(c))
    /\ UNCHANGED <<submitted, owned, proven, processVars, op, asked, checking, worldVars, history>>

\* A resumed actor claims the campaign file a second time, which is refused.
ActorResumes(c) ==
    /\ worker[c] = "resume"
    /\ Saves(c, Doubtful(c))
    /\ UNCHANGED <<submitted, owned, proven, processVars, op, asked, checking, worldVars, history>>

\* A read-only condition is not met: the actor sleeps, flat.
ActorWaits(c) ==
    /\ worker[c] = "idle" /\ c \notin asked /\ ~waiting[c]
    /\ waiting' = [waiting EXCEPT ![c] = TRUE]
    /\ UNCHANGED <<status, submitted, owned, proven, processVars, op, worker, asked,
                   checking, worldVars, history>>

ActorReady(c) ==
    /\ worker[c] = "idle" /\ c \notin asked /\ waiting[c]
    /\ waiting' = [waiting EXCEPT ![c] = FALSE]
    /\ UNCHANGED <<status, submitted, owned, proven, processVars, op, worker, asked,
                   checking, worldVars, history>>

ActorPlans(c) ==
    /\ worker[c] = "idle" /\ c \notin asked /\ ~waiting[c]
    /\ worker' = [worker EXCEPT ![c] = "planned"]
    /\ owned' = [owned EXCEPT ![c] = "planned"]
    /\ UNCHANGED <<status, submitted, waiting, proven, processVars, op, asked, checking,
                   worldVars, history>>

\* The attempt is journalled before the order leaves.
ActorSubmits(c) ==
    /\ worker[c] = "planned" /\ rounds < MaxRounds
    /\ worker' = [worker EXCEPT ![c] = "opening"]
    /\ submitted' = [submitted EXCEPT ![c] = TRUE]
    /\ rounds' = rounds + 1
    /\ UNCHANGED <<status, owned, waiting, proven, processVars, op, asked, checking,
                   worldVars, launched, blind, restarts>>

ActorFills(c) ==
    /\ worker[c] = "opening" /\ c \notin own
    /\ own' = own \cup {c}
    /\ UNCHANGED <<journalVars, processVars, op, worker, asked, checking, foreign, expired, history>>

ActorOpens(c) ==
    /\ worker[c] = "opening"
    /\ worker' = [worker EXCEPT ![c] = "open"]
    /\ owned' = [owned EXCEPT ![c] = "opened"]
    /\ UNCHANGED <<status, submitted, waiting, proven, processVars, op, asked, checking,
                   worldVars, history>>

\* The close phase, with the ownership state it persists: flat and on to the next
\* round or done (uncertain when the last look at the account fails); not provably
\* flat; given up although it was not seen flat; or worth another attempt.
ActorCloses(c) ==
    /\ worker[c] \in {"open", "retry"} /\ c \notin asked
    /\ \/ /\ own' = own \ {c}
          /\ owned' = [owned EXCEPT ![c] = "closed"]
          /\ \/ /\ worker' = [worker EXCEPT ![c] = "idle"]
                /\ waiting' = [waiting EXCEPT ![c] = FALSE]
                /\ UNCHANGED status
             \/ \E outcome \in {"completed", "stopped", Doubtful(c)} : Saves(c, outcome)
          /\ UNCHANGED blind
       \/ /\ own' \in {own, own \ {c}}
          /\ owned' = [owned EXCEPT ![c] = "uncertain"]
          /\ Saves(c, Doubtful(c))
          /\ UNCHANGED blind
       \/ /\ own' \in {own, own \ {c}}
          /\ owned' = [owned EXCEPT ![c] = "closed"]
          /\ Saves(c, "stopped")
          /\ blind' = blind \cup {c}
       \/ /\ owned' = [owned EXCEPT ![c] = "closing_retry"]
          /\ waiting' = [waiting EXCEPT ![c] = TRUE]
          /\ worker' = [worker EXCEPT ![c] = "retry"]
          /\ UNCHANGED <<own, status, blind>>
    /\ UNCHANGED <<submitted, proven, processVars, op, asked, checking, foreign, expired,
                   launched, rounds, restarts>>

\* Between two rounds a stop, or an exception, ends the actor as it stands.
ActorEnds(c) ==
    /\ worker[c] = "idle"
    /\ \E outcome \in {"stopped", Doubtful(c)} : Saves(c, outcome)
    /\ UNCHANGED <<submitted, owned, proven, processVars, op, asked, checking, worldVars, history>>

\* With a planned or open cycle a stop or an exception leads to the safe stop.
ActorTurnsToStop(c) ==
    /\ worker[c] \in {"planned", "opening", "open", "retry"}
    /\ worker' = [worker EXCEPT ![c] = "stopping"]
    /\ waiting' = [waiting EXCEPT ![c] = FALSE]
    /\ UNCHANGED <<status, submitted, owned, proven, processVars, op, asked, checking,
                   worldVars, history>>

\* The safe stop closes what is proven to be the cycle's.  When it raises, the
\* actor saves "stopped" without another look at the account; the recovery
\* program leaves the classification to the manager.
ActorSafeStops(c) ==
    /\ worker[c] \in {"stopping", "recover"}
    /\ \/ /\ own' = own \ {c}
          /\ owned' = [owned EXCEPT ![c] = "closed"]
          /\ \E outcome \in {"stopped", Doubtful(c)} : Saves(c, outcome)
          /\ UNCHANGED blind
       \/ /\ own' \in {own, own \ {c}}
          /\ owned' = [owned EXCEPT ![c] = "uncertain"]
          /\ Saves(c, Doubtful(c))
          /\ UNCHANGED blind
       \/ /\ worker[c] = "stopping"
          /\ Saves(c, "stopped")
          /\ blind' = blind \cup {c}
          /\ UNCHANGED <<own, owned>>
       \/ /\ worker[c] = "recover"
          /\ Saves(c, Doubtful(c))
          /\ UNCHANGED <<own, owned, blind>>
    /\ UNCHANGED <<submitted, proven, processVars, op, asked, checking, foreign, expired,
                   launched, rounds, restarts>>

\* The runtime gives up the admission and forgets the actor...
ActorLeaves(c) ==
    /\ worker[c] = "ended"
    /\ worker' = [worker EXCEPT ![c] = "released"]
    /\ admitted' = admitted \ {c}
    /\ UNCHANGED <<journalVars, flock, starting, stops, closing, op, asked, checking,
                   worldVars, history>>

\* ... and the future's callback, _release_actor, frees the account.
ActorReleased(c) ==
    /\ worker[c] = "released"
    /\ worker' = [worker EXCEPT ![c] = "none"]
    /\ stops' = stops \ {c}
    /\ flock' = DropLease(c)
    /\ asked' = asked \ {c}
    /\ UNCHANGED <<journalVars, starting, admitted, closing, op, checking, worldVars, history>>

ActorStep(c) ==
    \/ ActorPrepares(c) \/ ActorResumes(c) \/ ActorWaits(c) \/ ActorReady(c)
    \/ ActorPlans(c) \/ ActorSubmits(c) \/ ActorFills(c) \/ ActorOpens(c) \/ ActorCloses(c)
    \/ ActorEnds(c) \/ ActorTurnsToStop(c) \/ ActorSafeStops(c)
    \/ ActorLeaves(c) \/ ActorReleased(c)

-----------------------------------------------------------------------------
(* The recovery loop                                                       *)

\* boundary_state: a position is the campaign's when the ownership it stored
\* covers it; a cycle that is only planned covers nothing.
Boundary(c) ==
    IF Flat(Key(c)) THEN {"flat"}
    ELSE IF Key(c) \in foreign \/ own \cap {d \in Campaigns : Key(d) = Key(c)} # {c}
         THEN {"external_exposure"}
    ELSE CASE owned[c] \in {"opened", "closing_retry"} -> {"owned_exposure"}
           [] owned[c] = "uncertain" -> {"owned_exposure", "external_exposure"}
           [] OTHER -> {"external_exposure"}

\* Mutant: only the first check is ever due.
CheckDueOnce(c) ==
    checking[c] = "none" /\ status[c] = "recovering" /\ proven[c] = "none"
\* One check per campaign at a time: when it is due and the account has no
\* worker, or right when the actor has saved its outcome.
CheckDue(c) ==
    /\ checking[c] = "none" /\ status[c] = "recovering"
    /\ ~HasActiveWorker(AccountOf[c]) \/ worker[c] = "ended"

CheckReads(c) ==
    /\ CheckDue(c)
    /\ \E seen \in Boundary(c) : checking' = [checking EXCEPT ![c] = seen]
    /\ UNCHANGED <<journalVars, processVars, op, worker, asked, worldVars, history>>

CheckUnreadable(c) ==
    /\ CheckDue(c)
    /\ proven' = [proven EXCEPT ![c] = "unknown"]
    /\ UNCHANGED <<status, submitted, owned, waiting, processVars, op, worker, asked,
                   checking, worldVars, history>>

\* Flat: a campaign that never submitted is done; one that did first waits for
\* its fills.  Not flat: the check is repeated later.
CheckWrites(c) ==
    /\ checking[c] \notin {"none", "fills"}
    /\ proven' = [proven EXCEPT ![c] = checking[c]]
    /\ LET flat == checking[c] = "flat"
       IN  /\ status' = [status EXCEPT ![c] = IF flat /\ ~submitted[c] THEN "stopped" ELSE @]
           /\ checking' = [checking EXCEPT ![c] = IF flat /\ submitted[c] THEN "fills" ELSE "none"]
    /\ UNCHANGED <<submitted, owned, waiting, processVars, op, worker, asked, worldVars, history>>

\* archive_bound_strategy_recovery, with the record the check began with.
CheckArchives(c) ==
    /\ checking[c] = "fills"
    /\ status' = [status EXCEPT ![c] = "stopped"]
    /\ checking' = [checking EXCEPT ![c] = "none"]
    /\ UNCHANGED <<submitted, owned, waiting, proven, processVars, op, worker, asked,
                   worldVars, history>>

-----------------------------------------------------------------------------
(* Shutdown, restart, the account and the clock                            *)

Close ==
    /\ closing = "no" /\ restarts < MaxRestarts
    /\ closing' = "closing"
    /\ asked' = asked \cup stops
    /\ UNCHANGED <<journalVars, flock, starting, admitted, stops, op, worker, checking,
                   worldVars, history>>

\* Mutant: only the manager's own stop events are set.
RuntimeClosesUnasked ==
    /\ closing = "closing"
    /\ closing' = "closed"
    /\ UNCHANGED <<journalVars, flock, starting, admitted, stops, op, worker, asked, checking,
                   worldVars, history>>

\* The runtime refuses new actors, asks all of its own to stop and waits for them.
RuntimeCloses ==
    /\ closing = "closing"
    /\ closing' = "closed"
    /\ asked' = asked \cup {c \in Campaigns : Running(c)}
    /\ UNCHANGED <<journalVars, flock, starting, admitted, stops, op, worker, checking,
                   worldVars, history>>

\* _can_resume_condition_wait, evaluated before recover_incomplete.
Resumable(c) ==
    /\ status[c] = "executing" /\ waiting[c]
    /\ IF owned[c] = "none" THEN ~submitted[c] ELSE owned[c] \in {"planned", "closed"}

\* The process dies, at any moment or at the end of a shutdown, and the next one
\* recovers the journal.  Lock files are released with the process.
Restart ==
    /\ restarts < MaxRestarts
    /\ restarts' = restarts + 1
    /\ \E R \in SUBSET {c \in Campaigns : Resumable(c)} :
          /\ Cardinality(R) <= MaxActive
          /\ \A c, d \in R : c # d => Key(c) # Key(d)
          /\ status' = [c \in Campaigns |->
                IF status[c] \in {"executing", "stopping"} /\ c \notin R
                THEN "recovering" ELSE status[c]]
          /\ worker' = [c \in Campaigns |-> IF c \in R THEN "resume" ELSE "none"]
          /\ flock' = [k \in Keys |->
                IF \E c \in R : Key(c) = k THEN CHOOSE c \in R : Key(c) = k ELSE Free]
          /\ stops' = R
          /\ admitted' = R
    /\ starting' = {} /\ asked' = {} /\ closing' = "no"
    /\ op' = [r \in Requests |-> Idle]
    /\ checking' = [c \in Campaigns |-> "none"]
    /\ UNCHANGED <<submitted, owned, waiting, proven, worldVars, launched, blind, rounds>>

Expire(c) ==
    /\ c \in Expirable \ expired /\ status[c] = "planned"
    /\ expired' = expired \cup {c}
    /\ UNCHANGED <<journalVars, processVars, op, worker, asked, checking, own, foreign, history>>

ForeignAppears(k) ==
    /\ k \in Meddled \ foreign
    /\ foreign' = foreign \cup {k}
    /\ UNCHANGED <<journalVars, processVars, op, worker, asked, checking, own, expired, history>>

ForeignLeaves(k) ==
    /\ k \in foreign
    /\ foreign' = foreign \ {k}
    /\ UNCHANGED <<journalVars, processVars, op, worker, asked, checking, own, expired, history>>

\* The operator closes by hand what a campaign left behind.
FlattenedByHand(c) ==
    /\ c \in own /\ ~Running(c)
    /\ own' = own \ {c}
    /\ UNCHANGED <<journalVars, processVars, op, worker, asked, checking, foreign, expired, history>>

-----------------------------------------------------------------------------
Init ==
    /\ status = [c \in Campaigns |-> "absent"]
    /\ submitted = [c \in Campaigns |-> FALSE]
    /\ owned = [c \in Campaigns |-> "none"]
    /\ waiting = [c \in Campaigns |-> FALSE]
    /\ proven = [c \in Campaigns |-> "none"]
    /\ flock = [k \in Keys |-> Free]
    /\ starting = {} /\ admitted = {} /\ stops = {} /\ asked = {}
    /\ closing = "no"
    /\ op = [r \in Requests |-> Idle]
    /\ worker = [c \in Campaigns |-> "none"]
    /\ checking = [c \in Campaigns |-> "none"]
    /\ own = {} /\ foreign = {} /\ expired = {}
    /\ launched = {} /\ blind = {} /\ rounds = 0 /\ restarts = 0

RequestStep(r) ==
    \/ PrepareRetires(r)
    \/ StartEnters(r) \/ StartLeases(r) \/ StartVerifies(r) \/ StartLaunches(r) \/ StartFails(r)
    \/ StopSignals(r) \/ RecoveryStopAdmits(r) \/ RecoveryStopLeases(r)
    \/ RecoveryStopLaunches(r) \/ StopMarks(r)

CheckStep(c) == CheckReads(c) \/ CheckUnreadable(c) \/ CheckWrites(c) \/ CheckArchives(c)

Next ==
    \/ \E c \in Campaigns :
          \/ Preview(c) \/ Expire(c) \/ ActorStep(c) \/ CheckStep(c) \/ FlattenedByHand(c)
          \/ \E r \in Requests : PrepareReads(r, c) \/ StartReads(r, c) \/ StopReads(r, c)
    \/ \E r \in Requests : RequestStep(r)
    \/ \E a \in Accounts : BindingChanged(a)
    \/ \E k \in Keys : ForeignAppears(k) \/ ForeignLeaves(k)
    \/ Close \/ RuntimeCloses \/ Restart

\* Threads, the actors' event loop and the recovery loop are scheduled again and
\* again, and among the reads of an account some succeed.
Fairness ==
    /\ \A r \in Requests : WF_vars(RequestStep(r))
    /\ WF_vars(RuntimeCloses)
    /\ \A c \in Campaigns :
          /\ WF_vars(ActorStep(c))
          /\ SF_vars(CheckReads(c)) /\ WF_vars(CheckWrites(c)) /\ WF_vars(CheckArchives(c))

Spec == Init /\ [][Next]_vars /\ Fairness

-----------------------------------------------------------------------------
(* Properties                                                              *)

WorkerStates ==
    {"none", "prepare", "resume", "idle", "planned", "opening", "open", "retry",
     "stopping", "recover", "ended", "released"}

Requested ==
    {Idle}
    \cup [at : {"retire", "enter", "lease", "boundary", "claim"}, campaign : Campaigns]
    \cup [at : {"signal", "admit", "own", "launch", "mark"}, campaign : Campaigns,
          recovering : BOOLEAN, ours : BOOLEAN, plan : BOOLEAN]

TypeOK ==
    /\ status \in [Campaigns -> Active \cup {"absent", "completed", "stopped"}]
    /\ submitted \in [Campaigns -> BOOLEAN]
    /\ owned \in [Campaigns -> {"none", "planned", "opened", "closing_retry", "closed", "uncertain"}]
    /\ waiting \in [Campaigns -> BOOLEAN]
    /\ proven \in [Campaigns -> {"none", "unknown", "flat", "owned_exposure", "external_exposure"}]
    /\ flock \in [Keys -> {Free} \cup Campaigns \cup Requests]
    /\ starting \subseteq Campaigns /\ admitted \subseteq Campaigns
    /\ stops \subseteq Campaigns /\ asked \subseteq Campaigns
    /\ closing \in {"no", "closing", "closed"}
    /\ op \in [Requests -> Requested]
    /\ worker \in [Campaigns -> WorkerStates]
    /\ checking \in [Campaigns -> {"none", "fills", "flat", "owned_exposure", "external_exposure"}]
    /\ own \subseteq Campaigns /\ foreign \subseteq Keys /\ expired \subseteq Campaigns
    /\ launched \subseteq Campaigns /\ blind \subseteq Campaigns
    /\ rounds \in 0..MaxRounds /\ restarts \in 0..MaxRestarts

\* Actors that may still send an order.
Trading(c) == worker[c] \notin {"none", "ended", "released"}
Opening(c) == Trading(c) /\ worker[c] # "recover"

\* Two actors that open positions never work on the same API key, whichever
\* accounts name it and whatever starts, stops and restarts come together: the
\* lock file is taken before the account is looked at and kept until the actor is
\* gone (campaign_contracts.py, _AccountLease).
OneOpenerPerKey ==
    \A c, d \in Campaigns : Opening(c) /\ Opening(d) /\ Key(c) = Key(d) => c = d
TypedOneOpener == TypeOK /\ OneOpenerPerKey

\* A confirmation is spent once: no campaign is started from it a second time,
\* even when two start requests have both read a planned campaign
\* (claim_execution moves the status only from planned).
ConfirmationSpentOnce ==
    [][\A c \in Campaigns : status[c] # "executing" /\ status'[c] = "executing"
          => c \notin launched \/ restarts' # restarts]_vars

\* While a position of its own is open, a campaign stays among the active ones:
\* no aborted start, retired preview, archived recovery or restart files it away
\* with its exposure.  The exceptions are the two ways an actor has of saving
\* "stopped" without having seen its account flat: a safe stop that raised
\* (campaign_actor_program.py:171) and a close that gave up (close_cycle.py:127).
ExposureStaysActive ==
    \A c \in own : status[c] \in {"executing", "stopping", "recovering"} \/ c \in blind

\* As long as an actor may open positions, the operator can still stop it: the journal
\* has it running and its stop event is registered.
OpenerIsStoppable ==
    \A c \in Campaigns :
        Opening(c) => c \in stops /\ status[c] \in {"executing", "stopping"}

\* While an actor may open positions the operator can stop it, and an account with
\* a position of the fleet has a campaign that answers for it.
ActorsAnswerable == OpenerIsStoppable /\ ExposureStaysActive

\* Recovery converges: no campaign stays in recovery for ever on an account that
\* stays flat.
RecoveryConverges ==
    \A c \in Campaigns : []<>(status[c] # "recovering" \/ ~Flat(Key(c)))

\* A shutdown waits for every actor to finish, and they do.
ShutdownDrains ==
    closing = "closed" ~> (closing = "no" \/ \A c \in Campaigns : ~Running(c))
=============================================================================
