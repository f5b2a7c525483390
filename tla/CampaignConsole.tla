--------------------------- MODULE CampaignConsole ---------------------------
(* The terminal console of the command line: the campaign screens of         *)
(* src/src/weex_cli/tui, for one account.  A terminal takes the account's     *)
(* lease, previews a campaign and has a worker thread execute it, while the   *)
(* screens' thread may ask it to stop.  Both save the campaign's file.        *)
(*                                                                           *)
(* A campaign that ended uncertain must be reconciled by hand before another  *)
(* one may run.  The execution is what BetaCampaign shows of it: it claims    *)
(* the campaign, saves checkpoints and a verdict, or raises.                  *)
EXTENDS Naturals

CONSTANTS Terminals,   \* processes of the console
          Previews     \* campaigns that may be previewed, each of them once

VARIABLES saved,       \* the state in each campaign's file, "absent" before
          reconciled,  \* campaigns with an acknowledgement file
          lease,       \* the terminals that hold the account's lease
          screen,      \* terminal -> what its screens show
          worker,      \* terminal -> what its worker does, and for which campaign
          stopRead,    \* terminal -> campaigns its safe stop is about to save
          atRest,      \* the account is flat, with no order
          ended,       \* history: how the execution of each campaign ended
          overlaid     \* history: campaigns whose verdict a safe stop replaced

consoleVars ==
    <<saved, reconciled, lease, screen, worker, stopRead, atRest, ended, overlaid>>

Verdict == {"completed", "stopped", "uncertain"}
NoCampaign == "none"
IdleWorker == [at |-> "idle", campaign |-> NoCampaign]
Active(t) == worker[t].at # "idle"           \* active_campaign
\* The screens' thread is not inside request_safe_stop.
Listens(t) == stopRead[t] = {}

ConsoleTypeOK ==
    /\ saved \in [Previews -> {"absent", "planned", "executing", "stopping"} \union Verdict]
    /\ reconciled \subseteq Previews /\ overlaid \subseteq Previews
    /\ lease \subseteq Terminals
    /\ screen \in [Terminals -> {"accounts", "overview", "preview", "result"}]
    /\ worker \in [Terminals -> [at : {"idle", "validate", "boundary", "claim", "running", "failed", "finished"},
                                 campaign : Previews \union {NoCampaign}]]
    /\ stopRead \in [Terminals -> SUBSET Previews]
    /\ atRest \in BOOLEAN
    /\ ended \in [Previews -> {"never", "lost"} \union Verdict]

ConsoleInit ==
    /\ saved = [c \in Previews |-> "absent"] /\ reconciled = {} /\ lease = {}
    /\ screen = [t \in Terminals |-> "accounts"]
    /\ worker = [t \in Terminals |-> IdleWorker]
    /\ stopRead = [t \in Terminals |-> {}]
    /\ atRest \in BOOLEAN
    /\ ended = [c \in Previews |-> "never"] /\ overlaid = {}

Saves(c, status) == saved' = [saved EXCEPT ![c] = status]
Shows(t, what)   == screen' = [screen EXCEPT ![t] = what]
WorkerAt(t, place) == worker' = [worker EXCEPT ![t].at = place]

\* unresolved_uncertain
Unresolved == {c \in Previews : saved[c] = "uncertain"} \ reconciled

----------------------------------------------------------------------------
(* Accounts.                                                                 *)

\* select_account: the lease, then mark_interrupted_uncertain, which closes
\* what a console that died left behind.
MarkedExecuting == [c \in Previews |->  \* mutant: a stop that was asked for is forgotten
    IF saved[c] = "executing" THEN "uncertain" ELSE saved[c]]
MarkedUncertain == [c \in Previews |->
    IF saved[c] \in {"executing", "stopping"} THEN "uncertain" ELSE saved[c]]

SelectAccount(t) ==
    /\ screen[t] = "accounts" /\ lease = {}
    /\ lease' = {t} /\ saved' = MarkedUncertain /\ Shows(t, "overview")
    /\ UNCHANGED <<reconciled, worker, stopRead, atRest, ended, overlaid>>

LeaveAccount(t) ==
    /\ screen[t] \in {"overview", "result"} /\ ~Active(t) /\ Listens(t)
    /\ lease' = lease \ {t} /\ Shows(t, "accounts")
    /\ UNCHANGED <<saved, reconciled, worker, stopRead, atRest, ended, overlaid>>

\* create_preview: nothing unresolved, and an account at rest.
Preview(t) ==
    /\ screen[t] = "overview" /\ ~Active(t) /\ Listens(t)
    /\ Unresolved = {} /\ atRest
    /\ \E c \in Previews : saved[c] = "absent" /\ Saves(c, "planned")
                           /\ worker' = [worker EXCEPT ![t].campaign = c]
    /\ Shows(t, "preview")
    /\ UNCHANGED <<reconciled, lease, stopRead, atRest, ended, overlaid>>

\* reconcile: the boundary is read first; the acknowledgement is written once.
Reconcile(t) ==
    /\ screen[t] \in {"overview", "result"} /\ atRest
    /\ \E c \in Unresolved : reconciled' = reconciled \union {c}
    /\ UNCHANGED <<saved, lease, screen, worker, stopRead, atRest, ended, overlaid>>

----------------------------------------------------------------------------
(* The worker thread, run_campaign.                                          *)

StartCampaign(t) ==
    /\ screen[t] = "preview" /\ ~Active(t) /\ Listens(t)
    /\ WorkerAt(t, "validate")
    /\ UNCHANGED <<saved, reconciled, lease, screen, stopRead, atRest, ended, overlaid>>

ValidatePreview(t) ==
    /\ worker[t].at = "validate"
    /\ \/ Unresolved = {} /\ saved[worker[t].campaign] = "planned" /\ WorkerAt(t, "boundary")
       \/ WorkerAt(t, "failed")
    /\ UNCHANGED <<saved, reconciled, lease, screen, stopRead, atRest, ended, overlaid>>

ReadBoundary(t) ==
    /\ worker[t].at = "boundary"
    /\ \/ atRest /\ WorkerAt(t, "claim")
       \/ WorkerAt(t, "failed")
    /\ UNCHANGED <<saved, reconciled, lease, screen, stopRead, atRest, ended, overlaid>>

\* An exception before the execution: the record is saved as stopped.
NotStarted(t) ==
    /\ worker[t].at = "failed"
    /\ Saves(worker[t].campaign, "stopped") /\ WorkerAt(t, "finished")
    /\ UNCHANGED <<reconciled, lease, screen, stopRead, atRest, ended, overlaid>>

\* execute claims the campaign, or refuses, which counts as started already.
ClaimCampaign(t) ==
    LET c == worker[t].campaign IN
    /\ worker[t].at = "claim"
    /\ \/ Saves(c, "executing") /\ WorkerAt(t, "running")
       \/ Saves(c, "uncertain") /\ WorkerAt(t, "finished")
    /\ UNCHANGED <<reconciled, lease, screen, stopRead, atRest, ended, overlaid>>

Trades(t) ==
    /\ worker[t].at = "running"
    /\ atRest' \in BOOLEAN
    /\ \/ Saves(worker[t].campaign, "executing")          \* a checkpoint
       \/ saved' = saved
    /\ UNCHANGED <<reconciled, lease, screen, worker, stopRead, ended, overlaid>>

\* The verdict, or an exception out of a started execution.
Concluded(t) ==
    LET c == worker[t].campaign IN
    /\ worker[t].at = "running"
    /\ \E verdict \in Verdict :
         /\ verdict = "completed" => atRest
         /\ Saves(c, verdict) /\ ended' = [ended EXCEPT ![c] = verdict]
    /\ WorkerAt(t, "finished")
    /\ UNCHANGED <<reconciled, lease, screen, stopRead, atRest, overlaid>>

\* finish_campaign, called from the worker on the screens' thread.
FinishCampaign(t) ==
    /\ worker[t].at = "finished" /\ Listens(t)
    /\ worker' = [worker EXCEPT ![t] = IdleWorker] /\ Shows(t, "result")
    /\ UNCHANGED <<saved, reconciled, lease, stopRead, atRest, ended, overlaid>>

----------------------------------------------------------------------------
(* request_safe_stop, on the screens' thread: the record is loaded, and      *)
(* saved as stopping a moment later.                                         *)

LoadForStop(t) ==
    /\ Active(t) /\ Listens(t) /\ saved[worker[t].campaign] = "executing"
    /\ stopRead' = [stopRead EXCEPT ![t] = {worker[t].campaign}]
    /\ UNCHANGED <<saved, reconciled, lease, screen, worker, atRest, ended, overlaid>>

SaveStopping(t) ==
    /\ \E c \in stopRead[t] :
         /\ Saves(c, "stopping")
         /\ overlaid' = IF ended[c] = "never" THEN overlaid ELSE overlaid \union {c}
    /\ stopRead' = [stopRead EXCEPT ![t] = {}]
    /\ UNCHANGED <<reconciled, lease, screen, worker, atRest, ended>>

\* The process dies; its lock goes with it.
ConsoleDies(t) ==
    /\ t \in lease
    /\ lease' = lease \ {t} /\ Shows(t, "accounts")
    /\ worker' = [worker EXCEPT ![t] = IdleWorker]
    /\ stopRead' = [stopRead EXCEPT ![t] = {}]
    /\ ended' = IF worker[t].at = "running" THEN [ended EXCEPT ![worker[t].campaign] = "lost"] ELSE ended
    /\ UNCHANGED <<saved, reconciled, atRest, overlaid>>

\* The operator brings the account to rest by hand, or trades on it.
TradeByHand ==
    /\ atRest' = ~atRest
    /\ UNCHANGED <<saved, reconciled, lease, screen, worker, stopRead, ended, overlaid>>

\* Back to the overview, from a result or from a preview nobody executed.
ShowOverview(t) ==
    /\ screen[t] \in {"result", "preview"} /\ ~Active(t) /\ Shows(t, "overview")
    /\ UNCHANGED <<saved, reconciled, lease, worker, stopRead, atRest, ended, overlaid>>

WorkerStep(t) == ValidatePreview(t) \/ ReadBoundary(t) \/ NotStarted(t) \/ ClaimCampaign(t)
                 \/ Concluded(t) \/ FinishCampaign(t)

ConsoleNext ==
    \/ \E t \in Terminals :
         \/ SelectAccount(t) \/ LeaveAccount(t) \/ Preview(t) \/ Reconcile(t) \/ StartCampaign(t)
         \/ WorkerStep(t) \/ Trades(t) \/ LoadForStop(t) \/ SaveStopping(t) \/ ConsoleDies(t)
         \/ ShowOverview(t)
    \/ TradeByHand

----------------------------------------------------------------------------
(* Properties.                                                               *)

\* While a campaign runs on the account no other does, and every one whose
\* execution ended uncertain, or with the console, has been reconciled by hand
\* (screens/campaign.py:75, "uncertain campaign must be reconciled before
\* creating a new campaign").  The exception: a safe stop may load the record
\* before the worker saves its verdict and save stopping after it; the journal
\* then takes the uncertain campaign for resolved until the next start.
UncertainBlocks ==
    \A t \in Terminals : worker[t].at = "running" =>
        /\ \A u \in Terminals : worker[u].at = "running" => u = t
        /\ \A c \in Previews \ overlaid :
             ended[c] \in {"uncertain", "lost"} => c \in reconciled
=============================================================================
