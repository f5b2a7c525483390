---------------------------- MODULE TransferJobs ----------------------------
(***************************************************************************)
(* The transfer jobs of the Aptos wallet: JobService of                    *)
(* src/aptos-wallet/server/jobs.ts over its database.  A job is a list of  *)
(* transfers (steps) that the operator previews and confirms; a worker     *)
(* then signs and submits one transaction after the other.  The service is *)
(* one thread: everything between two awaits happens at once, and workers, *)
(* pending requests, the operator, the chain and a restart take turns.     *)
(*                                                                         *)
(* All steps are sent from one account to one wallet of the same vault.    *)
(* The chain takes a transaction only at the account's current sequence    *)
(* number.  Balances, amounts and gas are left out: a read may fail or     *)
(* show too little.                                                        *)
(***************************************************************************)
EXTENDS Naturals, Sequences, FiniteSets

CONSTANTS
    Jobs,
    Last,           \* position of a job's last step
    Workers,        \* bound: workers at work at the same time
    Requests,       \* bound: previews and reconciliations at the same time
    MaxAttempts,    \* bound: transactions signed
    Overwriting     \* bound: a request may write over a job that moved on while it waited

ASSUME JobsAssumption ==
    /\ Last \in Nat \ {0}
    /\ MaxAttempts \in Nat /\ Overwriting \in BOOLEAN
    /\ IsFiniteSet(Jobs) /\ Jobs # {}

Steps == 1..Last

VARIABLES
    \* the database
    job,        \* jobs.status, "removed" once the row is deleted
    step,       \* job_steps.status, "deleted" once the row is
    attempts,   \* transaction_attempts in the order they were created
    archived,   \* the wallet the transfers go to is archived
    \* the chain
    chain,      \* per attempt: "flying" (signed, may still land), "paid" or "reverted"
    \* the service
    pausing,    \* pauseRequested
    cancelling, \* cancelRequested
    worker,     \* what each run() awaits
    request,    \* what each checkAndPreview or reconcileUncertain awaits
    \* history variable
    landedLate  \* a transaction landed that had been judged failed

records == <<job, step, attempts>>
database == <<records, archived>>
flags == <<pausing, cancelling>>
vars == <<database, chain, flags, worker, request, landedLate>>

JobStatuses == {"draft", "previewed", "running", "paused", "failed", "uncertain",
                "completed", "cancelled", "removed"}
StepStatuses == {"pending", "waiting", "preparing", "submitting", "confirmed",
                 "failed", "uncertain", "deleted"}
AttemptStates == {"prepared", "submitted", "uncertain", "failed", "confirmed", "gone"}
Tasks == {"idle", "wait", "prepare", "submit", "confirm", "reconcile", "refresh"}

Active == {"running", "paused", "uncertain"}
Editable == {"draft", "previewed"}

AnyJob == CHOOSE j \in Jobs : TRUE
Working(task, j, s, todo) == [task |-> task, job |-> j, at |-> s, todo |-> todo, attempt |-> 0]
NoWork == Working("idle", AnyJob, 0, {})
Asking(kind, j, todo) == [kind |-> kind, job |-> j, todo |-> todo, pending |-> FALSE]
NoRequest == Asking("none", AnyJob, {})

Attempts == DOMAIN attempts
AttemptsOf(j, s) ==
    {i \in Attempts : attempts[i].job = j /\ attempts[i].step = s /\ attempts[i].state # "gone"}
Paid(j, s) == {i \in Attempts : attempts[i].job = j /\ attempts[i].step = s /\ chain[i] = "paid"}

TypeOK ==
    /\ job \in [Jobs -> JobStatuses]
    /\ step \in [Jobs -> [Steps -> StepStatuses]]
    /\ Len(attempts) <= MaxAttempts
    /\ \A i \in Attempts : attempts[i] \in
         [job : Jobs, step : Steps, number : Nat, state : AttemptStates]
    /\ archived \in BOOLEAN
    /\ chain \in [Attempts -> {"flying", "paid", "reverted"}]
    /\ pausing \in BOOLEAN /\ cancelling \in BOOLEAN
    /\ worker \in [Workers -> [task : Tasks, job : Jobs, at : 0..Last,
                               todo : SUBSET Steps, attempt : 0..MaxAttempts]]
    /\ request \in [Requests -> [kind : {"none", "preview", "reconcile"}, job : Jobs,
                                 todo : SUBSET (1..MaxAttempts), pending : BOOLEAN]]
    /\ landedLate \in BOOLEAN

(***************************************************************************)
(* Updates of rows; an update of a deleted row changes nothing             *)
(***************************************************************************)
Least(S) == CHOOSE s \in S : \A t \in S : s <= t

WithJob(j, v) == [job EXCEPT ![j] = IF @ = "removed" THEN @ ELSE v]
WithStep(j, s, v) == [step EXCEPT ![j][s] = IF @ = "deleted" THEN @ ELSE v]
WithAttempt(i, v) == [attempts EXCEPT ![i].state = IF @ = "gone" THEN @ ELSE v]
AllPending(j) == [step EXCEPT ![j] = [s \in Steps |-> IF @[s] = "deleted" THEN @[s] ELSE "pending"]]

\* the steps of a job that still exist, and those of them in a status
Rows(steps) == {s \in Steps : steps[s] # "deleted"}
In(steps, status) == {s \in Steps : steps[s] = status}

OtherIn(j, statuses) == \E k \in Jobs \ {j} : job[k] \in statuses

\* finishCancel
Attempted(j) == \E s \in Steps : AttemptsOf(j, s) # {}

FinishCancel(j) ==
    IF Attempted(j)
    THEN /\ job' = WithJob(j, "cancelled")
         /\ step' = [step EXCEPT ![j] = [s \in Steps |->
                        IF AttemptsOf(j, s) = {} THEN "deleted" ELSE @[s]]]
    ELSE /\ job' = [job EXCEPT ![j] = "removed"]
         /\ step' = [step EXCEPT ![j] = [s \in Steps |-> "deleted"]]

(***************************************************************************)
(* run: the loop over the steps that were pending when the worker started  *)
(***************************************************************************)
\* the status a worker leaves when it has no step left
Verdict(steps) ==
    IF In(steps, "failed") # {} THEN "failed"
    ELSE IF In(steps, "uncertain") # {} THEN "uncertain"
    ELSE IF Rows(steps) # In(steps, "confirmed") THEN "paused"
    ELSE "completed"

Rest(w) == worker' = [worker EXCEPT ![w] = NoWork]

\* The loop head of worker w for job j with todo left to do, where jobs and
\* steps are the rows as they are by then; skip is the step that is not
\* waited for.
Enter(w, j, todo, skip, jobs, steps) ==
    IF jobs[j] = "removed"
    THEN job' = jobs /\ step' = steps /\ Rest(w)   \* the job is not found
    ELSE IF todo = {}
    THEN /\ job' = [jobs EXCEPT ![j] = Verdict(steps[j])]
         /\ step' = steps
         /\ Rest(w)
    ELSE LET s == Least(todo)
             Begin(task, status) ==
                /\ worker' = [worker EXCEPT ![w] = Working(task, j, s, todo \ {s})]
                /\ step' = [steps EXCEPT ![j][s] = IF @ = "deleted" THEN @ ELSE status]
         IN /\ job' = jobs
            /\ \/ s > 1 /\ s # skip /\ Begin("wait", "waiting")
               \/ Begin("prepare", "preparing")

Start(w, j, skip, steps) ==
    /\ worker[w].task = "idle"
    /\ Enter(w, j, In(steps[j], "pending") \cup In(steps[j], "waiting"), skip,
             [job EXCEPT ![j] = "running"], steps)
    /\ pausing' = FALSE /\ cancelling' = FALSE

\* the waiting time is over, or a flag cut it short
WaitEnds(w) ==
    LET j == worker[w].job IN
    /\ worker[w].task = "wait"
    /\ \/ cancelling /\ FinishCancel(j) /\ Rest(w)
       \/ ~cancelling /\ pausing /\ job' = WithJob(j, "paused") /\ Rest(w) /\ UNCHANGED step
       \/ /\ ~cancelling /\ ~pausing
          /\ step' = WithStep(j, worker[w].at, "preparing")
          /\ worker' = [worker EXCEPT ![w].task = "prepare"]
          /\ UNCHANGED job
    /\ UNCHANGED <<attempts, archived, chain, flags, request, landedLate>>

\* The outer catch of executeStep: whatever was raised, the step counts as
\* failed and the job as paused.
\* Mutant: the job is left as it is.
StepRaisedQuietly(w) ==
    /\ step' = WithStep(worker[w].job, worker[w].at, "failed")
    /\ Rest(w) /\ UNCHANGED job
StepRaised(w) ==
    /\ step' = WithStep(worker[w].job, worker[w].at, "failed")
    /\ job' = WithJob(worker[w].job, "paused")
    /\ Rest(w)

Committed == {i \in Attempts : chain[i] # "flying"}

\* balance and gas are read, the transaction is built, simulated and signed,
\* and its attempt stored; or something of it fails
Prepared(w) ==
    LET j == worker[w].job
        s == worker[w].at
    IN
    /\ worker[w].task = "prepare"
    /\ \/ StepRaised(w) /\ UNCHANGED <<attempts, chain>>
       \/ /\ step[j][s] # "deleted" /\ Len(attempts) < MaxAttempts
          /\ attempts' = Append(attempts, [job |-> j, step |-> s, state |-> "prepared",
                                           number |-> Cardinality(Committed)])
          /\ chain' = Append(chain, "flying")
          /\ step' = WithStep(j, s, "submitting")
          /\ worker' = [worker EXCEPT ![w].task = "submit", ![w].attempt = Len(attempts')]
          /\ UNCHANGED job
    /\ UNCHANGED <<archived, flags, request, landedLate>>

\* submit() returns, or raises
Submitted(w) ==
    /\ worker[w].task = "submit"
    /\ \/ /\ attempts' = WithAttempt(worker[w].attempt, "submitted")
          /\ worker' = [worker EXCEPT ![w].task = "confirm"]
       \/ /\ worker' = [worker EXCEPT ![w].task = "reconcile"] /\ UNCHANGED attempts
    /\ UNCHANGED <<job, step, archived, chain, flags, request, landedLate>>

\* wait() or reconcile() learns what became of the transaction
Resolved(w) ==
    LET j == worker[w].job
        s == worker[w].at
        i == worker[w].attempt
    IN
    /\ worker[w].task \in {"confirm", "reconcile"}
    /\ \/ /\ chain[i] = "paid"
          /\ attempts' = WithAttempt(i, "confirmed")
          /\ step' = WithStep(j, s, "confirmed")
          /\ worker' = [worker EXCEPT ![w].task = "refresh"]
          /\ UNCHANGED job
       \/ /\ chain[i] = "reverted"
          /\ attempts' = WithAttempt(i, "failed")
          /\ step' = WithStep(j, s, "failed")
          /\ job' = WithJob(j, "failed")
          /\ Rest(w)
    /\ UNCHANGED <<archived, chain, flags, request, landedLate>>

\* wait() raises
WaitRaises(w) ==
    /\ worker[w].task = "confirm"
    /\ worker' = [worker EXCEPT ![w].task = "reconcile"]
    /\ UNCHANGED <<database, chain, flags, request, landedLate>>

\* What a transaction is taken for when none of reconcile()'s reads shows its
\* outcome.
\* Mutant: a transaction nobody has seen counts as failed.
Dismissed == "failed"
Unknown == "uncertain"

Unresolved(w) ==
    LET j == worker[w].job IN
    /\ worker[w].task = "reconcile"
    /\ attempts' = WithAttempt(worker[w].attempt, Unknown)
    /\ step' = WithStep(j, worker[w].at, Unknown)
    /\ job' = WithJob(j, Unknown)
    /\ Rest(w)
    /\ UNCHANGED <<archived, chain, flags, request, landedLate>>

\* refreshAsset refuses an archived wallet; otherwise the loop goes on, and
\* looks at the flags if there is a step left
Refreshed(w) ==
    LET j == worker[w].job IN
    /\ worker[w].task = "refresh"
    /\ \/ archived /\ StepRaised(w)
       \/ /\ ~archived
          /\ \/ worker[w].todo # {} /\ cancelling /\ FinishCancel(j) /\ Rest(w)
             \/ /\ worker[w].todo # {} /\ ~cancelling /\ pausing
                /\ job' = WithJob(j, "paused") /\ Rest(w) /\ UNCHANGED step
             \/ /\ worker[w].todo = {} \/ (~cancelling /\ ~pausing)
                /\ Enter(w, j, worker[w].todo, 0, job, step)
    /\ UNCHANGED <<attempts, archived, chain, flags, request, landedLate>>

WorkerStep(w) ==
    \/ WaitEnds(w) \/ Prepared(w) \/ Submitted(w) \/ Resolved(w)
    \/ WaitRaises(w) \/ Unresolved(w) \/ Refreshed(w)

(***************************************************************************)
(* The operator's requests that are served at once                         *)
(***************************************************************************)
\* updateDraft replaces the step rows, and their attempts go with them
UpdateDraft(j) ==
    /\ job[j] \in Editable
    /\ job' = [job EXCEPT ![j] = "draft"]
    /\ step' = [step EXCEPT ![j] = [s \in Steps |-> "pending"]]
    /\ attempts' = [i \in Attempts |-> IF attempts[i].job # j THEN attempts[i]
                                       ELSE [attempts[i] EXCEPT !.state = "gone"]]
    /\ UNCHANGED <<archived, chain, flags, worker, request, landedLate>>

\* reorderPreview and shufflePreview; the order of the steps is left out
ReorderPreview(j) ==
    /\ job[j] = "previewed"
    /\ step' = AllPending(j)
    /\ UNCHANGED <<job, attempts, archived, chain, flags, worker, request, landedLate>>

\* Mutant: running jobs do not count.
OtherHalted(j) == OtherIn(j, Active \ {"running"})
OtherActive(j) == OtherIn(j, Active)

Confirm(j) ==
    /\ job[j] = "previewed" /\ ~OtherActive(j)
    /\ \E w \in Workers : Start(w, j, 0, step)
    /\ UNCHANGED <<attempts, archived, chain, request, landedLate>>

Pause(j) ==
    /\ job[j] = "running"
    /\ pausing' = TRUE
    /\ UNCHANGED <<database, chain, cancelling, worker, request, landedLate>>

\* Mutant: an uncertain step does not stand in the way.
NoDoubt(j) == FALSE
Doubtful(j) == In(step[j], "uncertain") # {}

Resume(j) ==
    /\ job[j] = "paused" /\ ~Doubtful(j) /\ ~OtherIn(j, {"running", "uncertain"})
    /\ \E w \in Workers : Start(w, j, 0, step)
    /\ UNCHANGED <<attempts, archived, chain, request, landedLate>>

\* a step may be tried again after a definite failure, or when it never got
\* as far as a transaction
MayRetry(j, s) ==
    \/ AttemptsOf(j, s) = {}
    \/ \E i \in AttemptsOf(j, s) : attempts[i].state = "failed"

RetryFailed(j) ==
    LET failed == In(step[j], "failed")
        first == Least(failed)
        again == IF job[j] = "completed" THEN failed ELSE {first}
    IN
    /\ job[j] \in {"failed", "paused", "completed"}
    /\ ~Doubtful(j) /\ failed # {}
    /\ \A s \in Rows(step[j]) : s < first => step[j][s] = "confirmed"
    /\ \A s \in again : MayRetry(j, s)
    /\ ~OtherActive(j)
    /\ \E w \in Workers : Start(w, j, first,
            [step EXCEPT ![j] = [s \in Steps |-> IF s \in again THEN "pending" ELSE @[s]]])
    /\ UNCHANGED <<attempts, archived, chain, request, landedLate>>

Cancel(j) ==
    /\ job[j] \in Editable \cup {"running", "paused"}
    /\ cancelling' = TRUE
    /\ IF job[j] = "running" THEN UNCHANGED <<job, step>> ELSE FinishCancel(j)
    /\ UNCHANGED <<attempts, archived, chain, pausing, worker, request, landedLate>>

\* WalletService archives the wallet when no active job needs it, and deletes
\* the drafts and previews that name it
Archive ==
    /\ ~archived /\ \A j \in Jobs : job[j] \notin Active
    /\ archived' = TRUE
    /\ job' = [j \in Jobs |-> IF job[j] \in Editable THEN "removed" ELSE job[j]]
    /\ step' = [j \in Jobs |-> IF job[j] \in Editable THEN [s \in Steps |-> "deleted"]
                                ELSE step[j]]
    /\ UNCHANGED <<attempts, chain, flags, worker, request, landedLate>>

(***************************************************************************)
(* checkAndPreview and reconcileUncertain, which await the chain between   *)
(* looking at the job and writing to it                                    *)
(***************************************************************************)
PreviewBegins(r, j) ==
    /\ request[r].kind = "none" /\ job[j] \in Editable
    /\ request' = [request EXCEPT ![r] = Asking("preview", j, {})]
    /\ UNCHANGED <<database, chain, flags, worker, landedLate>>

\* the checks fail, or the preview is stored
PreviewEnds(r) ==
    LET j == request[r].job IN
    /\ request[r].kind = "preview"
    /\ request' = [request EXCEPT ![r] = NoRequest]
    /\ \/ UNCHANGED <<job, step>>
       \/ /\ job[j] \in Editable \cup {"removed"} \/ Overwriting
          /\ job' = WithJob(j, "previewed")
          /\ step' = AllPending(j)
    /\ UNCHANGED <<attempts, archived, chain, flags, worker, landedLate>>

ReconcileBegins(r, j) ==
    LET open == {i \in Attempts : attempts[i].job = j /\ attempts[i].state = "uncertain"} IN
    /\ request[r].kind = "none" /\ job[j] = "uncertain" /\ open # {}
    /\ request' = [request EXCEPT ![r] = Asking("reconcile", j, open)]
    /\ UNCHANGED <<database, chain, flags, worker, landedLate>>

\* the status the job is left in when its last attempt has been looked at
Judged(steps, pending) ==
    IF pending THEN "uncertain"
    ELSE IF In(steps, "failed") # {} THEN "failed"
    ELSE IF Rows(steps) = In(steps, "confirmed") THEN "completed"
    ELSE "paused"

\* findTransaction for one attempt: not found, still pending, failed or
\* succeeded
Answers(i) ==
    IF chain[i] = "paid" THEN {"confirmed"}
    ELSE IF chain[i] = "reverted" THEN {"failed"} ELSE {"pending", "failed"}

ReconcileNext(r) ==
    LET j == request[r].job
        i == Least(request[r].todo)
        rest == request[r].todo \ {i}
    IN
    /\ request[r].kind = "reconcile"
    /\ (job[j] = "uncertain" /\ attempts[i].state = "uncertain") \/ Overwriting
    /\ \E answer \in Answers(i) :
          LET pending == request[r].pending \/ answer = "pending" IN
          /\ IF answer = "pending" THEN UNCHANGED <<attempts, step>>
             ELSE /\ attempts' = WithAttempt(i, answer)
                  /\ step' = WithStep(j, attempts[i].step, answer)
          /\ IF rest = {}
             THEN /\ job' = WithJob(j, Judged(step'[j], pending))
                  /\ request' = [request EXCEPT ![r] = NoRequest]
             ELSE /\ request' = [request EXCEPT ![r].todo = rest, ![r].pending = pending]
                  /\ UNCHANGED job
    /\ UNCHANGED <<archived, chain, flags, worker, landedLate>>

\* a read fails and the request with it
ReconcileRaises(r) ==
    /\ request[r].kind = "reconcile"
    /\ request' = [request EXCEPT ![r] = NoRequest]
    /\ UNCHANGED <<database, chain, flags, worker, landedLate>>

(***************************************************************************)
(* The chain, and a restart of the service                                 *)
(***************************************************************************)
Land(i) ==
    /\ i \in Attempts /\ chain[i] = "flying"
    /\ attempts[i].number = Cardinality(Committed)
    /\ \E outcome \in {"paid", "reverted"} : chain' = [chain EXCEPT ![i] = outcome]
    /\ landedLate' = (landedLate \/ attempts[i].state = "failed")
    /\ UNCHANGED <<database, flags, worker, request>>

\* steps the database finds interrupted when it is opened
Interrupted == {"preparing", "submitting"}

Restart ==
    /\ worker' = [w \in Workers |-> NoWork]
    /\ request' = [r \in Requests |-> NoRequest]
    /\ pausing' = FALSE /\ cancelling' = FALSE
    /\ job' = [j \in Jobs |-> IF job[j] = "running" THEN "paused" ELSE job[j]]
    /\ step' = [j \in Jobs |-> [s \in Steps |->
                  IF step[j][s] \in Interrupted THEN "uncertain" ELSE step[j][s]]]
    /\ UNCHANGED <<attempts, archived, chain, landedLate>>

Init ==
    /\ job = [j \in Jobs |-> "draft"]
    /\ step = [j \in Jobs |-> [s \in Steps |-> "pending"]]
    /\ attempts = <<>> /\ chain = <<>> /\ archived = FALSE
    /\ pausing = FALSE /\ cancelling = FALSE
    /\ worker = [w \in Workers |-> NoWork]
    /\ request = [r \in Requests |-> NoRequest]
    /\ landedLate = FALSE

Operator ==
    \/ \E j \in Jobs :
          \/ UpdateDraft(j) \/ ReorderPreview(j) \/ Confirm(j) \/ Pause(j) \/ Resume(j)
          \/ RetryFailed(j) \/ Cancel(j)
          \/ \E r \in Requests : PreviewBegins(r, j) \/ ReconcileBegins(r, j)
    \/ Archive

RequestStep(r) == PreviewEnds(r) \/ ReconcileNext(r) \/ ReconcileRaises(r)

Next ==
    \/ Operator
    \/ \E w \in Workers : WorkerStep(w)
    \/ \E r \in Requests : RequestStep(r)
    \/ \E i \in Attempts : Land(i)
    \/ Restart

\* Reads and submissions return or raise, and waiting times end; operator and
\* chain do as they please.
Spec == Init /\ [][Next]_vars /\ \A w \in Workers : WF_vars(WorkerStep(w))

(***************************************************************************)
(* Properties                                                              *)
(***************************************************************************)
\* A transfer is made at most once, whatever is lost, paused, cancelled,
\* restarted, reconciled and retried, unless a transaction that the chain did
\* not know when it was looked for lands after all, or the receiving wallet was
\* archived meanwhile.
PaidOnce ==
    ~landedLate /\ ~archived =>
        \A j \in Jobs : \A s \in Steps : Cardinality(Paid(j, s)) <= 1

\* At most one worker is at work, for whatever job (the status of a job is
\* the only lock there is).
OneExecution ==
    \A v, w \in Workers : worker[v].task # "idle" /\ worker[w].task # "idle" => v = w

\* A job shown as completed has paid every one of its steps.
CompletedIsPaid ==
    \A j \in Jobs : job[j] = "completed" => \A s \in Rows(step[j]) : Paid(j, s) # {}

\* No transaction is signed for a job while the outcome of another one of
\* its transactions is open, and none for a step that has a confirmed one
\* (jobs.ts:395, "never an already-confirmed one"), but for the step of an
\* archived wallet, which refreshAsset turns from confirmed to failed.
Open == {"prepared", "submitted", "uncertain"}
NoSubmissionOverDoubt ==
    [][Len(attempts') > Len(attempts) =>
          LET new == attempts'[Len(attempts')] IN
          \A i \in Attempts : attempts[i].job = new.job =>
              /\ attempts[i].state \notin Open
              /\ attempts[i].step = new.step /\ ~archived => attempts[i].state # "confirmed"]_vars

\* "retry every definitely failed item, never an already-confirmed one"
\* (jobs.ts:394): no transaction is signed for a step that has a confirmed one,
\* whatever became of the wallet that received it.
NeverAConfirmedItem ==
    [][Len(attempts') > Len(attempts) =>
          LET new == attempts'[Len(attempts')] IN
          \A i \in Attempts : attempts[i].job = new.job /\ attempts[i].step = new.step
              => attempts[i].state # "confirmed"]_vars

\* A running job comes to rest.
RunningEnds == \A j \in Jobs : job[j] = "running" ~> job[j] # "running"
=============================================================================
