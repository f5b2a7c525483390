------------------------- MODULE TransferJobsProofs -------------------------
(***************************************************************************)
(* What holds of the transfer jobs for any number of jobs, steps, workers  *)
(* and requests: the types, one execution at a time, completed means paid, *)
(* no transfer is made twice, and none is signed for a job in doubt.       *)
(* Except for the types, all of it is for Overwriting = FALSE.             *)
(***************************************************************************)
EXTENDS TransferJobs, TLAPS, FiniteSetTheorems, SequenceTheorems, WellFoundedInduction

AttemptRecords == [job : Jobs, step : Steps, number : Nat, state : AttemptStates]
Outcomes == {"flying", "paid", "reverted"}
WorkerRecords == [task : Tasks, job : Jobs, at : 0..Last, todo : SUBSET Steps,
                  attempt : 0..MaxAttempts]
RequestRecords == [kind : {"none", "preview", "reconcile"}, job : Jobs,
                   todo : SUBSET (1..MaxAttempts), pending : BOOLEAN]

RowsTyped == job \in [Jobs -> JobStatuses] /\ step \in [Jobs -> [Steps -> StepStatuses]]
AttemptsTyped ==
    /\ attempts \in Seq(AttemptRecords) /\ Len(attempts) <= MaxAttempts
    /\ chain \in Seq(Outcomes) /\ Len(chain) = Len(attempts)
Busy(w) == worker[w].task # "idle"
WorkersTyped == /\ worker \in [Workers -> WorkerRecords]
                /\ \A w \in Workers : Busy(w) => worker[w].at \in Steps
RequestsTyped ==
    /\ request \in [Requests -> RequestRecords]
    /\ \A r \in Requests : request[r].kind = "reconcile" => request[r].todo # {}
FlagsTyped == archived \in BOOLEAN /\ pausing \in BOOLEAN /\ cancelling \in BOOLEAN
              /\ landedLate \in BOOLEAN
TypeInv == RowsTyped /\ AttemptsTyped /\ WorkersTyped /\ RequestsTyped /\ FlagsTyped

(***************************************************************************)
(* Workers                                                                 *)
(***************************************************************************)
\* the status of the step a worker is at
StatusAt(task) ==
    CASE task = "wait" -> "waiting"
      [] task = "prepare" -> "preparing"
      [] task \in {"submit", "confirm", "reconcile"} -> "submitting"
      [] task = "refresh" -> "confirmed"
      [] OTHER -> "pending"

\* A worker's job is running, it is at a step in the status of its task, and
\* the steps it has before it have not been touched.
WorkingRuns == \A w \in Workers : Busy(w) => job[worker[w].job] = "running"
WorkingAt == \A w \in Workers : Busy(w) =>
    /\ step[worker[w].job][worker[w].at] = StatusAt(worker[w].task)
    /\ \A s \in worker[w].todo : /\ step[worker[w].job][s] \in {"pending", "waiting"}
                                 /\ s # worker[w].at
WorkInv == WorkingRuns /\ WorkingAt /\ OneExecution

(***************************************************************************)
(* Attempts                                                                *)
(***************************************************************************)
\* A worker that awaits the chain does so for the attempt it signed.
WorkingFor == \A w \in Workers : worker[w].task \in {"submit", "confirm", "reconcile"} =>
    LET i == worker[w].attempt IN
    /\ i \in Attempts
    /\ attempts[i].job = worker[w].job /\ attempts[i].step = worker[w].at
    /\ attempts[i].state \in {"prepared", "submitted"}

ReconcilesOwn == \A r \in Requests : request[r].kind = "reconcile" =>
    \A i \in request[r].todo : i \in Attempts /\ attempts[i].job = request[r].job

\* Jobs that may still be edited, or are gone, have signed nothing.
EditableIsUnsigned == \A i \in Attempts :
    /\ job[attempts[i].job] \notin Editable \cup {"removed"}
    /\ attempts[i].state # "gone"

StatesAreTrue == \A i \in Attempts :
    /\ attempts[i].state = "confirmed" => chain[i] = "paid"
    /\ attempts[i].state = "failed" /\ ~landedLate => chain[i] # "paid"

\* Of the attempts at one step, all but one have failed, and all of them if
\* the step may be tried again.
Same(i, k) == attempts[i].job = attempts[k].job /\ attempts[i].step = attempts[k].step
OneLive == ~archived => \A i, k \in Attempts :
    Same(i, k) /\ attempts[i].state # "failed" /\ attempts[k].state # "failed" => i = k
Untried == {"pending", "waiting", "preparing", "failed"}
UntriedHasFailed == ~archived => \A i \in Attempts :
    step[attempts[i].job][attempts[i].step] \in Untried => attempts[i].state = "failed"

TrialInv == EditableIsUnsigned /\ StatesAreTrue /\ OneLive /\ UntriedHasFailed
AttemptInv == TrialInv /\ WorkingFor /\ ReconcilesOwn

(***************************************************************************)
(* Payments                                                                *)
(***************************************************************************)
PaidBy(i, j, s) == attempts[i].job = j /\ attempts[i].step = s /\ chain[i] = "paid"
ConfirmedIsPaid == \A j \in Jobs : \A s \in Steps :
    step[j][s] = "confirmed" => \E i \in Attempts : PaidBy(i, j, s)
CompletedIsConfirmed == \A j \in Jobs : job[j] = "completed" =>
    \A s \in Steps : step[j][s] \in {"confirmed", "deleted"}
PayInv == ConfirmedIsPaid /\ CompletedIsConfirmed

(***************************************************************************)
(* Types                                                                   *)
(***************************************************************************)
LEMMA LeastIsIn ==
    ASSUME NEW S \in SUBSET Nat, S # {} PROVE Least(S) \in S
<1>1. S \subseteq Nat
    OBVIOUS
<1>2. PICK x \in S : \A y \in S : ~(<<y, x>> \in OpToRel(<, Nat))
    BY <1>1, WFMin, NatLessThanWellFounded, Zenon
<1>3. \A y \in S : ~(y < x)
    BY <1>1, <1>2 DEF OpToRel
<1>4. \A y \in S : x <= y
    BY <1>1, <1>3
<1> QED
    BY <1>4 DEF Least

LEMMA LeastIsLeast ==
    ASSUME NEW S \in SUBSET Steps, S # {}
    PROVE  Least(S) \in S /\ Least(S) \in Steps
<1>1. S \in SUBSET Nat
    BY JobsAssumption DEF Steps
<1> QED
    BY <1>1, LeastIsIn

LEMMA IdleTyped == AnyJob \in Jobs /\ NoWork \in WorkerRecords /\ NoRequest \in RequestRecords
<1>1. AnyJob \in Jobs
    BY JobsAssumption DEF AnyJob
<1> QED
    BY <1>1, JobsAssumption DEF NoWork, NoRequest, Working, Asking, WorkerRecords, RequestRecords, Tasks

LEMMA CommittedIsFinite ==
    ASSUME AttemptsTyped PROVE Cardinality(Committed) \in Nat
<1>1. Attempts = 1..Len(attempts) /\ Len(attempts) \in Nat
    BY DEF AttemptsTyped, Attempts
<1>2. IsFiniteSet(1..Len(attempts))
    BY <1>1, FS_Interval
<1>3. IsFiniteSet(Committed)
    BY <1>1, <1>2, FS_Subset DEF Committed
<1> QED
    BY <1>3, FS_CardinalityType

LEMMA TypesOK == TypeInv => TypeOK
<1> SUFFICES ASSUME TypeInv PROVE TypeOK
    OBVIOUS
<1> USE DEF TypeInv
<1>1. Attempts = 1..Len(attempts) /\ Attempts = 1..Len(chain)
    BY DEF AttemptsTyped, Attempts
<1>2. \A i \in Attempts : attempts[i] \in AttemptRecords
    BY <1>1 DEF AttemptsTyped
<1>3. chain \in [Attempts -> Outcomes]
    BY <1>1 DEF AttemptsTyped
<1> QED
    BY <1>2, <1>3 DEF TypeOK, RowsTyped, AttemptsTyped, WorkersTyped, RequestsTyped, FlagsTyped,
           AttemptRecords, WorkerRecords, RequestRecords, Outcomes

LEMMA InitTyped == Init => TypeInv
<1> SUFFICES ASSUME Init PROVE TypeInv
    OBVIOUS
<1>1. RowsTyped /\ FlagsTyped
    BY DEF Init, RowsTyped, FlagsTyped, JobStatuses, StepStatuses
<1>2. AttemptsTyped
    BY JobsAssumption DEF Init, AttemptsTyped
<1>3. WorkersTyped /\ RequestsTyped
    BY IdleTyped DEF Init, WorkersTyped, RequestsTyped, NoRequest, Asking, NoWork, Working, Busy
<1> QED
    BY <1>1, <1>2, <1>3 DEF TypeInv

\* Writing to rows keeps them in their types.
LEMMA RowsStayTyped ==
    ASSUME RowsTyped, NEW j \in Jobs
    PROVE  /\ \A v \in JobStatuses : WithJob(j, v) \in [Jobs -> JobStatuses]
           /\ \A s \in Steps : \A v \in StepStatuses :
                 WithStep(j, s, v) \in [Jobs -> [Steps -> StepStatuses]]
           /\ AllPending(j) \in [Jobs -> [Steps -> StepStatuses]]
    BY DEF RowsTyped, WithJob, WithStep, AllPending, StepStatuses

LEMMA CancelTyped ==
    ASSUME RowsTyped, NEW j \in Jobs, FinishCancel(j) PROVE RowsTyped'
<1>1. CASE Attempted(j)
  <2> DEFINE left == [s \in Steps |-> IF AttemptsOf(j, s) = {} THEN "deleted" ELSE step[j][s]]
  <2>1. left \in [Steps -> StepStatuses]
    BY DEF RowsTyped, StepStatuses
  <2>2. job' = WithJob(j, "cancelled") /\ step' = [step EXCEPT ![j] = left]
    BY <1>1 DEF FinishCancel
  <2> QED
    BY SMTT(40), <2>1, <2>2 DEF RowsTyped, WithJob, JobStatuses
<1>2. CASE ~Attempted(j)
    BY <1>2 DEF FinishCancel, RowsTyped, JobStatuses, StepStatuses
<1> QED
    BY <1>1, <1>2

LEMMA RestTyped ==
    ASSUME WorkersTyped, NEW w \in Workers, Rest(w) PROVE WorkersTyped'
    BY IdleTyped DEF WorkersTyped, Rest, Busy, NoWork, Working

LEMMA EnterTyped ==
    ASSUME NEW w \in Workers, NEW j \in Jobs, NEW todo \in SUBSET Steps, NEW skip,
           NEW jobs \in [Jobs -> JobStatuses], NEW steps \in [Jobs -> [Steps -> StepStatuses]],
           WorkersTyped, Enter(w, j, todo, skip, jobs, steps)
    PROVE  RowsTyped' /\ WorkersTyped'
<1>1. CASE jobs[j] = "removed"
    BY <1>1, RestTyped DEF Enter, RowsTyped
<1>2. CASE jobs[j] # "removed" /\ todo = {}
    BY <1>2, RestTyped DEF Enter, RowsTyped, Verdict, JobStatuses
<1>3. CASE jobs[j] # "removed" /\ todo # {}
  <2> DEFINE s == Least(todo)
             At(task) == Working(task, j, s, todo \ {s})
             Set(status) == [steps EXCEPT ![j][s] = IF @ = "deleted" THEN @ ELSE status]
  <2>1. s \in Steps
    BY <1>3, LeastIsLeast
  <2>2. /\ job' = jobs
        /\ \/ worker' = [worker EXCEPT ![w] = At("wait")] /\ step' = Set("waiting")
           \/ worker' = [worker EXCEPT ![w] = At("prepare")] /\ step' = Set("preparing")
    BY <1>3 DEF Enter
  <2>3. ASSUME NEW task \in {"wait", "prepare"}
        PROVE  At(task) \in WorkerRecords /\ At(task).at \in Steps
    <3>1. s \in 0..Last
      BY <2>1, JobsAssumption DEF Steps
    <3> QED
      BY <2>1, <3>1, JobsAssumption DEF Working, WorkerRecords, Tasks
  <2>4. ASSUME NEW status \in {"waiting", "preparing"}
        PROVE  Set(status) \in [Jobs -> [Steps -> StepStatuses]]
    BY <2>1 DEF StepStatuses
  <2> HIDE DEF At, Set
  <2> QED
    BY <2>2, <2>3, <2>4 DEF RowsTyped, WorkersTyped, Busy
<1> QED
    BY <1>1, <1>2, <1>3

\* A record that a worker or an attempt keeps, with one field changed.
LEMMA FieldsStayTyped ==
    /\ \A rec \in WorkerRecords : \A task \in Tasks :
          [rec EXCEPT !.task = task] \in WorkerRecords
    /\ \A rec \in AttemptRecords : \A state \in AttemptStates :
          [rec EXCEPT !.state = state] \in AttemptRecords
    BY DEF WorkerRecords, AttemptRecords

LEMMA AttemptStaysTyped ==
    ASSUME AttemptsTyped, NEW i, NEW v \in AttemptStates
    PROVE  WithAttempt(i, v) \in Seq(AttemptRecords) /\ Len(WithAttempt(i, v)) = Len(attempts)
<1> DEFINE new == WithAttempt(i, v)
<1>1. Len(attempts) \in Nat /\ attempts \in [1..Len(attempts) -> AttemptRecords]
    BY DEF AttemptsTyped
<1>2. new \in [1..Len(attempts) -> AttemptRecords]
  <2>1. CASE i \in 1..Len(attempts)
    <3>1. [attempts[i] EXCEPT !.state = IF attempts[i].state = "gone" THEN attempts[i].state ELSE v]
             \in AttemptRecords
      BY <1>1, <2>1, FieldsStayTyped DEF AttemptRecords
    <3> QED
      BY <1>1, <3>1 DEF WithAttempt
  <2>2. CASE i \notin 1..Len(attempts)
    BY <1>1, <2>2 DEF WithAttempt
  <2> QED
    BY <2>1, <2>2
<1> QED
    BY <1>1, <1>2

LEMMA TaskTyped ==
    ASSUME WorkersTyped, NEW w \in Workers, Busy(w), NEW task \in Tasks,
           worker' = [worker EXCEPT ![w].task = task]
    PROVE  WorkersTyped'
<1>1. [worker[w] EXCEPT !.task = task] \in WorkerRecords
    BY FieldsStayTyped DEF WorkersTyped
<1>2. [worker[w] EXCEPT !.task = task].at = worker[w].at
    BY DEF WorkersTyped, WorkerRecords
<1> DEFINE rec == [worker[w] EXCEPT !.task = task]
<1>3. worker' = [worker EXCEPT ![w] = rec] /\ worker[w].at \in Steps
    BY DEF WorkersTyped
<1> HIDE DEF rec
<1> QED
    BY <1>1, <1>2, <1>3 DEF WorkersTyped, Busy, rec

LEMMA RaisedTyped ==
    ASSUME RowsTyped, WorkersTyped, NEW w \in Workers, Busy(w), StepRaised(w)
    PROVE  RowsTyped' /\ WorkersTyped'
<1>1. worker[w].job \in Jobs /\ worker[w].at \in Steps
    BY DEF WorkersTyped, WorkerRecords
<1> QED
    BY <1>1, RowsStayTyped, RestTyped DEF StepRaised, RowsTyped, JobStatuses, StepStatuses

LEMMA WorkerStepTyped ==
    ASSUME TypeInv, NEW w \in Workers, WorkerStep(w) PROVE TypeInv'
<1> USE DEF TypeInv
<1> DEFINE j == worker[w].job
           s == worker[w].at
           i == worker[w].attempt
<1>0. Busy(w) /\ j \in Jobs /\ s \in Steps /\ worker[w].todo \in SUBSET Steps
    BY DEF WorkerStep, WaitEnds, Prepared, Submitted, Resolved, WaitRaises, Unresolved, Refreshed,
           Busy, WorkersTyped, WorkerRecords
<1>a. UNCHANGED <<pausing, cancelling, landedLate, archived, request>> => FlagsTyped' /\ RequestsTyped'
    BY DEF FlagsTyped, RequestsTyped
<1>b. UNCHANGED <<attempts, chain>> => AttemptsTyped'
    BY DEF AttemptsTyped
<1>c. \A v \in AttemptStates : attempts' = WithAttempt(i, v) /\ UNCHANGED chain => AttemptsTyped'
    BY AttemptStaysTyped DEF AttemptsTyped
<1> USE DEF flags, records, database
<1>1. CASE WaitEnds(w)
  <2>1. FlagsTyped' /\ RequestsTyped' /\ AttemptsTyped'
    BY <1>1, <1>a, <1>b DEF WaitEnds
  <2>2. CASE FinishCancel(j) /\ Rest(w)
    BY <2>1, <2>2, <1>0, CancelTyped, RestTyped
  <2>3. CASE job' = WithJob(j, "paused") /\ Rest(w) /\ UNCHANGED step
    BY <2>1, <2>3, <1>0, RowsStayTyped, RestTyped DEF RowsTyped, JobStatuses
  <2>4. CASE /\ step' = WithStep(j, s, "preparing") /\ UNCHANGED job
             /\ worker' = [worker EXCEPT ![w].task = "prepare"]
    BY <2>1, <2>4, <1>0, RowsStayTyped, TaskTyped DEF RowsTyped, StepStatuses, Tasks
  <2> QED
    BY <1>1, <2>2, <2>3, <2>4 DEF WaitEnds
<1>2. CASE Prepared(w)
  <2>1. FlagsTyped' /\ RequestsTyped'
    BY <1>2, <1>a DEF Prepared
  <2>2. CASE StepRaised(w) /\ UNCHANGED <<attempts, chain>>
    BY <2>1, <2>2, <1>0, <1>b, RaisedTyped
  <2>3. CASE ~(StepRaised(w) /\ UNCHANGED <<attempts, chain>>)
    <3> DEFINE new == [job |-> j, step |-> s, state |-> "prepared",
                       number |-> Cardinality(Committed)]
    <3>1. new \in AttemptRecords
      BY <1>0, CommittedIsFinite DEF AttemptRecords, AttemptStates
    <3>2. /\ attempts' = Append(attempts, new) /\ Len(attempts) < MaxAttempts
          /\ chain' = Append(chain, "flying")
          /\ step' = WithStep(j, s, "submitting") /\ UNCHANGED job
          /\ worker' = [worker EXCEPT ![w].task = "submit", ![w].attempt = Len(attempts')]
      BY <1>2, <2>3 DEF Prepared
    <3> HIDE DEF new
    <3>3. AttemptsTyped' /\ Len(attempts') \in 0..MaxAttempts
      BY <3>1, <3>2, JobsAssumption DEF AttemptsTyped, Outcomes
    <3>4. RowsTyped'
      BY <3>2, <1>0, RowsStayTyped DEF RowsTyped, StepStatuses
    <3>5. WorkersTyped'
      <4> DEFINE rec == [worker[w] EXCEPT !.task = "submit", !.attempt = Len(attempts')]
      <4>1. rec \in WorkerRecords /\ rec.at = s
        BY <3>3 DEF WorkersTyped, WorkerRecords, Tasks
      <4>2. worker' = [worker EXCEPT ![w] = rec]
        BY <3>2 DEF WorkersTyped
      <4> HIDE DEF rec
      <4> QED
        BY <4>1, <4>2, <1>0 DEF WorkersTyped, Busy
    <3> QED
      BY <2>1, <3>3, <3>4, <3>5
  <2> QED
    BY <2>2, <2>3
<1>3. CASE Submitted(w)
    BY <1>3, <1>0, <1>a, <1>b, <1>c, TaskTyped DEF Submitted, RowsTyped, Tasks, AttemptStates
<1>4. CASE Resolved(w)
  <2>1. CASE /\ attempts' = WithAttempt(i, "confirmed") /\ step' = WithStep(j, s, "confirmed")
             /\ worker' = [worker EXCEPT ![w].task = "refresh"] /\ UNCHANGED job
    <3>1. AttemptsTyped' /\ FlagsTyped' /\ RequestsTyped'
      BY <1>4, <2>1, <1>a, <1>c DEF Resolved, AttemptStates
    <3>2. RowsTyped' /\ WorkersTyped'
      BY <2>1, <1>0, TaskTyped, RowsStayTyped DEF RowsTyped, Tasks, StepStatuses
    <3> QED
      BY <3>1, <3>2
  <2>2. CASE /\ attempts' = WithAttempt(i, "failed") /\ step' = WithStep(j, s, "failed")
             /\ job' = WithJob(j, "failed") /\ Rest(w)
    <3>1. AttemptsTyped' /\ FlagsTyped' /\ RequestsTyped'
      BY <1>4, <2>2, <1>a, <1>c DEF Resolved, AttemptStates
    <3>2. RowsTyped' /\ WorkersTyped'
      BY <2>2, <1>0, RestTyped, RowsStayTyped DEF RowsTyped, JobStatuses, StepStatuses
    <3> QED
      BY <3>1, <3>2
  <2> QED
    BY <1>4, <2>1, <2>2 DEF Resolved
<1>5. CASE WaitRaises(w)
    BY <1>5, <1>0, <1>a, <1>b, TaskTyped DEF WaitRaises, RowsTyped, Tasks
<1>6. CASE Unresolved(w)
    BY <1>6, <1>0, <1>a, <1>c, RestTyped, RowsStayTyped
    DEF Unresolved, Unknown, RowsTyped, AttemptStates, StepStatuses, JobStatuses
<1>7. CASE Refreshed(w)
  <2>1. FlagsTyped' /\ RequestsTyped' /\ AttemptsTyped'
    BY <1>7, <1>a, <1>b DEF Refreshed
  <2>2. CASE StepRaised(w)
    BY <2>1, <2>2, <1>0, RaisedTyped
  <2>3. CASE FinishCancel(j) /\ Rest(w)
    BY <2>1, <2>3, <1>0, CancelTyped, RestTyped
  <2>4. CASE job' = WithJob(j, "paused") /\ Rest(w) /\ UNCHANGED step
    BY <2>1, <2>4, <1>0, RowsStayTyped, RestTyped DEF RowsTyped, JobStatuses
  <2>5. CASE Enter(w, j, worker[w].todo, 0, job, step)
    BY <2>1, <2>5, <1>0, EnterTyped DEF RowsTyped
  <2> QED
    BY <1>7, <2>2, <2>3, <2>4, <2>5 DEF Refreshed
<1> QED
    BY <1>1, <1>2, <1>3, <1>4, <1>5, <1>6, <1>7 DEF WorkerStep

LEMMA StartTyped ==
    ASSUME TypeInv, NEW w \in Workers, NEW j \in Jobs, NEW skip,
           NEW steps \in [Jobs -> [Steps -> StepStatuses]], Start(w, j, skip, steps),
           UNCHANGED <<attempts, archived, chain, request, landedLate>>
    PROVE  TypeInv'
<1> DEFINE todo == In(steps[j], "pending") \cup In(steps[j], "waiting")
           jobs == [job EXCEPT ![j] = "running"]
<1>1. todo \in SUBSET Steps /\ jobs \in [Jobs -> JobStatuses]
    BY DEF In, TypeInv, RowsTyped, JobStatuses
<1>2. Enter(w, j, todo, skip, jobs, steps)
    BY DEF Start
<1> HIDE DEF todo, jobs
<1>3. RowsTyped' /\ WorkersTyped'
    BY <1>1, <1>2, EnterTyped DEF TypeInv
<1> QED
    BY <1>3 DEF Start, TypeInv, AttemptsTyped, RequestsTyped, FlagsTyped

LEMMA OperatorTyped == ASSUME TypeInv, Operator PROVE TypeInv'
<1> USE DEF TypeInv, flags, records, database
<1> SUFFICES ASSUME NEW j \in Jobs, NEW r,
                    \/ UpdateDraft(j) \/ ReorderPreview(j) \/ Confirm(j) \/ Pause(j) \/ Resume(j)
                    \/ RetryFailed(j) \/ Cancel(j) \/ Archive
                    \/ r \in Requests /\ (PreviewBegins(r, j) \/ ReconcileBegins(r, j))
             PROVE  TypeInv'
    BY JobsAssumption DEF Operator
<1>1. CASE UpdateDraft(j)
  <2> DEFINE new == [i \in Attempts |-> IF attempts[i].job # j THEN attempts[i]
                                        ELSE [attempts[i] EXCEPT !.state = "gone"]]
  <2>1. /\ Len(attempts) \in Nat /\ Attempts = 1..Len(attempts)
        /\ \A i \in Attempts : attempts[i] \in AttemptRecords
    BY DEF AttemptsTyped, Attempts
  <2>2. new \in [1..Len(attempts) -> AttemptRecords]
    BY <2>1, FieldsStayTyped DEF AttemptStates
  <2>3. new \in Seq(AttemptRecords) /\ Len(new) = Len(attempts)
    BY <2>1, <2>2
  <2>4. attempts' = new /\ UNCHANGED chain
    BY <1>1 DEF UpdateDraft
  <2>5. AttemptsTyped'
    BY <2>3, <2>4 DEF AttemptsTyped
  <2>6. RowsTyped' /\ WorkersTyped' /\ RequestsTyped' /\ FlagsTyped'
    BY <1>1 DEF UpdateDraft, RowsTyped, WorkersTyped, Busy, RequestsTyped, FlagsTyped,
                JobStatuses, StepStatuses
  <2> QED
    BY <2>5, <2>6
<1>2. CASE ReorderPreview(j) \/ Pause(j)
    BY <1>2, RowsStayTyped DEF ReorderPreview, Pause, RowsTyped, AttemptsTyped, WorkersTyped, Busy,
                               RequestsTyped, FlagsTyped
<1>3. CASE Confirm(j) \/ Resume(j)
  <2>1. PICK w \in Workers : Start(w, j, 0, step)
    BY <1>3 DEF Confirm, Resume
  <2>2. UNCHANGED <<attempts, archived, chain, request, landedLate>>
    BY <1>3 DEF Confirm, Resume
  <2> QED
    BY <2>1, <2>2, StartTyped DEF RowsTyped
<1>4. CASE RetryFailed(j)
  <2> DEFINE failed == In(step[j], "failed")
             first == Least(failed)
             again == IF job[j] = "completed" THEN failed ELSE {first}
             steps == [step EXCEPT ![j] = [s \in Steps |-> IF s \in again THEN "pending" ELSE @[s]]]
  <2>1. steps \in [Jobs -> [Steps -> StepStatuses]]
    BY DEF RowsTyped, StepStatuses
  <2>2. PICK w \in Workers : Start(w, j, first, steps)
    BY <1>4 DEF RetryFailed
  <2>3. UNCHANGED <<attempts, archived, chain, request, landedLate>>
    BY <1>4 DEF RetryFailed
  <2> HIDE DEF steps
  <2> QED
    BY <2>1, <2>2, <2>3, StartTyped
<1>5. CASE Cancel(j)
  <2>1. RowsTyped'
    BY <1>5, CancelTyped DEF Cancel, RowsTyped
  <2> QED
    BY <1>5, <2>1 DEF Cancel, AttemptsTyped, WorkersTyped, Busy, RequestsTyped, FlagsTyped
<1>6. CASE Archive
    BY <1>6 DEF Archive, RowsTyped, AttemptsTyped, WorkersTyped, Busy, RequestsTyped, FlagsTyped,
                JobStatuses, StepStatuses
<1>7. CASE r \in Requests /\ PreviewBegins(r, j)
  <2>1. Asking("preview", j, {}) \in RequestRecords
    BY DEF Asking, RequestRecords
  <2> QED
    BY <1>7, <2>1 DEF PreviewBegins, RowsTyped, AttemptsTyped, WorkersTyped, Busy, RequestsTyped,
                      FlagsTyped, Asking
<1>8. CASE r \in Requests /\ ReconcileBegins(r, j)
  <2> DEFINE open == {i \in Attempts : attempts[i].job = j /\ attempts[i].state = "uncertain"}
  <2>1. open \in SUBSET (1..MaxAttempts)
    BY JobsAssumption DEF AttemptsTyped, Attempts
  <2>2. Asking("reconcile", j, open) \in RequestRecords
    BY <2>1 DEF Asking, RequestRecords
  <2>3. open # {} /\ request' = [request EXCEPT ![r] = Asking("reconcile", j, open)]
    BY <1>8 DEF ReconcileBegins
  <2> HIDE DEF open
  <2>4. RequestsTyped'
    BY <2>2, <2>3 DEF RequestsTyped, Asking
  <2> QED
    BY <1>8, <2>4 DEF ReconcileBegins, RowsTyped, AttemptsTyped, WorkersTyped, Busy, FlagsTyped
<1> QED
    BY <1>1, <1>2, <1>3, <1>4, <1>5, <1>6, <1>7, <1>8

\* A status that a reconciliation leaves a job in.
LEMMA JudgedTyped == ASSUME NEW steps, NEW pending PROVE Judged(steps, pending) \in JobStatuses
    BY DEF Judged, JobStatuses

LEMMA RequestStepTyped ==
    ASSUME TypeInv, NEW r \in Requests, RequestStep(r) PROVE TypeInv'
<1> USE DEF TypeInv, flags, records, database
<1> DEFINE j == request[r].job
<1>1. j \in Jobs
    BY DEF RequestsTyped, RequestRecords
<1>2. request' = [request EXCEPT ![r] = NoRequest] => RequestsTyped'
    BY IdleTyped DEF RequestsTyped, NoRequest, Asking
<1>3. CASE PreviewEnds(r)
  <2>1. RowsTyped'
    BY <1>1, <1>3, RowsStayTyped DEF PreviewEnds, RowsTyped, JobStatuses
  <2> QED
    BY <1>2, <1>3, <2>1 DEF PreviewEnds, AttemptsTyped, WorkersTyped, Busy, FlagsTyped
<1>4. CASE ReconcileRaises(r)
    BY <1>2, <1>4 DEF ReconcileRaises, RowsTyped, AttemptsTyped, WorkersTyped, Busy, FlagsTyped
<1>5. CASE ReconcileNext(r)
  <2> DEFINE i == Least(request[r].todo)
             rest == request[r].todo \ {i}
  <2>1. WorkersTyped' /\ FlagsTyped'
    BY <1>5 DEF ReconcileNext, WorkersTyped, Busy, FlagsTyped
  <2>2. PICK answer \in Answers(i) :
          LET pending == request[r].pending \/ answer = "pending" IN
          /\ IF answer = "pending" THEN UNCHANGED <<attempts, step>>
             ELSE /\ attempts' = WithAttempt(i, answer)
                  /\ step' = WithStep(j, attempts[i].step, answer)
          /\ IF rest = {}
             THEN /\ job' = WithJob(j, Judged(step'[j], pending))
                  /\ request' = [request EXCEPT ![r] = NoRequest]
             ELSE /\ request' = [request EXCEPT ![r].todo = rest, ![r].pending = pending]
                  /\ UNCHANGED job
    BY <1>5, Zenon DEF ReconcileNext
  <2> DEFINE pending == request[r].pending \/ answer = "pending"
  <2>3. answer \in {"pending", "failed", "confirmed"}
    BY DEF Answers
  <2>4. AttemptsTyped'
    <3>1. UNCHANGED chain
      BY <1>5 DEF ReconcileNext
    <3> QED
      BY <2>2, <2>3, <3>1, AttemptStaysTyped DEF AttemptsTyped, AttemptStates
  <2>5. step' \in [Jobs -> [Steps -> StepStatuses]]
    <3>1. CASE attempts[i].step \in Steps
      BY SMTT(40), <1>1, <2>2, <2>3, <3>1, RowsStayTyped DEF RowsTyped, StepStatuses
    <3>2. CASE attempts[i].step \notin Steps
      BY <1>1, <2>2, <2>3, <3>2 DEF RowsTyped, WithStep
    <3> QED
      BY <3>1, <3>2
  <2>6. job' \in [Jobs -> JobStatuses]
    BY <1>1, <2>2, JudgedTyped, RowsStayTyped DEF RowsTyped
  <2>7. RequestsTyped'
    <3>1. CASE rest = {}
      BY <1>2, <2>2, <3>1
    <3>2. CASE rest # {}
      <4> DEFINE rec == [request[r] EXCEPT !.todo = rest, !.pending = pending]
      <4>1. rest \in SUBSET (1..MaxAttempts) /\ pending \in BOOLEAN
        BY DEF RequestsTyped, RequestRecords
      <4>2. request[r] \in RequestRecords
        BY DEF RequestsTyped
      <4> HIDE DEF rest, pending
      <4>3. rec \in RequestRecords /\ rec.todo = rest
        BY <4>1, <4>2 DEF RequestRecords
      <4>4. request' = [request EXCEPT ![r] = rec]
        BY <2>2, <3>2 DEF RequestsTyped, rest, pending
      <4> HIDE DEF rec
      <4> QED
        BY <3>2, <4>3, <4>4 DEF RequestsTyped
    <3> QED
      BY <3>1, <3>2
  <2> QED
    BY <2>1, <2>4, <2>5, <2>6, <2>7 DEF RowsTyped
<1> QED
    BY <1>3, <1>4, <1>5 DEF RequestStep

LEMMA ChainTyped ==
    ASSUME TypeInv, NEW i \in Attempts, Land(i) PROVE TypeInv'
<1>1. i \in 1..Len(chain) /\ chain \in [1..Len(chain) -> Outcomes] /\ Len(chain) \in Nat
    BY DEF TypeInv, AttemptsTyped, Attempts
<1>2. PICK outcome \in Outcomes : chain' = [chain EXCEPT ![i] = outcome]
    BY DEF Land, Outcomes
<1>3. chain' \in Seq(Outcomes) /\ Len(chain') = Len(chain)
    BY <1>1, <1>2
<1> QED
    BY <1>3 DEF Land, database, records, flags, TypeInv, RowsTyped, AttemptsTyped, WorkersTyped, Busy,
                RequestsTyped, FlagsTyped

LEMMA RestartTyped == ASSUME TypeInv, Restart PROVE TypeInv'
<1>1. RowsTyped'
    BY DEF TypeInv, RowsTyped, Restart, Interrupted, JobStatuses, StepStatuses
<1>2. WorkersTyped' /\ RequestsTyped'
    BY IdleTyped DEF Restart, WorkersTyped, RequestsTyped, Busy, NoWork, Working, NoRequest, Asking
<1> QED
    BY <1>1, <1>2 DEF Restart, TypeInv, AttemptsTyped, FlagsTyped

LEMMA NextTyped == TypeInv /\ [Next]_vars => TypeInv'
<1> SUFFICES ASSUME TypeInv, [Next]_vars PROVE TypeInv'
    OBVIOUS
<1>1. CASE UNCHANGED vars
    BY <1>1 DEF vars, database, records, flags, TypeInv, RowsTyped, AttemptsTyped, WorkersTyped, Busy,
                RequestsTyped, FlagsTyped
<1> QED
    BY <1>1, OperatorTyped, WorkerStepTyped, RequestStepTyped, ChainTyped, RestartTyped DEF Next

\* Every variable keeps its type, and every attempt its fate on the chain.
THEOREM TransfersTyped == Spec => []TypeOK
<1>1. Spec => []TypeInv
    BY InitTyped, NextTyped, PTL DEF Spec
<1> QED
    BY <1>1, TypesOK, PTL

(***************************************************************************)
(* One execution at a time: whoever starts a worker has seen that no other *)
(* job runs and that its own does not, and a worker's job keeps running    *)
(* until the worker returns.                                               *)
(***************************************************************************)
LEMMA IdleWorks == ASSUME \A w \in Workers : ~Busy(w)' PROVE WorkInv'
    BY DEF Busy, WorkInv, WorkingRuns, WorkingAt, OneExecution

\* Nobody but its worker touches a running job.
LEMMA OthersWork ==
    ASSUME TypeInv, WorkInv, UNCHANGED worker,
           \A k \in Jobs : job[k] = "running" => job'[k] = "running" /\ step'[k] = step[k]
    PROVE  WorkInv'
    BY DEF Busy, WorkInv, WorkingRuns, WorkingAt, OneExecution, TypeInv, WorkersTyped, WorkerRecords

LEMMA Alone ==
    ASSUME TypeInv, WorkInv, NEW w \in Workers, Busy(w)
    PROVE  \A v \in Workers : v # w => ~Busy(v)
    BY DEF WorkInv, OneExecution, Busy

LEMMA NobodyRuns ==
    ASSUME TypeInv, WorkInv, \A k \in Jobs : job[k] # "running"
    PROVE  \A v \in Workers : ~Busy(v)
    BY DEF WorkInv, WorkingRuns, Busy, TypeInv, WorkersTyped, WorkerRecords

LEMMA RestWorks ==
    ASSUME TypeInv, WorkInv, NEW w \in Workers, Busy(w), Rest(w) PROVE WorkInv'
<1>1. \A v \in Workers : ~Busy(v)'
    BY Alone DEF Rest, Busy, NoWork, Working, TypeInv, WorkersTyped
<1> QED
    BY <1>1, IdleWorks

LEMMA EnterWorks ==
    ASSUME WorkersTyped, NEW w \in Workers, NEW j \in Jobs, NEW todo \in SUBSET Steps, NEW skip,
           NEW jobs \in [Jobs -> JobStatuses], NEW steps \in [Jobs -> [Steps -> StepStatuses]],
           Enter(w, j, todo, skip, jobs, steps),
           \A v \in Workers : v # w => ~Busy(v),
           jobs[j] = "running", \A s \in todo : steps[j][s] \in {"pending", "waiting"}
    PROVE  WorkInv'
<1>1. CASE todo = {}
  <2>1. \A v \in Workers : ~Busy(v)'
    BY <1>1 DEF Enter, Rest, Busy, NoWork, Working, WorkersTyped
  <2> QED
    BY <2>1, IdleWorks
<1>2. CASE todo # {}
  <2> DEFINE s == Least(todo)
             At(task) == Working(task, j, s, todo \ {s})
             Set(status) == [steps EXCEPT ![j][s] = IF @ = "deleted" THEN @ ELSE status]
  <2>1. s \in todo /\ s \in Steps
    BY <1>2, LeastIsLeast
  <2>2. /\ job' = jobs
        /\ \/ worker' = [worker EXCEPT ![w] = At("wait")] /\ step' = Set("waiting")
           \/ worker' = [worker EXCEPT ![w] = At("prepare")] /\ step' = Set("preparing")
    BY <1>2 DEF Enter
  <2>3. PICK task \in {"wait", "prepare"} :
          worker' = [worker EXCEPT ![w] = At(task)] /\ step' = Set(StatusAt(task))
    BY <2>2 DEF StatusAt
  <2>4. worker'[w] = At(task) /\ \A v \in Workers : v # w => ~Busy(v)'
    BY <2>3 DEF Busy, WorkersTyped
  <2>5. /\ worker'[w].job = j /\ worker'[w].at = s /\ worker'[w].task = task
        /\ worker'[w].todo = todo \ {s}
    BY <2>4 DEF Working
  <2>6. step'[j][s] = StatusAt(task) /\ \A t \in todo \ {s} : step'[j][t] = steps[j][t]
    BY <2>1, <2>3 DEF StatusAt
  <2> HIDE DEF At, Set, s
  <2>7. WorkingRuns' /\ OneExecution'
    BY <2>2, <2>4, <2>5 DEF WorkingRuns, OneExecution, Busy
  <2>8. WorkingAt'
    BY <2>4, <2>5, <2>6 DEF WorkingAt, Busy
  <2> QED
    BY <2>7, <2>8 DEF WorkInv
<1> QED
    BY <1>1, <1>2

\* A worker goes on with its step.
LEMMA AdvanceWorks ==
    ASSUME TypeInv, WorkInv, NEW w \in Workers, Busy(w), NEW task \in Tasks,
           worker'[w].job = worker[w].job, worker'[w].at = worker[w].at,
           worker'[w].todo = worker[w].todo, worker'[w].task = task,
           \A v \in Workers : v # w => worker'[v] = worker[v],
           UNCHANGED job,
           \/ UNCHANGED step /\ StatusAt(task) = StatusAt(worker[w].task)
           \/ step' = WithStep(worker[w].job, worker[w].at, StatusAt(task))
    PROVE  WorkInv'
<1> DEFINE j == worker[w].job
           s == worker[w].at
<1>1. j \in Jobs /\ s \in Steps /\ worker[w].todo \in SUBSET Steps
    BY DEF TypeInv, WorkersTyped, WorkerRecords
<1>2. \A v \in Workers : v # w => ~Busy(v)'
    BY Alone DEF Busy
<1>3. /\ step[j][s] = StatusAt(worker[w].task) /\ job[j] = "running"
      /\ \A t \in worker[w].todo : step[j][t] \in {"pending", "waiting"} /\ t # s
    BY DEF WorkInv, WorkingAt, WorkingRuns
<1>4. step[j][s] # "deleted"
    BY <1>3 DEF StatusAt
<1>5. step'[j][s] = StatusAt(task) /\ \A t \in worker[w].todo : step'[j][t] = step[j][t]
    BY <1>1, <1>3, <1>4 DEF WithStep, TypeInv, RowsTyped
<1>6. WorkingRuns' /\ OneExecution'
    BY <1>2, <1>3 DEF WorkingRuns, OneExecution, Busy
<1>7. WorkingAt'
    BY <1>2, <1>3, <1>5 DEF WorkingAt, Busy
<1> QED
    BY <1>6, <1>7 DEF WorkInv

\* What a task field update leaves of a worker.
LEMMA TaskIsSet ==
    ASSUME TypeInv, NEW w \in Workers, NEW task, worker' = [worker EXCEPT ![w].task = task]
    PROVE  /\ worker'[w].job = worker[w].job /\ worker'[w].at = worker[w].at
           /\ worker'[w].todo = worker[w].todo /\ worker'[w].task = task
           /\ worker'[w].attempt = worker[w].attempt
           /\ \A v \in Workers : v # w => worker'[v] = worker[v]
    BY DEF TypeInv, WorkersTyped, WorkerRecords

LEMMA AttemptIsSet ==
    ASSUME TypeInv, NEW w \in Workers, NEW task, NEW n,
           worker' = [worker EXCEPT ![w].task = task, ![w].attempt = n]
    PROVE  /\ worker'[w].job = worker[w].job /\ worker'[w].at = worker[w].at
           /\ worker'[w].todo = worker[w].todo /\ worker'[w].task = task
           /\ worker'[w].attempt = n
           /\ \A v \in Workers : v # w => worker'[v] = worker[v]
    BY DEF TypeInv, WorkersTyped, WorkerRecords

LEMMA WorkerStepWorks ==
    ASSUME TypeInv, WorkInv, NEW w \in Workers, WorkerStep(w) PROVE WorkInv'
<1>0. Busy(w)
    BY DEF WorkerStep, WaitEnds, Prepared, Submitted, Resolved, WaitRaises, Unresolved, Refreshed, Busy
<1>1. CASE Rest(w)
    BY <1>0, <1>1, RestWorks
<1> USE DEF database, records, flags
<1>2. CASE WaitEnds(w) /\ ~Rest(w)
  <2>1. /\ worker' = [worker EXCEPT ![w].task = "prepare"] /\ UNCHANGED job
        /\ step' = WithStep(worker[w].job, worker[w].at, StatusAt("prepare"))
    BY <1>2 DEF WaitEnds, StatusAt
  <2> QED
    BY ZenonT(60), <1>0, <2>1, TaskIsSet, AdvanceWorks DEF Tasks
<1>3. CASE Prepared(w) /\ ~Rest(w)
  <2>1. /\ worker' = [worker EXCEPT ![w].task = "submit", ![w].attempt = Len(attempts')]
        /\ step' = WithStep(worker[w].job, worker[w].at, StatusAt("submit")) /\ UNCHANGED job
    BY <1>3 DEF Prepared, StepRaised, StatusAt
  <2> QED
    BY ZenonT(60), <1>0, <2>1, AttemptIsSet, AdvanceWorks DEF Tasks
<1>4. CASE Submitted(w) \/ WaitRaises(w)
  <2>1. PICK task \in {"confirm", "reconcile"} : worker' = [worker EXCEPT ![w].task = task]
    BY <1>4 DEF Submitted, WaitRaises
  <2>2. UNCHANGED <<job, step>> /\ worker[w].task \in {"submit", "confirm"}
    BY <1>4 DEF Submitted, WaitRaises
  <2>3. \A t \in {"submit", "confirm", "reconcile"} : StatusAt(t) = "submitting"
    BY DEF StatusAt
  <2>4. StatusAt(task) = StatusAt(worker[w].task)
    BY <2>2, <2>3
  <2> QED
    BY <1>0, <2>1, <2>2, <2>4, TaskIsSet, AdvanceWorks DEF Tasks
<1>5. CASE Resolved(w) /\ ~Rest(w)
  <2>1. /\ worker' = [worker EXCEPT ![w].task = "refresh"] /\ UNCHANGED job
        /\ step' = WithStep(worker[w].job, worker[w].at, StatusAt("refresh"))
    BY <1>5 DEF Resolved, StatusAt
  <2> QED
    BY ZenonT(60), <1>0, <2>1, TaskIsSet, AdvanceWorks DEF Tasks
<1>6. CASE Refreshed(w) /\ ~Rest(w)
  <2>1. Enter(w, worker[w].job, worker[w].todo, 0, job, step)
    BY <1>6 DEF Refreshed, StepRaised
  <2>2. /\ worker[w].job \in Jobs /\ worker[w].todo \in SUBSET Steps
        /\ job[worker[w].job] = "running"
        /\ \A s \in worker[w].todo : step[worker[w].job][s] \in {"pending", "waiting"}
    BY <1>0 DEF TypeInv, WorkersTyped, WorkerRecords, WorkInv, WorkingAt, WorkingRuns
  <2> QED
    BY <1>0, <2>1, <2>2, Alone, EnterWorks DEF TypeInv, RowsTyped
<1> QED
    BY <1>1, <1>2, <1>3, <1>4, <1>5, <1>6 DEF WorkerStep, Unresolved

LEMMA StartWorks ==
    ASSUME TypeInv, WorkInv, NEW w \in Workers, NEW j \in Jobs, NEW skip,
           NEW steps \in [Jobs -> [Steps -> StepStatuses]], Start(w, j, skip, steps),
           \A k \in Jobs : job[k] # "running"
    PROVE  WorkInv'
<1> DEFINE todo == In(steps[j], "pending") \cup In(steps[j], "waiting")
           jobs == [job EXCEPT ![j] = "running"]
<1>1. /\ todo \in SUBSET Steps /\ \A s \in todo : steps[j][s] \in {"pending", "waiting"}
      /\ jobs \in [Jobs -> JobStatuses] /\ jobs[j] = "running"
    BY DEF In, TypeInv, RowsTyped, JobStatuses
<1>2. Enter(w, j, todo, skip, jobs, steps)
    BY DEF Start
<1> HIDE DEF todo, jobs
<1> QED
    BY <1>1, <1>2, NobodyRuns, EnterWorks DEF TypeInv

LEMMA OperatorWorks == ASSUME TypeInv, WorkInv, Operator PROVE WorkInv'
<1> USE DEF flags, records, database
<1> SUFFICES ASSUME NEW j \in Jobs, NEW r,
                    \/ UpdateDraft(j) \/ ReorderPreview(j) \/ Confirm(j) \/ Pause(j) \/ Resume(j)
                    \/ RetryFailed(j) \/ Cancel(j) \/ Archive
                    \/ r \in Requests /\ (PreviewBegins(r, j) \/ ReconcileBegins(r, j))
             PROVE  WorkInv'
    BY JobsAssumption DEF Operator
<1>1. CASE Confirm(j) \/ Resume(j)
  <2>1. PICK w \in Workers : Start(w, j, 0, step)
    BY <1>1 DEF Confirm, Resume
  <2>2. \A k \in Jobs : job[k] # "running"
    BY <1>1 DEF Confirm, Resume, OtherActive, OtherIn, Active
  <2> QED
    BY <2>1, <2>2, StartWorks DEF TypeInv, RowsTyped
<1>2. CASE RetryFailed(j)
  <2> DEFINE failed == In(step[j], "failed")
             first == Least(failed)
             again == IF job[j] = "completed" THEN failed ELSE {first}
             steps == [step EXCEPT ![j] = [s \in Steps |-> IF s \in again THEN "pending" ELSE @[s]]]
  <2>1. steps \in [Jobs -> [Steps -> StepStatuses]]
    BY DEF TypeInv, RowsTyped, StepStatuses
  <2>2. PICK w \in Workers : Start(w, j, first, steps)
    BY <1>2 DEF RetryFailed
  <2>3. \A k \in Jobs : job[k] # "running"
    BY <1>2 DEF RetryFailed, OtherActive, OtherIn, Active
  <2> HIDE DEF steps
  <2> QED
    BY <2>1, <2>2, <2>3, StartWorks
<1>3. CASE UpdateDraft(j) \/ ReorderPreview(j) \/ Cancel(j)
  <2>1. UNCHANGED worker /\ (job[j] # "running" \/ UNCHANGED <<job, step>>)
    BY <1>3 DEF UpdateDraft, ReorderPreview, Cancel, Editable
  <2>2. \A k \in Jobs : k # j => job'[k] = job[k] /\ step'[k] = step[k]
    BY <1>3 DEF UpdateDraft, ReorderPreview, Cancel, FinishCancel, WithJob, AllPending, TypeInv, RowsTyped
  <2> QED
    BY <2>1, <2>2, OthersWork
<1>4. CASE Archive
    BY <1>4, OthersWork DEF Archive, Active
<1>5. CASE Pause(j) \/ (r \in Requests /\ (PreviewBegins(r, j) \/ ReconcileBegins(r, j)))
    BY <1>5, OthersWork DEF Pause, PreviewBegins, ReconcileBegins
<1> QED
    BY <1>1, <1>2, <1>3, <1>4, <1>5

LEMMA RequestStepWorks ==
    ASSUME TypeInv, WorkInv, Overwriting = FALSE, NEW r \in Requests, RequestStep(r)
    PROVE  WorkInv'
<1> DEFINE j == request[r].job
<1>1. j \in Jobs
    BY DEF TypeInv, RequestsTyped, RequestRecords
<1>2. UNCHANGED worker /\ (job[j] # "running" \/ UNCHANGED <<job, step>>)
    BY DEF RequestStep, PreviewEnds, ReconcileNext, ReconcileRaises, Editable, database, records
<1>3. \A k \in Jobs : k # j => job'[k] = job[k] /\ step'[k] = step[k]
  <2>1. \A k \in Jobs : k # j => /\ \A v : WithJob(j, v)[k] = job[k]
                                 /\ \A s, v : WithStep(j, s, v)[k] = step[k]
                                 /\ AllPending(j)[k] = step[k]
    BY <1>1 DEF WithJob, WithStep, AllPending, TypeInv, RowsTyped
  <2> QED
    BY <2>1 DEF RequestStep, PreviewEnds, ReconcileNext, ReconcileRaises, database, records
<1> QED
    BY <1>2, <1>3, OthersWork

LEMMA NextWorks ==
    ASSUME Overwriting = FALSE PROVE TypeInv /\ WorkInv /\ [Next]_vars => WorkInv'
<1> SUFFICES ASSUME TypeInv, WorkInv, [Next]_vars PROVE WorkInv'
    OBVIOUS
<1> USE DEF database, records, flags
<1>1. CASE UNCHANGED vars
    BY <1>1, OthersWork DEF vars
<1>2. CASE \E i \in Attempts : Land(i)
    BY <1>2, OthersWork DEF Land
<1>3. CASE Restart
    BY <1>3, IdleWorks DEF Restart, Busy, NoWork, Working
<1> QED
    BY <1>1, <1>2, <1>3, OperatorWorks, WorkerStepWorks, RequestStepWorks DEF Next

LEMMA InitWorks == Init => WorkInv
    BY DEF Init, WorkInv, WorkingRuns, WorkingAt, OneExecution, Busy, NoWork, Working

\* As long as no request writes over a job that has moved on, at most one
\* worker is at work, for whatever job: the status of the jobs is lock enough.
THEOREM OneWorkerAtATime == ASSUME Overwriting = FALSE PROVE Spec => []OneExecution
<1>1. Spec => [](TypeInv /\ WorkInv)
    BY InitTyped, NextTyped, InitWorks, NextWorks, PTL DEF Spec
<1> QED
    BY <1>1, PTL DEF WorkInv

(***************************************************************************)
(* Attempts: a step is signed anew only when all that was signed for it    *)
(* before has failed, so at most one of its attempts can ever be paid.     *)
(***************************************************************************)
LEMMA AttemptTypes ==
    ASSUME AttemptsTyped
    PROVE  /\ Attempts = 1..Len(attempts) /\ Len(attempts) \in Nat
           /\ \A i \in Attempts : attempts[i] \in AttemptRecords
    BY DEF AttemptsTyped, Attempts

LEMMA UpdatedAttempt ==
    ASSUME AttemptsTyped, NEW i \in Attempts, NEW v \in AttemptStates, attempts[i].state # "gone",
           attempts' = WithAttempt(i, v)
    PROVE  /\ Attempts' = Attempts
           /\ attempts'[i].state = v
           /\ \A k \in Attempts : /\ attempts'[k].job = attempts[k].job
                                  /\ attempts'[k].step = attempts[k].step
                                  /\ k # i => attempts'[k] = attempts[k]
<1>1. attempts[i] \in AttemptRecords /\ i \in DOMAIN attempts
    BY AttemptTypes DEF Attempts
<1>2. attempts' = [attempts EXCEPT ![i].state = v]
    BY <1>1 DEF WithAttempt
<1>3. DOMAIN attempts' = DOMAIN attempts
    BY <1>2
<1>4. attempts'[i] = [attempts[i] EXCEPT !.state = v] /\ \A k \in Attempts \ {i} : attempts'[k] = attempts[k]
    BY <1>1, <1>2, <1>3, AttemptTypes DEF Attempts, AttemptsTyped
<1>5. attempts'[i].state = v /\ attempts'[i].job = attempts[i].job /\ attempts'[i].step = attempts[i].step
    BY <1>1, <1>4 DEF AttemptRecords
<1> QED
    BY <1>3, <1>4, <1>5 DEF Attempts

Unsigned(j) == \A i \in Attempts : attempts[i].job # j
NoneReopened == \A j \in Jobs :
    job'[j] \in Editable \cup {"removed"} => job[j] \in Editable \cup {"removed"} \/ Unsigned(j)

\* Rows change, attempts do not.
LEMMA RowsMove ==
    ASSUME TypeInv, TrialInv, UNCHANGED <<attempts, chain, landedLate>>,
           ~archived' => ~archived, NoneReopened,
           \A j \in Jobs : \A s \in Steps :
              step'[j][s] \in Untried => step[j][s] \in Untried \/ Unsigned(j) \/ archived'
    PROVE  TrialInv'
<1>1. \A i \in Attempts : attempts[i].job \in Jobs /\ attempts[i].step \in Steps
    BY AttemptTypes DEF TypeInv, AttemptRecords
<1>2. Attempts' = Attempts
    BY DEF Attempts
<1>3. EditableIsUnsigned'
    BY <1>1, <1>2 DEF TrialInv, EditableIsUnsigned, NoneReopened, Unsigned
<1>4. StatesAreTrue' /\ OneLive'
    BY <1>2 DEF TrialInv, StatesAreTrue, OneLive, Same
<1>5. UntriedHasFailed'
    BY <1>1, <1>2 DEF TrialInv, UntriedHasFailed, Unsigned
<1> QED
    BY <1>3, <1>4, <1>5 DEF TrialInv

\* One open attempt changes its state, and its step with it.
LEMMA AttemptMoves ==
    ASSUME TypeInv, TrialInv, NEW i \in Attempts,
           attempts[i].state \in {"prepared", "submitted", "uncertain"},
           NEW v \in {"submitted", "uncertain", "confirmed", "failed"},
           attempts' = WithAttempt(i, v), UNCHANGED <<chain, landedLate, archived>>, NoneReopened,
           v = "confirmed" => chain[i] = "paid", v = "failed" => chain[i] # "paid",
           \/ UNCHANGED step /\ v # "failed"
           \/ step' = WithStep(attempts[i].job, attempts[i].step, v) /\ v # "submitted"
    PROVE  TrialInv'
<1>1. \A k \in Attempts : attempts[k].job \in Jobs /\ attempts[k].step \in Steps
    BY AttemptTypes DEF TypeInv, AttemptRecords
<1>2. /\ Attempts' = Attempts /\ attempts'[i].state = v
      /\ \A k \in Attempts : /\ attempts'[k].job = attempts[k].job
                             /\ attempts'[k].step = attempts[k].step
                             /\ k # i => attempts'[k] = attempts[k]
    BY UpdatedAttempt DEF AttemptStates, TypeInv
<1>3. EditableIsUnsigned'
    BY <1>1, <1>2 DEF TrialInv, EditableIsUnsigned, NoneReopened, Unsigned
<1>4. StatesAreTrue'
    BY <1>2 DEF TrialInv, StatesAreTrue
<1>5. OneLive'
    BY <1>2 DEF TrialInv, OneLive, Same
<1>6. UntriedHasFailed'
  <2> SUFFICES ASSUME ~archived, NEW k \in Attempts,
                      step'[attempts[k].job][attempts[k].step] \in Untried
               PROVE  attempts'[k].state = "failed"
    BY <1>2 DEF UntriedHasFailed
  <2>1. CASE ~Same(i, k)
    <3>1. step'[attempts[k].job][attempts[k].step] = step[attempts[k].job][attempts[k].step]
      BY SMTT(40), <1>1, <2>1 DEF WithStep, Same, TypeInv, RowsTyped
    <3> QED
      BY <1>2, <2>1, <3>1 DEF TrialInv, UntriedHasFailed, Same
  <2>2. CASE Same(i, k)
    <3>1. CASE v = "failed"
      BY <1>2, <2>2, <3>1 DEF TrialInv, OneLive
    <3>2. CASE v # "failed"
      <4>1. step'[attempts[k].job][attempts[k].step] = step[attempts[k].job][attempts[k].step]
        BY <1>1, <2>2, <3>2 DEF WithStep, Same, Untried, TypeInv, RowsTyped
      <4>2. attempts[i].state = "failed"
        BY <2>2, <4>1 DEF TrialInv, UntriedHasFailed, Same
      <4> QED
        BY <4>2
    <3> QED
      BY <3>1, <3>2
  <2> QED
    BY <2>1, <2>2
<1> QED
    BY <1>3, <1>4, <1>5, <1>6 DEF TrialInv

\* A transaction is signed for a step that is being prepared.
LEMMA AttemptSigned ==
    ASSUME TypeInv, TypeInv', TrialInv, NEW j \in Jobs, NEW s \in Steps, NEW n,
           step[j][s] = "preparing", job[j] = "running", UNCHANGED <<job, archived, landedLate>>,
           attempts' = Append(attempts, [job |-> j, step |-> s, state |-> "prepared", number |-> n]),
           chain' = Append(chain, "flying"), step' = WithStep(j, s, "submitting")
    PROVE  /\ TrialInv' /\ Attempts' = Attempts \cup {Len(attempts')} /\ Len(attempts') \notin Attempts
           /\ attempts'[Len(attempts')] = [job |-> j, step |-> s, state |-> "prepared", number |-> n]
           /\ \A k \in Attempts : attempts'[k] = attempts[k]
<1> DEFINE new == [job |-> j, step |-> s, state |-> "prepared", number |-> n]
           last == Len(attempts')
<1>1. /\ Attempts = 1..Len(attempts) /\ Len(attempts) \in Nat /\ Len(chain) = Len(attempts)
      /\ \A k \in Attempts : attempts[k].job \in Jobs /\ attempts[k].step \in Steps
    BY AttemptTypes DEF TypeInv, AttemptsTyped, AttemptRecords
<1>2. /\ last = Len(attempts) + 1 /\ Attempts' = 1..last
      /\ attempts'[last] = new /\ \A k \in Attempts : attempts'[k] = attempts[k]
      /\ chain'[last] = "flying" /\ \A k \in Attempts : chain'[k] = chain[k]
  <2>1. attempts \in Seq(AttemptRecords) /\ chain \in Seq(Outcomes)
    BY DEF TypeInv, AttemptsTyped
  <2>2. attempts' \in Seq(AttemptRecords)
    BY DEF TypeInv, AttemptsTyped
  <2> HIDE DEF new
  <2>3. last = Len(attempts) + 1
    BY <2>1, <1>1 DEF new
  <2>4. Attempts' = 1..last
    BY <2>2 DEF Attempts
  <2>5. attempts'[last] = new /\ \A k \in Attempts : attempts'[k] = attempts[k]
    BY <2>1, <2>3, <1>1 DEF new
  <2>6. chain'[last] = "flying" /\ \A k \in Attempts : chain'[k] = chain[k]
    BY <2>1, <2>3, <1>1
  <2> QED
    BY <2>3, <2>4, <2>5, <2>6
<1>3. Attempts' = Attempts \cup {last} /\ last \notin Attempts
    BY <1>1, <1>2
<1>4. new.job = j /\ new.step = s /\ new.state = "prepared"
    OBVIOUS
<1> HIDE DEF new, last
<1>5. EditableIsUnsigned'
    BY <1>2, <1>3, <1>4 DEF TrialInv, EditableIsUnsigned, Editable
<1>6. StatesAreTrue'
  <2>1. \A k \in Attempts : /\ attempts'[k].state = "confirmed" => chain'[k] = "paid"
                            /\ attempts'[k].state = "failed" /\ ~landedLate' => chain'[k] # "paid"
    BY <1>2 DEF TrialInv, StatesAreTrue
  <2>2. attempts'[last].state = "prepared"
    BY <1>2, <1>4
  <2> QED
    BY <1>3, <2>1, <2>2 DEF StatesAreTrue
<1>7. ~archived => \A k \in Attempts : attempts[k].job = j /\ attempts[k].step = s
                                        => attempts[k].state = "failed"
    BY DEF TrialInv, UntriedHasFailed, Untried
<1>8. OneLive'
    BY <1>2, <1>3, <1>4, <1>7 DEF TrialInv, OneLive, Same
<1>9. UntriedHasFailed'
  <2>1. /\ step'[j][s] = "submitting"
        /\ \A k \in Attempts :
              \/ attempts[k].job = j /\ attempts[k].step = s
              \/ step'[attempts[k].job][attempts[k].step] = step[attempts[k].job][attempts[k].step]
    BY <1>1 DEF WithStep, TypeInv, RowsTyped
  <2> QED
    BY SMTT(40), <1>2, <1>3, <1>4, <2>1 DEF TrialInv, UntriedHasFailed, Untried
<1> QED
    BY <1>2, <1>3, <1>5, <1>6, <1>8, <1>9 DEF TrialInv, new, last

LEMMA LandTries ==
    ASSUME TypeInv, TrialInv, NEW i \in Attempts, Land(i) PROVE TrialInv'
<1>1. UNCHANGED <<job, step, attempts, archived>> /\ Attempts' = Attempts
    BY DEF Land, database, records, Attempts
<1>2. /\ \A k \in Attempts : k # i => chain'[k] = chain[k]
      /\ chain[i] = "flying" /\ landedLate' = (landedLate \/ attempts[i].state = "failed")
    BY DEF Land, TypeInv, AttemptsTyped
<1>3. StatesAreTrue'
    BY <1>1, <1>2 DEF TrialInv, StatesAreTrue, TypeInv, FlagsTyped
<1>4. EditableIsUnsigned' /\ OneLive' /\ UntriedHasFailed'
    BY <1>1 DEF TrialInv, EditableIsUnsigned, OneLive, Same, UntriedHasFailed
<1> QED
    BY <1>3, <1>4 DEF TrialInv

\* Entering the loop opens no step that was not open.
LEMMA EnterTries ==
    ASSUME NEW w \in Workers, NEW j \in Jobs, NEW todo \in SUBSET Steps, NEW skip,
           NEW jobs \in [Jobs -> JobStatuses], NEW steps \in [Jobs -> [Steps -> StepStatuses]],
           Enter(w, j, todo, skip, jobs, steps),
           \A s \in todo : steps[j][s] \in {"pending", "waiting"}
    PROVE  /\ \A k \in Jobs : \A s \in Steps : step'[k][s] \in Untried => steps[k][s] \in Untried
           /\ \A k \in Jobs : job'[k] \in Editable \cup {"removed"}
                              => jobs[k] \in Editable \cup {"removed"}
<1>1. CASE todo = {} \/ jobs[j] = "removed"
    BY <1>1 DEF Enter, Verdict, Editable
<1>2. CASE todo # {} /\ jobs[j] # "removed"
  <2> DEFINE s == Least(todo)
  <2>1. s \in todo /\ s \in Steps
    BY <1>2, LeastIsLeast
  <2>2. job' = jobs /\ \E status : step' = [steps EXCEPT ![j][s] = IF @ = "deleted" THEN @ ELSE status]
    BY <1>2 DEF Enter
  <2> HIDE DEF s
  <2> QED
    BY <2>1, <2>2 DEF Untried
<1> QED
    BY <1>1, <1>2

\* finishCancel deletes a job only if nothing was signed for it.
LEMMA CancelTries ==
    ASSUME TypeInv, TrialInv, NEW j \in Jobs, FinishCancel(j)
    PROVE  /\ NoneReopened
           /\ \A k \in Jobs : \A s \in Steps : step'[k][s] \in Untried => step[k][s] \in Untried
<1>1. ~Attempted(j) => Unsigned(j)
    BY AttemptTypes DEF Attempted, AttemptsOf, Unsigned, TrialInv, EditableIsUnsigned, TypeInv,
                        AttemptRecords
<1>2. NoneReopened
    BY <1>1 DEF NoneReopened, FinishCancel, WithJob, Editable, TypeInv, RowsTyped
<1>3. \A k \in Jobs : \A s \in Steps : step'[k][s] \in {step[k][s], "deleted"}
  <2>1. CASE Attempted(j)
    <3> DEFINE left == [s \in Steps |-> IF AttemptsOf(j, s) = {} THEN "deleted" ELSE step[j][s]]
    <3>1. step' = [step EXCEPT ![j] = left]
      BY <2>1 DEF FinishCancel
    <3> QED
      BY <3>1 DEF TypeInv, RowsTyped
  <2>2. CASE ~Attempted(j)
    BY <2>2 DEF FinishCancel, TypeInv, RowsTyped
  <2> QED
    BY <2>1, <2>2
<1> QED
    BY <1>2, <1>3 DEF Untried

\* What starting a worker does to the rows.
LEMMA StartTries ==
    ASSUME TypeInv, NEW w \in Workers, NEW j \in Jobs, NEW skip,
           NEW steps \in [Jobs -> [Steps -> StepStatuses]], Start(w, j, skip, steps)
    PROVE  /\ \A k \in Jobs : \A s \in Steps : step'[k][s] \in Untried => steps[k][s] \in Untried
           /\ NoneReopened
<1> DEFINE todo == In(steps[j], "pending") \cup In(steps[j], "waiting")
           jobs == [job EXCEPT ![j] = "running"]
<1>1. /\ todo \in SUBSET Steps /\ \A s \in todo : steps[j][s] \in {"pending", "waiting"}
      /\ jobs \in [Jobs -> JobStatuses]
    BY DEF In, TypeInv, RowsTyped, JobStatuses
<1>2. Enter(w, j, todo, skip, jobs, steps)
    BY DEF Start
<1>3. \A k \in Jobs : jobs[k] \in Editable \cup {"removed"} => job[k] \in Editable \cup {"removed"}
    BY DEF Editable, TypeInv, RowsTyped
<1> HIDE DEF todo, jobs
<1>4. \A k \in Jobs : job'[k] \in Editable \cup {"removed"} => jobs[k] \in Editable \cup {"removed"}
    BY <1>1, <1>2, EnterTries
<1>5. \A k \in Jobs : \A s \in Steps : step'[k][s] \in Untried => steps[k][s] \in Untried
    BY <1>1, <1>2, EnterTries
<1> QED
    BY <1>3, <1>4, <1>5 DEF NoneReopened

LEMMA OperatorTries ==
    ASSUME TypeInv, TrialInv, Operator PROVE TrialInv' /\ Attempts' = Attempts /\ UNCHANGED attempts
<1> USE DEF flags, records, database
<1>0. \A j \in Jobs : job[j] \in Editable => Unsigned(j)
    BY DEF TrialInv, EditableIsUnsigned, Unsigned
<1>a. SUFFICES ASSUME NEW j \in Jobs, NEW r,
                    \/ UpdateDraft(j) \/ ReorderPreview(j) \/ Confirm(j) \/ Pause(j) \/ Resume(j)
                    \/ RetryFailed(j) \/ Cancel(j) \/ Archive
                    \/ r \in Requests /\ (PreviewBegins(r, j) \/ ReconcileBegins(r, j))
             PROVE  TrialInv' /\ UNCHANGED attempts
    BY JobsAssumption DEF Operator, Attempts
<1>1. CASE Confirm(j) \/ Resume(j)
  <2>1. PICK w \in Workers : Start(w, j, 0, step)
    BY <1>1 DEF Confirm, Resume
  <2>2. /\ NoneReopened
        /\ \A k \in Jobs : \A s \in Steps : step'[k][s] \in Untried => step[k][s] \in Untried
    BY <2>1, StartTries DEF TypeInv, RowsTyped
  <2> QED
    BY <1>1, <2>2, RowsMove DEF Confirm, Resume
<1>2. CASE RetryFailed(j)
  <2> DEFINE failed == In(step[j], "failed")
             first == Least(failed)
             again == IF job[j] = "completed" THEN failed ELSE {first}
             steps == [step EXCEPT ![j] = [s \in Steps |-> IF s \in again THEN "pending" ELSE @[s]]]
  <2>1. steps \in [Jobs -> [Steps -> StepStatuses]]
    BY DEF TypeInv, RowsTyped, StepStatuses
  <2>2. PICK w \in Workers : Start(w, j, first, steps)
    BY <1>2 DEF RetryFailed
  <2>3. failed # {} /\ failed \in SUBSET Steps
    BY <1>2 DEF RetryFailed, In
  <2>4. again \subseteq failed
    BY <2>3, LeastIsLeast
  <2>5. \A k \in Jobs : \A s \in Steps : steps[k][s] \in Untried => step[k][s] \in Untried
    BY <2>4 DEF In, Untried, TypeInv, RowsTyped
  <2> HIDE DEF steps, failed, again, first
  <2>6. /\ NoneReopened
        /\ \A k \in Jobs : \A s \in Steps : step'[k][s] \in Untried => steps[k][s] \in Untried
    BY <2>1, <2>2, StartTries
  <2> QED
    BY <1>2, <2>5, <2>6, RowsMove DEF RetryFailed
<1>3. CASE UpdateDraft(j)
  <2>1. Unsigned(j) /\ attempts' = [i \in Attempts |-> attempts[i]]
    BY <1>0, <1>3 DEF UpdateDraft, Unsigned
  <2>2. attempts' = attempts
    BY <2>1 DEF TypeInv, AttemptsTyped, Attempts
  <2>3. NoneReopened /\ \A k \in Jobs : k # j => step'[k] = step[k]
    BY <1>3 DEF UpdateDraft, NoneReopened, TypeInv, RowsTyped
  <2> QED
    BY <1>3, <2>1, <2>2, <2>3, RowsMove DEF UpdateDraft
<1>4. CASE ReorderPreview(j)
  <2>1. Unsigned(j) /\ NoneReopened /\ \A k \in Jobs : k # j => step'[k] = step[k]
    BY <1>0, <1>4 DEF ReorderPreview, Editable, AllPending, NoneReopened, TypeInv, RowsTyped
  <2> QED
    BY <1>4, <2>1, RowsMove DEF ReorderPreview
<1>5. CASE Cancel(j)
  <2>1. /\ NoneReopened
        /\ \A k \in Jobs : \A s \in Steps : step'[k][s] \in Untried => step[k][s] \in Untried
    BY <1>5, CancelTries DEF Cancel, NoneReopened
  <2> QED
    BY <1>5, <2>1, RowsMove DEF Cancel
<1>6. CASE Archive
  <2>1. NoneReopened
    BY <1>6 DEF Archive, NoneReopened, TypeInv, RowsTyped
  <2> QED
    BY <1>6, <2>1, RowsMove DEF Archive
<1>7. CASE Pause(j) \/ (r \in Requests /\ (PreviewBegins(r, j) \/ ReconcileBegins(r, j)))
  <2>1. NoneReopened /\ UNCHANGED <<records, archived, chain, landedLate>>
    BY <1>7 DEF Pause, PreviewBegins, ReconcileBegins, NoneReopened
  <2> QED
    BY <2>1, RowsMove
<1> QED
    BY <1>a, <1>1, <1>2, <1>3, <1>4, <1>5, <1>6, <1>7

LEMMA WorkerStepTries ==
    ASSUME TypeInv, TypeInv', WorkInv, TrialInv, WorkingFor, NEW w \in Workers, WorkerStep(w)
    PROVE  TrialInv'
<1> USE DEF flags, records, database
<1> DEFINE j == worker[w].job
           s == worker[w].at
           i == worker[w].attempt
<1>0. Busy(w)
    BY DEF WorkerStep, WaitEnds, Prepared, Submitted, Resolved, WaitRaises, Unresolved, Refreshed, Busy
<1>1. /\ j \in Jobs /\ s \in Steps /\ job[j] = "running" /\ step[j][s] = StatusAt(worker[w].task)
      /\ worker[w].todo \in SUBSET Steps
      /\ \A t \in worker[w].todo : step[j][t] \in {"pending", "waiting"}
    BY <1>0 DEF TypeInv, WorkersTyped, WorkerRecords, WorkInv, WorkingAt, WorkingRuns
<1>2. worker[w].task \in {"submit", "confirm", "reconcile"} =>
        /\ i \in Attempts /\ attempts[i].state \in {"prepared", "submitted"}
        /\ attempts[i].job = j /\ attempts[i].step = s
    BY DEF WorkingFor
<1>3. \A v \in {"paused", "failed", "uncertain"} : job' = WithJob(j, v) => NoneReopened
    BY <1>1 DEF NoneReopened, WithJob, Editable, TypeInv, RowsTyped
<1>4. UNCHANGED job => NoneReopened
    BY DEF NoneReopened
<1>5. \A v : step' = WithStep(j, s, v) /\ step[j][s] \in Untried =>
         \A k \in Jobs : \A t \in Steps : step'[k][t] \in Untried => step[k][t] \in Untried
    BY <1>1 DEF WithStep, TypeInv, RowsTyped
<1>6. CASE WaitEnds(w)
  <2>1. step[j][s] \in Untried
    BY <1>1, <1>6 DEF WaitEnds, StatusAt, Untried
  <2>2. /\ NoneReopened
        /\ \A k \in Jobs : \A t \in Steps : step'[k][t] \in Untried => step[k][t] \in Untried
    <3>1. CASE FinishCancel(j)
      BY <1>1, <3>1, CancelTries
    <3> QED
      BY <1>3, <1>4, <1>5, <1>6, <2>1, <3>1 DEF WaitEnds
  <2> QED
    BY <1>6, <2>2, RowsMove DEF WaitEnds
<1>7. CASE Prepared(w)
  <2>1. step[j][s] = "preparing"
    BY <1>1, <1>7 DEF Prepared, StatusAt
  <2>2. CASE StepRaised(w) /\ UNCHANGED <<attempts, chain>>
    BY <1>3, <1>5, <1>7, <2>1, <2>2, RowsMove DEF StepRaised, Prepared, Untried
  <2>3. CASE ~(StepRaised(w) /\ UNCHANGED <<attempts, chain>>)
    BY <1>1, <1>7, <2>1, <2>3, AttemptSigned DEF Prepared
  <2> QED
    BY <2>2, <2>3
<1>8. CASE Submitted(w)
  <2>1. CASE attempts' = WithAttempt(i, "submitted")
    BY <1>2, <1>4, <1>8, <2>1, AttemptMoves DEF Submitted
  <2>2. CASE UNCHANGED attempts
    BY <1>4, <1>8, <2>2, RowsMove DEF Submitted
  <2> QED
    BY <1>8, <2>1, <2>2 DEF Submitted
<1>9. CASE Resolved(w)
  <2>1. /\ i \in Attempts /\ attempts[i].state \in {"prepared", "submitted"}
        /\ attempts[i].job = j /\ attempts[i].step = s
    BY <1>2, <1>9 DEF Resolved
  <2>2. PICK v \in {"confirmed", "failed"} :
           /\ attempts' = WithAttempt(i, v) /\ step' = WithStep(j, s, v)
           /\ v = "confirmed" => chain[i] = "paid"
           /\ v = "failed" => chain[i] # "paid"
    BY <1>9 DEF Resolved
  <2>3. NoneReopened
    BY <1>3, <1>4, <1>9 DEF Resolved
  <2> QED
    BY <1>9, <2>1, <2>2, <2>3, AttemptMoves DEF Resolved
<1>10. CASE WaitRaises(w)
    BY <1>4, <1>10, RowsMove DEF WaitRaises
<1>11. CASE Unresolved(w)
  <2>1. /\ i \in Attempts /\ attempts[i].state \in {"prepared", "submitted"}
        /\ attempts[i].job = j /\ attempts[i].step = s
    BY <1>2, <1>11 DEF Unresolved
  <2> QED
    BY <1>3, <1>11, <2>1, AttemptMoves DEF Unresolved, Unknown
<1>12. CASE Refreshed(w)
  <2>1. CASE archived /\ StepRaised(w)
    <3>1. \A k \in Jobs : \A t \in Steps : step'[k][t] \in Untried => step[k][t] \in Untried \/ archived'
      BY <1>12, <2>1 DEF Refreshed
    <3> QED
      BY <1>3, <1>12, <2>1, <3>1, RowsMove DEF Refreshed, StepRaised
  <2>2. CASE FinishCancel(j)
    BY <1>1, <1>12, <2>2, CancelTries, RowsMove DEF Refreshed
  <2>3. CASE job' = WithJob(j, "paused") /\ UNCHANGED step
    BY <1>3, <1>12, <2>3, RowsMove DEF Refreshed
  <2>4. CASE Enter(w, j, worker[w].todo, 0, job, step)
    <3>0. job \in [Jobs -> JobStatuses] /\ step \in [Jobs -> [Steps -> StepStatuses]]
      BY DEF TypeInv, RowsTyped
    <3>1. \A k \in Jobs : \A t \in Steps : step'[k][t] \in Untried => step[k][t] \in Untried
      BY SMTT(40), <1>1, <2>4, <3>0, EnterTries
    <3>2. \A k \in Jobs : job'[k] \in Editable \cup {"removed"} => job[k] \in Editable \cup {"removed"}
      BY <1>1, <2>4, <3>0, EnterTries
    <3> QED
      BY <1>12, <3>1, <3>2, RowsMove DEF Refreshed, NoneReopened
  <2> QED
    BY <1>12, <2>1, <2>2, <2>3, <2>4 DEF Refreshed
<1> QED
    BY <1>6, <1>7, <1>8, <1>9, <1>10, <1>11, <1>12 DEF WorkerStep

LEMMA RequestStepTries ==
    ASSUME TypeInv, WorkInv, TrialInv, ReconcilesOwn, Overwriting = FALSE,
           NEW r \in Requests, RequestStep(r)
    PROVE  /\ TrialInv' /\ Attempts' = Attempts /\ UNCHANGED worker
           /\ \A k \in Attempts : /\ attempts'[k].job = attempts[k].job
                                  /\ attempts[k].state # "uncertain" => attempts'[k] = attempts[k]
<1> USE DEF flags, records, database
<1> DEFINE j == request[r].job
           i == Least(request[r].todo)
<1>1. j \in Jobs
    BY DEF TypeInv, RequestsTyped, RequestRecords
<1>2. CASE PreviewEnds(r)
  <2>1. /\ NoneReopened
        /\ \A k \in Jobs : k # j => step'[k] = step[k]
        /\ Unsigned(j) \/ UNCHANGED step
    BY <1>1, <1>2 DEF PreviewEnds, NoneReopened, Unsigned, TrialInv, EditableIsUnsigned, AllPending,
                      WithJob, TypeInv, RowsTyped
  <2> QED
    BY <1>2, <2>1, RowsMove DEF PreviewEnds, Attempts
<1>3. CASE ReconcileRaises(r)
    BY <1>3, RowsMove DEF ReconcileRaises, NoneReopened, Attempts
<1>4. CASE ReconcileNext(r)
  <2>1. /\ i \in Attempts /\ attempts[i].job = j /\ attempts[i].step \in Steps
        /\ attempts[i].state = "uncertain" /\ job[j] = "uncertain"
    <3>1. request[r].todo \in SUBSET Nat /\ request[r].todo # {}
      BY <1>4 DEF ReconcileNext, TypeInv, RequestsTyped, RequestRecords
    <3>2. i \in request[r].todo
      BY <3>1, LeastIsIn
    <3> QED
      BY <1>4, <3>2, AttemptTypes DEF ReconcileNext, ReconcilesOwn, TypeInv, AttemptRecords
  <2>2. PICK answer \in Answers(i) : \E pending :
          /\ IF answer = "pending" THEN UNCHANGED <<attempts, step>>
             ELSE /\ attempts' = WithAttempt(i, answer)
                  /\ step' = WithStep(j, attempts[i].step, answer)
          /\ UNCHANGED job \/ job' = WithJob(j, Judged(step'[j], pending))
    BY <1>4 DEF ReconcileNext
  <2>3. /\ answer \in {"pending", "failed", "confirmed"}
        /\ answer = "confirmed" => chain[i] = "paid"
        /\ answer = "failed" => chain[i] # "paid"
    BY DEF Answers
  <2>4. NoneReopened
    BY <1>1, <2>1, <2>2 DEF NoneReopened, WithJob, Judged, Editable, TypeInv, RowsTyped
  <2>5. CASE answer = "pending"
    BY <1>4, <2>2, <2>4, <2>5, RowsMove DEF ReconcileNext, Attempts
  <2>6. CASE answer # "pending"
    <3>1. TrialInv'
      BY <1>4, <2>1, <2>2, <2>3, <2>4, <2>6, AttemptMoves DEF ReconcileNext
    <3>2. /\ Attempts' = Attempts
          /\ \A k \in Attempts : /\ attempts'[k].job = attempts[k].job
                                 /\ k # i => attempts'[k] = attempts[k]
      BY <2>1, <2>2, <2>3, <2>6, UpdatedAttempt DEF AttemptStates, TypeInv
    <3> QED
      BY <1>4, <2>1, <3>1, <3>2 DEF ReconcileNext
  <2> QED
    BY <2>5, <2>6
<1> QED
    BY <1>2, <1>3, <1>4 DEF RequestStep, PreviewEnds, ReconcileRaises

LEMMA RestartTries == ASSUME TypeInv, TrialInv, Restart PROVE TrialInv'
<1>1. NoneReopened
    BY DEF NoneReopened, Restart, Editable
<1>2. \A k \in Jobs : \A s \in Steps : step'[k][s] \in Untried => step[k][s] \in Untried
    BY DEF Restart, Untried
<1> QED
    BY <1>1, <1>2, RowsMove DEF Restart

\* A worker that enters the loop awaits nothing of the chain.
LEMMA EnterAwaits ==
    ASSUME TypeInv, NEW w \in Workers, NEW j, NEW todo, NEW skip, NEW jobs, NEW steps,
           Enter(w, j, todo, skip, jobs, steps)
    PROVE  /\ worker'[w].task \in {"idle", "wait", "prepare"}
           /\ \A v \in Workers : v # w => worker'[v] = worker[v]
<1> DEFINE s == Least(todo)
<1>1. PICK rec \in {NoWork, Working("wait", j, s, todo \ {s}), Working("prepare", j, s, todo \ {s})} :
         worker' = [worker EXCEPT ![w] = rec]
    BY DEF Enter, Rest
<1>2. worker'[w] = rec
    BY <1>1 DEF TypeInv, WorkersTyped
<1>3. rec.task \in {"idle", "wait", "prepare"}
    BY DEF NoWork, Working
<1> QED
    BY <1>1, <1>2, <1>3 DEF TypeInv, WorkersTyped

LEMMA OperatorAwaits ==
    ASSUME TypeInv, TrialInv, WorkingFor, ReconcilesOwn, Operator PROVE WorkingFor' /\ ReconcilesOwn'
<1> USE DEF flags, records, database
<1>1. Attempts' = Attempts /\ attempts' = attempts
    BY OperatorTries
<1>2. UNCHANGED worker \/ \E w \in Workers : \E j, todo, skip, jobs, steps : Enter(w, j, todo, skip, jobs, steps)
    BY DEF Operator, Confirm, Resume, RetryFailed, Start, UpdateDraft, ReorderPreview, Pause, Cancel,
           Archive, PreviewBegins, ReconcileBegins
<1>3. WorkingFor'
    BY <1>1, <1>2, EnterAwaits DEF WorkingFor
<1>4. UNCHANGED request \/ \E r \in Requests, j \in Jobs : PreviewBegins(r, j) \/ ReconcileBegins(r, j)
    BY DEF Operator, Confirm, Resume, RetryFailed, UpdateDraft, ReorderPreview, Pause, Cancel, Archive
<1>5. ReconcilesOwn'
  <2>1. CASE UNCHANGED request
    BY <1>1, <2>1 DEF ReconcilesOwn
  <2>2. ASSUME NEW r \in Requests, NEW j \in Jobs, PreviewBegins(r, j) \/ ReconcileBegins(r, j)
        PROVE  ReconcilesOwn'
    <3>1. PICK kind, todo :
            /\ request' = [request EXCEPT ![r] = Asking(kind, j, todo)]
            /\ \A i \in todo : i \in Attempts /\ attempts[i].job = j
      BY <2>2 DEF PreviewBegins, ReconcileBegins
    <3>2. request'[r].todo = todo /\ request'[r].job = j
      BY <3>1 DEF Asking, TypeInv, RequestsTyped
    <3>3. \A q \in Requests : q # r => request'[q] = request[q]
      BY <3>1 DEF TypeInv, RequestsTyped
    <3> QED
      BY <1>1, <3>1, <3>2, <3>3 DEF ReconcilesOwn
  <2> QED
    BY <1>4, <2>1, <2>2
<1> QED
    BY <1>3, <1>5

LEMMA RequestStepAwaits ==
    ASSUME TypeInv, WorkInv, TrialInv, WorkingFor, ReconcilesOwn, Overwriting = FALSE,
           NEW r \in Requests, RequestStep(r)
    PROVE  WorkingFor' /\ ReconcilesOwn'
<1>1. /\ Attempts' = Attempts /\ UNCHANGED worker
      /\ \A k \in Attempts : /\ attempts'[k].job = attempts[k].job
                             /\ attempts[k].state # "uncertain" => attempts'[k] = attempts[k]
    BY RequestStepTries
<1>2. WorkingFor'
    BY <1>1 DEF WorkingFor
<1>3. \A q \in Requests : q # r => request'[q] = request[q]
    BY DEF RequestStep, PreviewEnds, ReconcileNext, ReconcileRaises, TypeInv, RequestsTyped
<1>4. \/ request'[r].kind = "none"
      \/ /\ request'[r].kind = request[r].kind /\ request'[r].job = request[r].job
         /\ request'[r].todo \subseteq request[r].todo
  <2>1. CASE request' = [request EXCEPT ![r] = NoRequest]
    BY <2>1 DEF NoRequest, Asking, TypeInv, RequestsTyped
  <2>2. ASSUME NEW todo \in SUBSET request[r].todo, NEW pending,
               request' = [request EXCEPT ![r].todo = todo, ![r].pending = pending]
        PROVE  /\ request'[r].kind = request[r].kind /\ request'[r].job = request[r].job
               /\ request'[r].todo \subseteq request[r].todo
    BY <2>2 DEF TypeInv, RequestsTyped, RequestRecords
  <2>3. \/ request' = [request EXCEPT ![r] = NoRequest]
        \/ \E todo \in SUBSET request[r].todo : \E pending :
              request' = [request EXCEPT ![r].todo = todo, ![r].pending = pending]
    BY DEF RequestStep, PreviewEnds, ReconcileNext, ReconcileRaises
  <2> QED
    BY <2>1, <2>2, <2>3
<1>5. ReconcilesOwn'
    BY <1>1, <1>3, <1>4 DEF ReconcilesOwn
<1> QED
    BY <1>2, <1>5

\* Attempts keep their job, and none is lost.
LEMMA ReconcilesStay ==
    ASSUME ReconcilesOwn, UNCHANGED request, Attempts \subseteq Attempts',
           \A k \in Attempts : attempts'[k].job = attempts[k].job
    PROVE  ReconcilesOwn'
    BY DEF ReconcilesOwn

LEMMA WorkerStepAwaits ==
    ASSUME TypeInv, TypeInv', WorkInv, TrialInv, WorkingFor, ReconcilesOwn,
           NEW w \in Workers, WorkerStep(w)
    PROVE  WorkingFor' /\ ReconcilesOwn'
<1> USE DEF flags, records, database
<1> DEFINE j == worker[w].job
           s == worker[w].at
           i == worker[w].attempt
<1>0. Busy(w)
    BY DEF WorkerStep, WaitEnds, Prepared, Submitted, Resolved, WaitRaises, Unresolved, Refreshed, Busy
<1>1. \A v \in Workers : v # w => worker[v].task = "idle"
    BY <1>0, Alone DEF Busy
<1>2. UNCHANGED request /\ \A v \in Workers : v # w => worker'[v] = worker[v]
  <2>1. \A v \in Workers : v # w => worker'[v] = worker[v]
    <3>1. CASE Refreshed(w) /\ ~Rest(w)
      BY <3>1, EnterAwaits DEF Refreshed, StepRaised
    <3> QED
      BY <3>1 DEF WorkerStep, WaitEnds, Prepared, Submitted, Resolved, WaitRaises, Unresolved,
                  StepRaised, Rest, TypeInv, WorkersTyped
  <2> QED
    BY <2>1 DEF WorkerStep, WaitEnds, Prepared, Submitted, Resolved, WaitRaises, Unresolved, Refreshed
<1>3. ASSUME worker'[w].task \notin {"submit", "confirm", "reconcile"}
      PROVE  WorkingFor'
    BY <1>1, <1>2, <1>3 DEF WorkingFor
<1>4. /\ j \in Jobs /\ s \in Steps /\ job[j] = "running" /\ step[j][s] = StatusAt(worker[w].task)
    BY <1>0 DEF TypeInv, WorkersTyped, WorkerRecords, WorkInv, WorkingAt, WorkingRuns
<1>5. \A k \in Attempts, v \in AttemptStates :
        /\ attempts[k].state # "gone"
        /\ attempts' = WithAttempt(k, v) => /\ Attempts' = Attempts /\ attempts'[k].state = v
                                            /\ \A l \in Attempts : /\ attempts'[l].job = attempts[l].job
                                                                   /\ attempts'[l].step = attempts[l].step
    BY UpdatedAttempt DEF TrialInv, EditableIsUnsigned, TypeInv
<1>6. UNCHANGED attempts => ReconcilesOwn'
    BY <1>2, ReconcilesStay DEF Attempts
<1>7. worker[w].task \in {"submit", "confirm", "reconcile"} =>
        /\ i \in Attempts /\ attempts[i].state \in {"prepared", "submitted"}
        /\ attempts[i].job = j /\ attempts[i].step = s
    BY DEF WorkingFor
<1>8. CASE WaitEnds(w)
  <2>1. worker'[w].task \in {"idle", "prepare"}
    BY <1>8, TaskIsSet DEF WaitEnds, Rest, NoWork, Working, TypeInv, WorkersTyped
  <2> QED
    BY <1>3, <1>6, <1>8, <2>1 DEF WaitEnds
<1>9. CASE Prepared(w)
  <2>1. CASE StepRaised(w) /\ UNCHANGED <<attempts, chain>>
    <3>1. worker'[w].task = "idle"
      BY <2>1 DEF StepRaised, Rest, NoWork, Working, TypeInv, WorkersTyped
    <3> QED
      BY <1>3, <1>6, <2>1, <3>1
  <2>2. CASE ~(StepRaised(w) /\ UNCHANGED <<attempts, chain>>)
    <3>1. step[j][s] = "preparing"
      BY <1>4, <1>9 DEF Prepared, StatusAt
    <3>a. PICK n : n = Len(attempts') /\ worker' = [worker EXCEPT ![w].task = "submit", ![w].attempt = n]
      BY <1>9, <2>2 DEF Prepared
    <3>2. worker'[w].attempt = n /\ worker'[w].job = j /\ worker'[w].at = s
      BY <3>a DEF TypeInv, WorkersTyped, WorkerRecords
    <3> DEFINE new == [job |-> j, step |-> s, state |-> "prepared", number |-> Cardinality(Committed)]
    <3>3. /\ Attempts' = Attempts \cup {Len(attempts')} /\ attempts'[Len(attempts')] = new
          /\ \A k \in Attempts : attempts'[k] = attempts[k]
      BY <1>4, <1>9, <2>2, <3>1, AttemptSigned DEF Prepared
    <3>4. new.job = j /\ new.step = s /\ new.state = "prepared"
      OBVIOUS
    <3> HIDE DEF new
    <3>5. WorkingFor'
      <4>1. /\ n \in Attempts' /\ attempts'[n].job = worker'[w].job
            /\ attempts'[n].step = worker'[w].at /\ attempts'[n].state = "prepared"
        BY <3>a, <3>2, <3>3, <3>4
      <4> QED
        BY <1>1, <1>2, <3>2, <4>1 DEF WorkingFor
    <3>6. ReconcilesOwn'
      BY <1>2, <3>3, ReconcilesStay
    <3> QED
      BY <3>5, <3>6
  <2> QED
    BY <2>1, <2>2
<1>10. CASE Submitted(w) \/ WaitRaises(w)
  <2>1. PICK task \in {"confirm", "reconcile"} : worker' = [worker EXCEPT ![w].task = task]
    BY <1>10 DEF Submitted, WaitRaises
  <2>2. /\ i \in Attempts /\ attempts[i].state \in {"prepared", "submitted"}
        /\ attempts[i].job = j /\ attempts[i].step = s
    BY <1>7, <1>10 DEF Submitted, WaitRaises
  <2>3. /\ Attempts' = Attempts /\ attempts'[i].state \in {"prepared", "submitted"}
        /\ \A l \in Attempts : /\ attempts'[l].job = attempts[l].job
                               /\ attempts'[l].step = attempts[l].step
    BY <1>5, <1>10, <2>2 DEF Submitted, WaitRaises, AttemptStates, Attempts
  <2>4. WorkingFor'
    BY <1>1, <1>2, <2>1, <2>2, <2>3, TaskIsSet DEF WorkingFor
  <2> QED
    BY <1>2, <2>3, <2>4, ReconcilesStay
<1>11. CASE Resolved(w) \/ Unresolved(w)
  <2>1. i \in Attempts
    BY <1>7, <1>11 DEF Resolved, Unresolved
  <2>2. PICK v \in AttemptStates : attempts' = WithAttempt(i, v)
    BY <1>11 DEF Resolved, Unresolved, Unknown, AttemptStates
  <2>3. worker'[w].task \in {"idle", "refresh"}
    BY <1>11, TaskIsSet DEF Resolved, Unresolved, Rest, NoWork, Working, TypeInv, WorkersTyped
  <2> QED
    BY <1>2, <1>3, <1>5, <2>1, <2>2, <2>3, ReconcilesStay
<1>12. CASE Refreshed(w)
  <2>1. worker'[w].task \in {"idle", "wait", "prepare"}
    BY <1>12, EnterAwaits DEF Refreshed, StepRaised, Rest, NoWork, Working, TypeInv, WorkersTyped
  <2> QED
    BY <1>3, <1>6, <1>12, <2>1 DEF Refreshed
<1> QED
    BY <1>8, <1>9, <1>10, <1>11, <1>12 DEF WorkerStep

LEMMA LandAwaits ==
    ASSUME WorkingFor, ReconcilesOwn, UNCHANGED <<attempts, worker, request>>
    PROVE  WorkingFor' /\ ReconcilesOwn'
    BY DEF WorkingFor, ReconcilesOwn, Attempts

LEMMA RestartAwaits == ASSUME Restart PROVE WorkingFor' /\ ReconcilesOwn'
    BY DEF Restart, NoWork, Working, NoRequest, Asking, WorkingFor, ReconcilesOwn

LEMMA InitTries == Init => AttemptInv
<1> SUFFICES ASSUME Init PROVE AttemptInv
    OBVIOUS
<1>1. Attempts = {}
    BY DEF Init, Attempts
<1>2. WorkingFor /\ ReconcilesOwn
    BY DEF Init, NoWork, Working, NoRequest, Asking, WorkingFor, ReconcilesOwn
<1> QED
    BY <1>1, <1>2 DEF AttemptInv, TrialInv, EditableIsUnsigned, StatesAreTrue, OneLive, UntriedHasFailed

LEMMA NextTries ==
    ASSUME Overwriting = FALSE PROVE TypeInv /\ TypeInv' /\ WorkInv /\ AttemptInv /\ [Next]_vars => AttemptInv'
<1> SUFFICES ASSUME TypeInv, TypeInv', WorkInv, AttemptInv, [Next]_vars PROVE AttemptInv'
    OBVIOUS
<1> USE DEF AttemptInv
<1>1. CASE Operator
    BY <1>1, OperatorTries, OperatorAwaits
<1>2. CASE \E w \in Workers : WorkerStep(w)
    BY <1>2, WorkerStepTries, WorkerStepAwaits
<1>3. CASE \E r \in Requests : RequestStep(r)
    BY <1>3, RequestStepTries, RequestStepAwaits
<1>4. CASE \E i \in Attempts : Land(i)
    BY <1>4, LandTries, LandAwaits DEF Land, database, records
<1>5. CASE Restart
    BY <1>5, RestartTries, RestartAwaits
<1>6. CASE UNCHANGED vars
  <2>1. UNCHANGED <<job, step, attempts, chain, archived, landedLate, worker, request>>
    BY <1>6 DEF vars, database, records, flags
  <2>2. TrialInv'
    BY <2>1, RowsMove DEF NoneReopened
  <2> QED
    BY <2>1, <2>2, LandAwaits
<1> QED
    BY <1>1, <1>2, <1>3, <1>4, <1>5, <1>6 DEF Next

\* Two transactions paid for one step would both be attempts that have not
\* failed.
LEMMA TriedOnce ==
    ASSUME TypeInv, TrialInv PROVE PaidOnce
<1> SUFFICES ASSUME ~landedLate, ~archived, NEW j \in Jobs, NEW s \in Steps
             PROVE  Cardinality(Paid(j, s)) <= 1
    BY DEF PaidOnce
<1>1. \A i, k \in Paid(j, s) : i = k
    BY DEF Paid, TrialInv, StatesAreTrue, OneLive, Same
<1>2. CASE Paid(j, s) = {}
    BY <1>2, FS_EmptySet
<1>3. CASE Paid(j, s) # {}
  <2>1. PICK i : i \in Paid(j, s)
    BY <1>3
  <2>2. Paid(j, s) = {i}
    BY <1>1, <2>1
  <2>3. Cardinality({i}) = 1
    BY FS_Singleton, Zenon
  <2> QED
    BY <2>2, <2>3
<1> QED
    BY <1>2, <1>3

\* As long as no request writes over a job that has moved on, a transfer is
\* made at most once, whatever is lost, paused, cancelled, restarted,
\* reconciled and retried, unless a transaction judged failed lands late or
\* the receiving wallet is archived.
THEOREM TransfersPayOnce == ASSUME Overwriting = FALSE PROVE Spec => []PaidOnce
<1>1. Spec => [](TypeInv /\ WorkInv /\ AttemptInv)
  <2>1. Init => TypeInv /\ WorkInv /\ AttemptInv
    BY InitTyped, InitWorks, InitTries
  <2>2. TypeInv /\ WorkInv /\ AttemptInv /\ [Next]_vars => (TypeInv /\ WorkInv /\ AttemptInv)'
    BY NextTyped, NextWorks, NextTries
  <2> QED
    BY <2>1, <2>2, PTL DEF Spec
<1>2. TypeInv /\ WorkInv /\ AttemptInv => PaidOnce
    BY TriedOnce DEF AttemptInv
<1> QED
    BY <1>1, <1>2, PTL

(***************************************************************************)
(* Payments: a step is confirmed only by an attempt that is paid, and a    *)
(* job completes only when every step it has left is confirmed.            *)
(***************************************************************************)
\* What a step does not undo: attempts and payments stay.
PaymentsStay ==
    /\ Attempts \subseteq Attempts'
    /\ \A k \in Attempts : /\ attempts'[k].job = attempts[k].job /\ attempts'[k].step = attempts[k].step
                           /\ chain[k] = "paid" => chain'[k] = "paid"
Confirms(j, s) ==
    step'[j][s] = "confirmed" => step[j][s] = "confirmed" \/ \E i \in Attempts : PaidBy(i, j, s)
Completes(j) ==
    job'[j] = "completed" => \/ job[j] = "completed" /\ \A s \in Steps : step'[j][s] = step[j][s]
                             \/ \A s \in Steps : step'[j][s] \in {"confirmed", "deleted"}

LEMMA PayMoves ==
    ASSUME PayInv, PaymentsStay, \A j \in Jobs : Completes(j) /\ \A s \in Steps : Confirms(j, s)
    PROVE  PayInv'
<1>1. \A j \in Jobs : \A s \in Steps : \A i \in Attempts : PaidBy(i, j, s) => PaidBy(i, j, s)'
    BY DEF PaidBy, PaymentsStay
<1>2. ConfirmedIsPaid'
    BY <1>1 DEF PayInv, ConfirmedIsPaid, Confirms, PaymentsStay
<1>3. CompletedIsConfirmed'
    BY DEF PayInv, CompletedIsConfirmed, Completes
<1> QED
    BY <1>2, <1>3 DEF PayInv

LEMMA VerdictIsEarned ==
    ASSUME NEW steps \in [Steps -> StepStatuses], NEW pending
    PROVE  /\ Verdict(steps) = "completed" => \A s \in Steps : steps[s] \in {"confirmed", "deleted"}
           /\ Judged(steps, pending) = "completed" => \A s \in Steps : steps[s] \in {"confirmed", "deleted"}
    BY DEF Verdict, Judged, Rows, In

LEMMA EnterPays ==
    ASSUME NEW w \in Workers, NEW j \in Jobs, NEW todo \in SUBSET Steps, NEW skip,
           NEW jobs \in [Jobs -> JobStatuses], NEW steps \in [Jobs -> [Steps -> StepStatuses]],
           Enter(w, j, todo, skip, jobs, steps), jobs[j] # "completed"
    PROVE  /\ \A k \in Jobs : \A s \in Steps : step'[k][s] = "confirmed" => steps[k][s] = "confirmed"
           /\ \A k \in Jobs : k # j => job'[k] = jobs[k] /\ \A s \in Steps : step'[k][s] = steps[k][s]
           /\ job'[j] = "completed" => \A s \in Steps : step'[j][s] \in {"confirmed", "deleted"}
<1>1. CASE jobs[j] = "removed"
    BY <1>1 DEF Enter
<1>2. CASE todo = {} /\ jobs[j] # "removed"
  <2>1. job' = [jobs EXCEPT ![j] = Verdict(steps[j])] /\ step' = steps
    BY <1>2 DEF Enter
  <2> QED
    BY <2>1, VerdictIsEarned
<1>3. CASE todo # {} /\ jobs[j] # "removed"
  <2> DEFINE s == Least(todo)
  <2>1. s \in todo /\ s \in Steps
    BY <1>3, LeastIsLeast
  <2>2. PICK status \in {"waiting", "preparing"} :
          job' = jobs /\ step' = [steps EXCEPT ![j][s] = IF @ = "deleted" THEN @ ELSE status]
    BY <1>3 DEF Enter
  <2> HIDE DEF s
  <2> QED
    BY <2>1, <2>2
<1> QED
    BY <1>1, <1>2, <1>3

LEMMA CancelPays ==
    ASSUME TypeInv, NEW j \in Jobs, FinishCancel(j), job[j] # "completed"
    PROVE  \A k \in Jobs : Completes(k) /\ \A s \in Steps : Confirms(k, s)
<1>1. \A k \in Jobs : k # j => job'[k] = job[k] /\ step'[k] = step[k]
    BY DEF FinishCancel, WithJob, TypeInv, RowsTyped
<1>2. job'[j] # "completed"
    BY DEF FinishCancel, WithJob, TypeInv, RowsTyped
<1>3. \A s \in Steps : step'[j][s] \in {step[j][s], "deleted"}
  <2>1. CASE Attempted(j)
    <3> DEFINE left == [s \in Steps |-> IF AttemptsOf(j, s) = {} THEN "deleted" ELSE step[j][s]]
    <3>1. step' = [step EXCEPT ![j] = left]
      BY <2>1 DEF FinishCancel
    <3> QED
      BY <3>1 DEF TypeInv, RowsTyped
  <2>2. CASE ~Attempted(j)
    BY <2>2 DEF FinishCancel, TypeInv, RowsTyped
  <2> QED
    BY <2>1, <2>2
<1> QED
    BY <1>1, <1>2, <1>3 DEF Completes, Confirms

LEMMA StartPays ==
    ASSUME TypeInv, NEW w \in Workers, NEW j \in Jobs, NEW skip,
           NEW steps \in [Jobs -> [Steps -> StepStatuses]], Start(w, j, skip, steps),
           \A k \in Jobs : \A s \in Steps : /\ steps[k][s] = "confirmed" => step[k][s] = "confirmed"
                                            /\ k # j => steps[k][s] = step[k][s]
    PROVE  \A k \in Jobs : Completes(k) /\ \A s \in Steps : Confirms(k, s)
<1> DEFINE todo == In(steps[j], "pending") \cup In(steps[j], "waiting")
           jobs == [job EXCEPT ![j] = "running"]
<1>1. todo \in SUBSET Steps /\ jobs \in [Jobs -> JobStatuses] /\ jobs[j] # "completed"
      /\ \A k \in Jobs : k # j => jobs[k] = job[k]
    BY DEF In, TypeInv, RowsTyped, JobStatuses
<1>2. Enter(w, j, todo, skip, jobs, steps)
    BY Zenon DEF Start
<1> HIDE DEF todo, jobs
<1>3. /\ \A k \in Jobs : \A s \in Steps : step'[k][s] = "confirmed" => steps[k][s] = "confirmed"
      /\ \A k \in Jobs : k # j => job'[k] = jobs[k] /\ \A s \in Steps : step'[k][s] = steps[k][s]
      /\ job'[j] = "completed" => \A s \in Steps : step'[j][s] \in {"confirmed", "deleted"}
    BY <1>1, <1>2, EnterPays
<1>4. ASSUME NEW k \in Jobs, NEW s \in Steps PROVE Confirms(k, s)
    BY <1>3 DEF Confirms
<1>5. ASSUME NEW k \in Jobs PROVE Completes(k)
  <2>1. CASE k = j
    BY <1>3, <2>1 DEF Completes
  <2>2. CASE k # j
    <3>1. job'[k] = job[k] /\ \A s \in Steps : step'[k][s] = step[k][s]
      BY <1>1, <1>3, <2>2
    <3> QED
      BY <3>1 DEF Completes
  <2> QED
    BY <2>1, <2>2
<1> QED
    BY <1>4, <1>5

LEMMA OperatorPays ==
    ASSUME TypeInv, TrialInv, PayInv, Operator PROVE PayInv'
<1> USE DEF flags, records, database
<1>1. PaymentsStay
    BY OperatorTries DEF PaymentsStay, Operator, UpdateDraft, ReorderPreview, Confirm, Pause, Resume,
                         RetryFailed, Cancel, Archive, PreviewBegins, ReconcileBegins
<1> SUFFICES ASSUME NEW j \in Jobs, NEW r,
                    \/ UpdateDraft(j) \/ ReorderPreview(j) \/ Confirm(j) \/ Pause(j) \/ Resume(j)
                    \/ RetryFailed(j) \/ Cancel(j) \/ Archive
                    \/ r \in Requests /\ (PreviewBegins(r, j) \/ ReconcileBegins(r, j))
             PROVE  \A k \in Jobs : Completes(k) /\ \A s \in Steps : Confirms(k, s)
    BY <1>1, PayMoves, JobsAssumption DEF Operator
<1>2. CASE Confirm(j) \/ Resume(j)
  <2>1. PICK w \in Workers : Start(w, j, 0, step)
    BY <1>2 DEF Confirm, Resume
  <2> QED
    BY <2>1, StartPays DEF TypeInv, RowsTyped
<1>3. CASE RetryFailed(j)
  <2> DEFINE failed == In(step[j], "failed")
             first == Least(failed)
             again == IF job[j] = "completed" THEN failed ELSE {first}
             steps == [step EXCEPT ![j] = [s \in Steps |-> IF s \in again THEN "pending" ELSE @[s]]]
  <2>1. steps \in [Jobs -> [Steps -> StepStatuses]]
    BY DEF TypeInv, RowsTyped, StepStatuses
  <2>2. PICK w \in Workers : Start(w, j, first, steps)
    BY <1>3 DEF RetryFailed
  <2> HIDE DEF again
  <2>3. \A k \in Jobs : \A s \in Steps : /\ steps[k][s] = "confirmed" => step[k][s] = "confirmed"
                                         /\ k # j => steps[k][s] = step[k][s]
    BY DEF TypeInv, RowsTyped
  <2> HIDE DEF steps, failed, first
  <2> QED
    BY <2>1, <2>2, <2>3, StartPays
<1>4. CASE UpdateDraft(j) \/ ReorderPreview(j)
  <2>1. /\ job'[j] # "completed" /\ \A s \in Steps : step'[j][s] # "confirmed"
        /\ \A k \in Jobs : k # j => job'[k] = job[k] /\ step'[k] = step[k]
    BY <1>4 DEF UpdateDraft, ReorderPreview, AllPending, TypeInv, RowsTyped
  <2> QED
    BY <2>1 DEF Completes, Confirms
<1>5. CASE Cancel(j)
  <2>1. CASE FinishCancel(j)
    BY <1>5, <2>1, CancelPays DEF Cancel, Editable
  <2>2. CASE UNCHANGED <<job, step>>
    BY <2>2 DEF Completes, Confirms
  <2> QED
    BY <1>5, <2>1, <2>2 DEF Cancel
<1>6. CASE Archive
    BY <1>6 DEF Archive, Editable, Completes, Confirms
<1>7. CASE Pause(j) \/ (r \in Requests /\ (PreviewBegins(r, j) \/ ReconcileBegins(r, j)))
    BY <1>7 DEF Pause, PreviewBegins, ReconcileBegins, Completes, Confirms
<1> QED
    BY <1>2, <1>3, <1>4, <1>5, <1>6, <1>7

LEMMA RequestStepPays ==
    ASSUME TypeInv, TypeInv', WorkInv, TrialInv, PayInv, ReconcilesOwn, Overwriting = FALSE,
           NEW r \in Requests, RequestStep(r)
    PROVE  PayInv'
<1> USE DEF flags, records, database
<1> DEFINE j == request[r].job
           i == Least(request[r].todo)
<1>1. j \in Jobs
    BY DEF TypeInv, RequestsTyped, RequestRecords
<1>2. UNCHANGED chain
    BY DEF RequestStep, PreviewEnds, ReconcileNext, ReconcileRaises
<1>3. CASE PreviewEnds(r)
  <2>1. PaymentsStay
    BY <1>2, <1>3 DEF PreviewEnds, PaymentsStay, Attempts
  <2>2. CASE UNCHANGED <<job, step>>
    BY <2>1, <2>2, PayMoves DEF Completes, Confirms
  <2>3. CASE ~UNCHANGED <<job, step>>
    <3>1. /\ job'[j] # "completed" /\ \A s \in Steps : step'[j][s] # "confirmed"
          /\ \A k \in Jobs : k # j => job'[k] = job[k] /\ step'[k] = step[k]
      <4>1. job' = WithJob(j, "previewed") /\ step' = AllPending(j)
        BY <1>3, <2>3 DEF PreviewEnds
      <4>2. job'[j] # "completed" /\ \A k \in Jobs : k # j => job'[k] = job[k]
        BY <1>1, <4>1 DEF WithJob, TypeInv, RowsTyped
      <4>3. step'[j] = [s \in Steps |-> IF step[j][s] = "deleted" THEN step[j][s] ELSE "pending"]
            /\ \A k \in Jobs : k # j => step'[k] = step[k]
        BY <1>1, <4>1 DEF AllPending, TypeInv, RowsTyped
      <4> QED
        BY <4>2, <4>3
    <3> QED
      BY <2>1, <3>1, PayMoves DEF Completes, Confirms
  <2> QED
    BY <2>2, <2>3
<1>4. CASE ReconcileRaises(r)
    BY <1>2, <1>4, PayMoves DEF ReconcileRaises, PaymentsStay, Attempts, Completes, Confirms
<1>5. CASE ReconcileNext(r)
  <2>1. /\ i \in Attempts /\ attempts[i].job = j /\ attempts[i].step \in Steps
        /\ attempts[i].state = "uncertain" /\ job[j] = "uncertain"
    <3>1. request[r].todo \in SUBSET Nat /\ request[r].todo # {}
      BY <1>5 DEF ReconcileNext, TypeInv, RequestsTyped, RequestRecords
    <3>2. i \in request[r].todo
      BY <3>1, LeastIsIn
    <3> QED
      BY <1>5, <3>2, AttemptTypes DEF ReconcileNext, ReconcilesOwn, TypeInv, AttemptRecords
  <2>2. PICK answer \in Answers(i) : \E pending :
          /\ IF answer = "pending" THEN UNCHANGED <<attempts, step>>
             ELSE /\ attempts' = WithAttempt(i, answer)
                  /\ step' = WithStep(j, attempts[i].step, answer)
          /\ UNCHANGED job \/ job' = WithJob(j, Judged(step'[j], pending))
    BY <1>5 DEF ReconcileNext
  <2>3. answer \in {"pending", "failed", "confirmed"} /\ (answer = "confirmed" => chain[i] = "paid")
    BY DEF Answers
  <2>4. PaymentsStay
    <3>1. Attempts' = Attempts /\ \A k \in Attempts : attempts'[k].job = attempts[k].job
                                                    /\ attempts'[k].step = attempts[k].step
      <4>1. CASE answer = "pending"
        BY <2>2, <4>1 DEF Attempts
      <4>2. CASE answer # "pending"
        BY <2>1, <2>2, <2>3, <4>2, UpdatedAttempt DEF AttemptStates, TypeInv
      <4> QED
        BY <4>1, <4>2
    <3> QED
      BY <1>2, <3>1 DEF PaymentsStay
  <2>5. \A k \in Jobs : \A s \in Steps : Confirms(k, s)
    BY <1>1, <2>1, <2>2, <2>3 DEF Confirms, PaidBy, WithStep, TypeInv, RowsTyped
  <2>6. Completes(j)
    <3> DEFINE steps == step'[j]
    <3>1. steps \in [Steps -> StepStatuses]
      BY <1>1 DEF TypeInv, RowsTyped
    <3> HIDE DEF steps
    <3>2. PICK pending : UNCHANGED job \/ job' = WithJob(j, Judged(steps, pending))
      BY <2>2 DEF steps
    <3>3. job[j] = "uncertain" /\ job'[j] # job[j] => job'[j] = Judged(steps, pending)
      BY <3>2 DEF WithJob, TypeInv, RowsTyped
    <3>4. job'[j] = "completed" => \A s \in Steps : steps[s] \in {"confirmed", "deleted"}
      BY <2>1, <3>1, <3>3, VerdictIsEarned
    <3> QED
      BY <3>4 DEF Completes, steps
  <2>7. \A k \in Jobs : k # j => Completes(k)
    BY <1>1, <2>2 DEF Completes, WithJob, WithStep, TypeInv, RowsTyped
  <2> QED
    BY <2>4, <2>5, <2>6, <2>7, PayMoves
<1> QED
    BY <1>3, <1>4, <1>5 DEF RequestStep

LEMMA WorkerStepPays ==
    ASSUME TypeInv, TypeInv', WorkInv, TrialInv, WorkingFor, PayInv, NEW w \in Workers, WorkerStep(w)
    PROVE  PayInv'
<1> USE DEF flags, records, database
<1> DEFINE j == worker[w].job
           s == worker[w].at
           i == worker[w].attempt
<1>0. Busy(w)
    BY DEF WorkerStep, WaitEnds, Prepared, Submitted, Resolved, WaitRaises, Unresolved, Refreshed, Busy
<1>1. /\ j \in Jobs /\ s \in Steps /\ job[j] = "running" /\ worker[w].todo \in SUBSET Steps
      /\ step[j][s] = StatusAt(worker[w].task)
    BY <1>0 DEF TypeInv, WorkersTyped, WorkerRecords, WorkInv, WorkingRuns, WorkingAt
<1>2. worker[w].task \in {"submit", "confirm", "reconcile"} =>
        i \in Attempts /\ attempts[i].job = j /\ attempts[i].step = s /\ attempts[i].state # "gone"
    BY DEF WorkingFor
<1>3. UNCHANGED <<attempts, chain>> => PaymentsStay
    BY DEF PaymentsStay, Attempts
<1>4. \A v \in AttemptStates :
        i \in Attempts /\ attempts[i].state # "gone" /\ attempts' = WithAttempt(i, v) /\ UNCHANGED chain
        => PaymentsStay
    BY UpdatedAttempt DEF PaymentsStay, TypeInv
\* the statuses a worker sets while it has its job
<1>5. ASSUME NEW v \in StepStatuses, step' = WithStep(j, s, v) \/ UNCHANGED step,
             v = "confirmed" => i \in Attempts /\ PaidBy(i, j, s),
             UNCHANGED job \/ job' = WithJob(j, "paused") \/ job' = WithJob(j, "failed")
                           \/ job' = WithJob(j, "uncertain"),
             PaymentsStay
      PROVE  PayInv'
  <2>1. /\ job'[j] # "completed"
        /\ \A k \in Jobs : k # j => job'[k] = job[k] /\ step'[k] = step[k]
    BY <1>1, <1>5 DEF WithJob, WithStep, TypeInv, RowsTyped
  <2>2. \A t \in Steps : step'[j][t] = step[j][t] \/ (t = s /\ step'[j][t] = v)
    BY <1>1, <1>5 DEF WithStep, TypeInv, RowsTyped
  <2>3. \A k \in Jobs : Completes(k)
    BY <2>1 DEF Completes
  <2>4. \A k \in Jobs : \A t \in Steps : Confirms(k, t)
    BY <1>5, <2>1, <2>2 DEF Confirms
  <2> QED
    BY <1>5, <2>3, <2>4, PayMoves
<1>6. CASE FinishCancel(j) /\ UNCHANGED <<attempts, chain>>
    BY <1>1, <1>3, <1>6, CancelPays, PayMoves
<1>7. CASE WaitEnds(w)
    BY <1>3, <1>5, <1>6, <1>7 DEF WaitEnds, StepStatuses
<1>8. CASE Prepared(w)
  <2>1. CASE StepRaised(w) /\ UNCHANGED <<attempts, chain>>
    BY <1>3, <1>5, <2>1 DEF StepRaised, StepStatuses
  <2>2. CASE ~(StepRaised(w) /\ UNCHANGED <<attempts, chain>>)
    <3> DEFINE new == [job |-> j, step |-> s, state |-> "prepared", number |-> Cardinality(Committed)]
    <3>1. step[j][s] = "preparing"
      BY <1>1, <1>8 DEF Prepared, StatusAt
    <3>2. /\ attempts' = Append(attempts, new) /\ chain' = Append(chain, "flying")
          /\ step' = WithStep(j, s, "submitting") /\ UNCHANGED <<job, archived, landedLate>>
      BY <1>8, <2>2 DEF Prepared
    <3>3. Attempts' = Attempts \cup {Len(attempts')} /\ \A k \in Attempts : attempts'[k] = attempts[k]
      BY <1>1, <3>1, <3>2, AttemptSigned
    <3>4. \A k \in Attempts : chain'[k] = chain[k]
      <4>1. Attempts = 1..Len(chain) /\ chain \in Seq(Outcomes)
        BY DEF Attempts, TypeInv, AttemptsTyped
      <4> QED
        BY <3>2, <4>1
    <3>5. PaymentsStay
      BY <3>3, <3>4 DEF PaymentsStay
    <3> QED
      BY <1>5, <3>2, <3>5 DEF StepStatuses
  <2> QED
    BY <2>1, <2>2
<1>9. CASE Submitted(w) \/ WaitRaises(w)
  <2>1. UNCHANGED <<job, step, chain>>
    BY <1>9 DEF Submitted, WaitRaises
  <2>2. PaymentsStay
    BY <1>2, <1>3, <1>4, <1>9 DEF Submitted, WaitRaises, AttemptStates
  <2> QED
    BY <1>5, <2>1, <2>2 DEF StepStatuses
<1>10. CASE Resolved(w)
  <2>1. PICK v \in {"confirmed", "failed"} :
           /\ attempts' = WithAttempt(i, v) /\ step' = WithStep(j, s, v) /\ UNCHANGED chain
           /\ v = "confirmed" => chain[i] = "paid"
           /\ UNCHANGED job \/ job' = WithJob(j, "failed")
    BY <1>10 DEF Resolved
  <2>2. PaymentsStay
    BY <1>2, <1>4, <1>10, <2>1 DEF Resolved, AttemptStates
  <2>3. v = "confirmed" => i \in Attempts /\ PaidBy(i, j, s)
    BY <1>2, <1>10, <2>1 DEF Resolved, PaidBy
  <2> QED
    BY <1>5, <2>1, <2>2, <2>3 DEF StepStatuses
<1>11. CASE Unresolved(w)
  <2>1. PaymentsStay
    BY <1>2, <1>4, <1>11 DEF Unresolved, Unknown, AttemptStates
  <2> QED
    BY <1>5, <1>11, <2>1 DEF Unresolved, Unknown, StepStatuses
<1>12. CASE Refreshed(w)
  <2>1. PaymentsStay
    BY <1>3, <1>12 DEF Refreshed
  <2>2. CASE Enter(w, j, worker[w].todo, 0, job, step)
    <3>1. job \in [Jobs -> JobStatuses] /\ step \in [Jobs -> [Steps -> StepStatuses]]
      BY DEF TypeInv, RowsTyped
    <3>2. /\ \A k \in Jobs : \A t \in Steps : step'[k][t] = "confirmed" => step[k][t] = "confirmed"
          /\ \A k \in Jobs : k # j => job'[k] = job[k] /\ \A t \in Steps : step'[k][t] = step[k][t]
          /\ job'[j] = "completed" => \A t \in Steps : step'[j][t] \in {"confirmed", "deleted"}
      BY SMTT(40), <1>1, <2>2, <3>1, EnterPays
    <3>3. ASSUME NEW k \in Jobs PROVE Completes(k) /\ \A t \in Steps : Confirms(k, t)
      BY <3>2 DEF Completes, Confirms
    <3> QED
      BY <2>1, <3>3, PayMoves
  <2>3. CASE ~Enter(w, j, worker[w].todo, 0, job, step)
    BY <1>5, <1>6, <1>12, <2>1, <2>3 DEF Refreshed, StepRaised, StepStatuses
  <2> QED
    BY <2>2, <2>3
<1> QED
    BY <1>7, <1>8, <1>9, <1>10, <1>11, <1>12 DEF WorkerStep

LEMMA NextPays ==
    ASSUME Overwriting = FALSE
    PROVE  TypeInv /\ TypeInv' /\ WorkInv /\ AttemptInv /\ PayInv /\ [Next]_vars => PayInv'
<1> SUFFICES ASSUME TypeInv, TypeInv', WorkInv, AttemptInv, PayInv, [Next]_vars PROVE PayInv'
    OBVIOUS
<1> USE DEF AttemptInv
<1>1. CASE Operator
    BY <1>1, OperatorPays
<1>2. CASE \E w \in Workers : WorkerStep(w)
    BY <1>2, WorkerStepPays
<1>3. CASE \E r \in Requests : RequestStep(r)
    BY <1>3, RequestStepPays
<1>4. CASE \E i \in Attempts : Land(i)
  <2>1. UNCHANGED <<job, step, attempts>> /\ \A k \in Attempts : chain[k] = "paid" => chain'[k] = "paid"
    BY <1>4 DEF Land, database, records, TypeInv, AttemptsTyped
  <2> QED
    BY <2>1, PayMoves DEF PaymentsStay, Attempts, Completes, Confirms
<1>5. CASE Restart
  <2>1. UNCHANGED <<attempts, chain>> /\ \A k \in Jobs : job'[k] = "completed" => job[k] = "completed"
    BY <1>5 DEF Restart
  <2>2. \A k \in Jobs : \A s \in Steps : step'[k][s] \in {step[k][s], "uncertain"}
                                       /\ (step[k][s] \in {"confirmed", "deleted"} => step'[k][s] = step[k][s])
    BY <1>5 DEF Restart, Interrupted
  <2>3. \A k \in Jobs : Completes(k) /\ \A s \in Steps : Confirms(k, s)
    BY <2>1, <2>2 DEF Completes, Confirms, PayInv, CompletedIsConfirmed
  <2> QED
    BY <2>1, <2>3, PayMoves DEF PaymentsStay, Attempts
<1>6. CASE UNCHANGED vars
    BY <1>6, PayMoves DEF PaymentsStay, Attempts, Completes, Confirms, vars, database, records
<1> QED
    BY <1>1, <1>2, <1>3, <1>4, <1>5, <1>6 DEF Next

LEMMA InitPays == Init => PayInv
    BY DEF Init, PayInv, ConfirmedIsPaid, CompletedIsConfirmed

\* As long as no request writes over a job that has moved on, a job shown as
\* completed has paid every one of its steps.
THEOREM TransfersCompletePaid == ASSUME Overwriting = FALSE PROVE Spec => []CompletedIsPaid
<1>1. Init => TypeInv /\ WorkInv /\ AttemptInv /\ PayInv
    BY InitTyped, InitWorks, InitTries, InitPays
<1>2. TypeInv /\ WorkInv /\ AttemptInv /\ PayInv /\ [Next]_vars
      => (TypeInv /\ WorkInv /\ AttemptInv /\ PayInv)'
    BY NextTyped, NextWorks, NextTries, NextPays
<1>3. PayInv => CompletedIsPaid
    BY DEF PayInv, ConfirmedIsPaid, CompletedIsConfirmed, CompletedIsPaid, Rows, Paid, PaidBy
<1> QED
    BY <1>1, <1>2, <1>3, PTL DEF Spec

(***************************************************************************)
(* Doubt: transactions whose outcome is open                               *)
(***************************************************************************)
Live(i) == attempts[i].state \in Open
Awaits(w) == worker[w].task \in {"submit", "confirm", "reconcile"}

\* A transaction with an open outcome keeps its step out of every loop, is
\* the only one of its job, is awaited while its step says so, and keeps
\* workers of its job from trying anything else.
LiveIsDoubted == \A i \in Attempts : Live(i) =>
    step[attempts[i].job][attempts[i].step] \in {"submitting", "uncertain"}
OneLiveAJob == \A i, k \in Attempts :
    Live(i) /\ Live(k) /\ attempts[i].job = attempts[k].job => i = k
SubmittingIsAwaited == \A j \in Jobs : \A s \in Steps : step[j][s] = "submitting" =>
    \E w \in Workers : Awaits(w) /\ worker[w].job = j /\ worker[w].at = s
TriesWithoutDoubt == \A w \in Workers : Busy(w) /\ ~Awaits(w) =>
    \A i \in Attempts : attempts[i].job = worker[w].job => ~Live(i)
DoubtInv == LiveIsDoubted /\ OneLiveAJob /\ SubmittingIsAwaited /\ TriesWithoutDoubt

NothingOpened ==
    /\ Attempts' = Attempts
    /\ \A i \in Attempts : /\ attempts'[i].job = attempts[i].job
                           /\ attempts'[i].step = attempts[i].step
                           /\ attempts'[i].state \in Open => Live(i)
StaysDoubted(i) ==
    step'[attempts[i].job][attempts[i].step] \in {"submitting", "uncertain"}

LEMMA DoubtMoves ==
    ASSUME DoubtInv, NothingOpened, SubmittingIsAwaited', TriesWithoutDoubt',
           \A i \in Attempts : attempts'[i].state \in Open => StaysDoubted(i)
    PROVE  DoubtInv'
<1>1. LiveIsDoubted'
    BY DEF NothingOpened, StaysDoubted, LiveIsDoubted, Live
<1>2. OneLiveAJob'
    BY DEF NothingOpened, DoubtInv, OneLiveAJob, Live
<1> QED
    BY <1>1, <1>2 DEF DoubtInv

\* A step under which the workers stay as they are.
LEMMA DoubtRests ==
    ASSUME DoubtInv, NothingOpened, UNCHANGED worker,
           \A k \in Jobs : \A s \in Steps : step'[k][s] = "submitting" => step[k][s] = "submitting",
           \A i \in Attempts : attempts'[i].state \in Open => StaysDoubted(i)
    PROVE  DoubtInv'
<1>1. SubmittingIsAwaited'
    BY DEF DoubtInv, SubmittingIsAwaited, Awaits
<1>2. TriesWithoutDoubt'
    BY DEF DoubtInv, TriesWithoutDoubt, NothingOpened, Awaits, Busy, Live
<1> QED
    BY <1>1, <1>2, DoubtMoves

\* Workers that await nothing leave no step submitting.
LEMMA NothingSubmits ==
    ASSUME DoubtInv, \A w \in Workers : ~Awaits(w)
    PROVE  \A j \in Jobs : \A s \in Steps : step[j][s] # "submitting"
    BY DEF DoubtInv, SubmittingIsAwaited

LEMMA EnterKeeps ==
    ASSUME TypeInv, NEW w \in Workers, NEW j \in Jobs, NEW todo \in SUBSET Steps, NEW skip, NEW jobs,
           NEW steps \in [Jobs -> [Steps -> StepStatuses]], Enter(w, j, todo, skip, jobs, steps)
    PROVE  /\ \A k \in Jobs : k # j => step'[k] = steps[k]
           /\ \A s \in Steps : step'[j][s] = "submitting" => steps[j][s] = "submitting"
           /\ worker'[w].task = "idle" \/ worker'[w].job = j
<1> DEFINE s == Least(todo)
<1>1. CASE step' = steps /\ Rest(w)
    BY <1>1 DEF Rest, NoWork, Working, TypeInv, WorkersTyped
<1>2. ASSUME NEW status \in {"waiting", "preparing"}, NEW task,
             step' = [steps EXCEPT ![j][s] = IF @ = "deleted" THEN @ ELSE status],
             worker' = [worker EXCEPT ![w] = Working(task, j, s, todo \ {s})]
      PROVE  /\ \A k \in Jobs : k # j => step'[k] = steps[k]
             /\ \A t \in Steps : step'[j][t] = "submitting" => steps[j][t] = "submitting"
             /\ worker'[w].job = j
  <2>1. worker'[w] = Working(task, j, s, todo \ {s})
    BY <1>2 DEF TypeInv, WorkersTyped
  <2> QED
    BY <1>2, <2>1 DEF Working
<1> QED
    BY <1>1, <1>2 DEF Enter

\* Entering the loop of a job with no open transaction, when nobody submits.
LEMMA EnterDoubts ==
    ASSUME TypeInv, DoubtInv, UNCHANGED attempts,
           NEW w \in Workers, NEW j \in Jobs, NEW todo \in SUBSET Steps, NEW skip, NEW jobs,
           NEW steps \in [Jobs -> [Steps -> StepStatuses]], Enter(w, j, todo, skip, jobs, steps),
           \A v \in Workers : v # w => ~Busy(v),
           \A k \in Jobs : \A s \in Steps : step[k][s] # "submitting",
           \A k \in Jobs : k # j => steps[k] = step[k],
           \A s \in Steps : steps[j][s] # "submitting",
           \A i \in Attempts : attempts[i].job = j => ~Live(i)
    PROVE  DoubtInv'
<1>1. /\ \A k \in Jobs : k # j => step'[k] = steps[k]
      /\ \A s \in Steps : step'[j][s] # "submitting"
      /\ worker'[w].task = "idle" \/ worker'[w].job = j
    BY EnterKeeps
<1>2. \A v \in Workers : v # w => worker'[v] = worker[v]
    BY EnterAwaits
<1>3. NothingOpened
    BY DEF NothingOpened, Attempts, Live
<1>4. SubmittingIsAwaited'
    BY <1>1 DEF SubmittingIsAwaited
<1>5. TriesWithoutDoubt'
    BY <1>1, <1>2 DEF TriesWithoutDoubt, Busy, Live, Attempts
<1>6. ASSUME NEW i \in Attempts, attempts'[i].state \in Open PROVE StaysDoubted(i)
  <2>1. Live(i) /\ attempts[i].job # j
    BY <1>6 DEF Live
  <2>2. attempts[i].job \in Jobs /\ attempts[i].step \in Steps
    BY AttemptTypes DEF TypeInv, AttemptRecords
  <2> QED
    BY <1>1, <2>1, <2>2 DEF DoubtInv, LiveIsDoubted, StaysDoubted
<1> QED
    BY <1>3, <1>4, <1>5, <1>6, DoubtMoves

LEMMA CancelDoubts ==
    ASSUME TypeInv, DoubtInv, NEW j \in Jobs, FinishCancel(j), UNCHANGED attempts
    PROVE  /\ \A k \in Jobs : \A s \in Steps : step'[k][s] = "submitting" => step[k][s] = "submitting"
           /\ \A i \in Attempts : Live(i) => StaysDoubted(i)
<1>1. /\ \A k \in Jobs : k # j => step'[k] = step[k]
      /\ \A s \in Steps : step'[j][s] \in {step[j][s], "deleted"}
      /\ \A s \in Steps : AttemptsOf(j, s) # {} => step'[j][s] = step[j][s]
    BY DEF FinishCancel, Attempted, TypeInv, RowsTyped
<1>2. ASSUME NEW i \in Attempts, Live(i) PROVE StaysDoubted(i)
  <2>1. attempts[i].job \in Jobs /\ attempts[i].step \in Steps
    BY AttemptTypes DEF TypeInv, AttemptRecords
  <2>2. i \in AttemptsOf(attempts[i].job, attempts[i].step)
    BY <1>2 DEF AttemptsOf, Live, Open
  <2>3. step'[attempts[i].job][attempts[i].step] = step[attempts[i].job][attempts[i].step]
    BY <1>1, <2>1, <2>2
  <2> QED
    BY <1>2, <2>3 DEF DoubtInv, LiveIsDoubted, StaysDoubted
<1> QED
    BY <1>1, <1>2

\* The operator may start a job only when it is free of doubt.
LEMMA StartDoubts ==
    ASSUME TypeInv, WorkInv, DoubtInv, UNCHANGED attempts, NEW w \in Workers, NEW j \in Jobs, NEW skip,
           NEW steps \in [Jobs -> [Steps -> StepStatuses]], Start(w, j, skip, steps),
           \A k \in Jobs : job[k] # "running",
           \A k \in Jobs : k # j => steps[k] = step[k],
           \A s \in Steps : steps[j][s] = "submitting" => step[j][s] = "submitting",
           ~Doubtful(j) \/ \A i \in Attempts : attempts[i].job # j
    PROVE  DoubtInv'
<1>1. \A v \in Workers : ~Busy(v)
    BY NobodyRuns
<1>2. \A k \in Jobs : \A s \in Steps : step[k][s] # "submitting"
    BY <1>1, NothingSubmits DEF Busy, Awaits
<1>3. \A i \in Attempts : attempts[i].job = j => ~Live(i)
  <2> SUFFICES ASSUME NEW i \in Attempts, attempts[i].job = j, Live(i), ~Doubtful(j) PROVE FALSE
    OBVIOUS
  <2>1. attempts[i].step \in Steps
    BY AttemptTypes DEF TypeInv, AttemptRecords
  <2>2. step[j][attempts[i].step] = "uncertain"
    BY <1>2, <2>1 DEF DoubtInv, LiveIsDoubted
  <2> QED
    BY <2>1, <2>2 DEF Doubtful, In
<1> DEFINE todo == In(steps[j], "pending") \cup In(steps[j], "waiting")
<1>4. todo \in SUBSET Steps
    BY DEF In
<1>5. Enter(w, j, todo, skip, [job EXCEPT ![j] = "running"], steps)
    BY DEF Start
<1> HIDE DEF todo
<1> QED
    BY <1>1, <1>2, <1>3, <1>4, <1>5, EnterDoubts

LEMMA OperatorDoubts ==
    ASSUME TypeInv, WorkInv, TrialInv, DoubtInv, Operator PROVE DoubtInv'
<1> USE DEF flags, records, database
<1>0. UNCHANGED attempts /\ Attempts' = Attempts
    BY OperatorTries
<1>a. NothingOpened
    BY <1>0 DEF NothingOpened, Live
<1>b. \A j \in Jobs : job[j] \in Editable => \A i \in Attempts : attempts[i].job # j
    BY DEF TrialInv, EditableIsUnsigned
<1>c. \A i \in Attempts : attempts[i].job \in Jobs /\ attempts[i].step \in Steps
    BY AttemptTypes DEF TypeInv, AttemptRecords
\* rows of jobs with a transaction stay as they are
<1>d. ASSUME UNCHANGED worker,
             \A k \in Jobs : \/ step'[k] = step[k]
                             \/ /\ \A s \in Steps : step'[k][s] # "submitting"
                                /\ \A i \in Attempts : attempts[i].job # k
      PROVE  DoubtInv'
  <2>1. \A i \in Attempts : Live(i) => StaysDoubted(i)
    BY <1>c, <1>d DEF DoubtInv, LiveIsDoubted, StaysDoubted
  <2> QED
    BY <1>0, <1>a, <1>d, <2>1, DoubtRests DEF Live
<1> SUFFICES ASSUME NEW j \in Jobs, NEW r,
                    \/ UpdateDraft(j) \/ ReorderPreview(j) \/ Confirm(j) \/ Pause(j) \/ Resume(j)
                    \/ RetryFailed(j) \/ Cancel(j) \/ Archive
                    \/ r \in Requests /\ (PreviewBegins(r, j) \/ ReconcileBegins(r, j))
             PROVE  DoubtInv'
    BY JobsAssumption DEF Operator
<1>1. CASE Confirm(j) \/ Resume(j)
  <2>1. PICK w \in Workers : Start(w, j, 0, step)
    BY <1>1 DEF Confirm, Resume
  <2>2. \A k \in Jobs : job[k] # "running"
    BY <1>1 DEF Confirm, Resume, OtherActive, OtherIn, Active
  <2>3. ~Doubtful(j) \/ \A i \in Attempts : attempts[i].job # j
    BY <1>1, <1>b DEF Confirm, Resume, Editable
  <2> QED
    BY <1>0, <2>1, <2>2, <2>3, StartDoubts DEF TypeInv, RowsTyped
<1>2. CASE RetryFailed(j)
  <2> DEFINE failed == In(step[j], "failed")
             first == Least(failed)
             again == IF job[j] = "completed" THEN failed ELSE {first}
             steps == [step EXCEPT ![j] = [s \in Steps |-> IF s \in again THEN "pending" ELSE @[s]]]
  <2>1. PICK w \in Workers : Start(w, j, first, steps)
    BY <1>2 DEF RetryFailed
  <2>2. ~Doubtful(j) /\ \A k \in Jobs : job[k] # "running"
    BY <1>2 DEF RetryFailed, OtherActive, OtherIn, Active
  <2> HIDE DEF again, first, failed
  <2>3. /\ steps \in [Jobs -> [Steps -> StepStatuses]]
        /\ \A k \in Jobs : k # j => steps[k] = step[k]
        /\ \A s \in Steps : steps[j][s] = "submitting" => step[j][s] = "submitting"
    BY DEF TypeInv, RowsTyped, StepStatuses
  <2> HIDE DEF steps
  <2> QED
    BY <1>0, <2>1, <2>2, <2>3, StartDoubts
<1>3. CASE UpdateDraft(j)
  <2>1. /\ \A k \in Jobs : k # j => step'[k] = step[k]
        /\ \A s \in Steps : step'[j][s] # "submitting"
    BY <1>3 DEF UpdateDraft, TypeInv, RowsTyped
  <2> QED
    BY <1>b, <1>d, <1>3, <2>1 DEF UpdateDraft
<1>4. CASE ReorderPreview(j)
  <2>1. /\ \A k \in Jobs : k # j => step'[k] = step[k]
        /\ \A s \in Steps : step'[j][s] # "submitting"
    BY <1>4 DEF ReorderPreview, AllPending, TypeInv, RowsTyped
  <2> QED
    BY <1>b, <1>d, <1>4, <2>1 DEF ReorderPreview, Editable
<1>5. CASE Cancel(j)
  <2>1. CASE FinishCancel(j)
    BY <1>0, <1>a, <1>5, <2>1, CancelDoubts, DoubtRests DEF Cancel, Live
  <2> QED
    BY <1>d, <1>5, <2>1 DEF Cancel
<1>6. CASE Archive
  <2>1. \A k \in Jobs : IF job[k] \in Editable THEN step'[k] = [s \in Steps |-> "deleted"]
                        ELSE step'[k] = step[k]
    BY <1>6 DEF Archive
  <2> QED
    BY <1>b, <1>d, <1>6, <2>1 DEF Archive
<1>7. CASE Pause(j) \/ (r \in Requests /\ (PreviewBegins(r, j) \/ ReconcileBegins(r, j)))
    BY <1>d, <1>7 DEF Pause, PreviewBegins, ReconcileBegins
<1> QED
    BY <1>1, <1>2, <1>3, <1>4, <1>5, <1>6, <1>7

Advances(w) == \E task : worker' = [worker EXCEPT ![w].task = task]

LEMMA WorkerStepDoubts ==
    ASSUME TypeInv, TypeInv', WorkInv, WorkInv', TrialInv, WorkingFor, DoubtInv,
           NEW w \in Workers, WorkerStep(w)
    PROVE  DoubtInv'
<1> USE DEF flags, records, database
<1> DEFINE j == worker[w].job
           s == worker[w].at
           i == worker[w].attempt
<1>0. Busy(w)
    BY DEF WorkerStep, WaitEnds, Prepared, Submitted, Resolved, WaitRaises, Unresolved, Refreshed, Busy
<1>1. /\ j \in Jobs /\ s \in Steps /\ worker[w].todo \in SUBSET Steps
      /\ step[j][s] = StatusAt(worker[w].task) /\ job[j] = "running"
    BY <1>0 DEF TypeInv, WorkersTyped, WorkerRecords, WorkInv, WorkingAt, WorkingRuns
<1>2. \A v \in Workers : v # w => ~Busy(v)
    BY <1>0, Alone
<1>3. Awaits(w) =>
        i \in Attempts /\ attempts[i].job = j /\ attempts[i].step = s /\ Live(i)
    BY DEF WorkingFor, Awaits, Live, Open
<1>4. \A k \in Attempts : attempts[k].job = j /\ Live(k) => Awaits(w) /\ k = i
    BY <1>0, <1>3 DEF DoubtInv, TriesWithoutDoubt, OneLiveAJob
<1>5. \A k \in Jobs : \A t \in Steps : step[k][t] = "submitting" => Awaits(w) /\ k = j /\ t = s
    BY <1>2 DEF DoubtInv, SubmittingIsAwaited, Awaits, Busy
<1>6. \A k \in Attempts : attempts[k].job \in Jobs /\ attempts[k].step \in Steps
    BY AttemptTypes DEF TypeInv, AttemptRecords
<1>7. UNCHANGED attempts => NothingOpened
    BY DEF NothingOpened, Attempts, Live
<1>8. ASSUME NEW v \in AttemptStates, Awaits(w), attempts' = WithAttempt(i, v)
      PROVE  NothingOpened /\ attempts'[i].state = v
  <2>1. i \in Attempts /\ Live(i) /\ attempts[i].state # "gone"
    BY <1>3, <1>8 DEF Live, Open
  <2> QED
    BY <1>8, <2>1, UpdatedAttempt DEF NothingOpened, Live, TypeInv
\* the worker ends, or goes on with its step
<1>9. ASSUME NothingOpened, NEW u,
             step' = WithStep(j, s, u) \/ (UNCHANGED step /\ u = step[j][s]),
             \/ Rest(w) /\ u # "submitting"
             \/ Advances(w) /\ (u = "submitting" <=> Awaits(w)'),
             \A k \in Attempts : attempts[k].job = j /\ attempts'[k].state \in Open
                                 => u \in {"submitting", "uncertain"} /\ step[j][s] # "deleted"
      PROVE  DoubtInv'
  <2>1. /\ \A k \in Jobs : k # j => step'[k] = step[k]
        /\ \A t \in Steps : t # s => step'[j][t] = step[j][t]
        /\ step'[j][s] = u \/ (step[j][s] = "deleted" /\ step'[j][s] = "deleted")
    BY <1>1, <1>9 DEF WithStep, TypeInv, RowsTyped
  <2>2. /\ \A q \in Workers : q # w => worker'[q] = worker[q]
        /\ worker'[w].task = "idle" \/ (worker'[w].job = j /\ worker'[w].at = s)
        /\ u = "submitting" => Awaits(w)' /\ worker'[w].job = j /\ worker'[w].at = s
    <3>1. CASE Rest(w) /\ u # "submitting"
      BY <3>1 DEF Rest, NoWork, Working, TypeInv, WorkersTyped
    <3>2. ASSUME NEW task, worker' = [worker EXCEPT ![w].task = task], u = "submitting" <=> Awaits(w)'
          PROVE  /\ worker'[w].job = j /\ worker'[w].at = s
                 /\ \A q \in Workers : q # w => worker'[q] = worker[q]
      BY <3>2, TaskIsSet
    <3> QED
      BY <1>9, <3>1, <3>2 DEF Advances
  <2>3. SubmittingIsAwaited'
    BY <1>5, <2>1, <2>2 DEF SubmittingIsAwaited
  <2>4. ASSUME NEW k \in Attempts, attempts'[k].state \in Open PROVE StaysDoubted(k)
    <3>1. Live(k)
      BY <1>9, <2>4 DEF NothingOpened
    <3>2. CASE attempts[k].job = j
      <4>1. attempts[k].step = s
        BY <1>3, <1>4, <3>1, <3>2
      <4> QED
        BY <1>9, <2>1, <2>4, <3>2, <4>1 DEF StaysDoubted
    <3>3. CASE attempts[k].job # j
      BY <1>6, <2>1, <3>1, <3>3 DEF StaysDoubted, DoubtInv, LiveIsDoubted
    <3> QED
      BY <3>2, <3>3
  <2>5. TriesWithoutDoubt'
    <3> SUFFICES ASSUME NEW q \in Workers, Busy(q)', ~Awaits(q)', NEW k \in Attempts,
                        attempts'[k].job = worker'[q].job, attempts'[k].state \in Open
                 PROVE  FALSE
      BY <1>9 DEF TriesWithoutDoubt, NothingOpened, Live
    <3>1. q = w
      BY <1>2, <2>2 DEF Busy
    <3>2. worker'[w].job = j /\ ~Rest(w)
      BY <2>2, <3>1 DEF Busy, Rest, NoWork, Working, TypeInv, WorkersTyped
    <3>3. attempts[k].job = j /\ Live(k)
      BY <1>9, <3>1, <3>2 DEF NothingOpened
    <3>4. u = "uncertain"
      BY <1>9, <3>1, <3>2, <3>3
    <3>5. worker'[w].task # "idle" /\ step'[j][s] = "uncertain"
      BY <1>9, <2>1, <3>1, <3>3, <3>4 DEF Busy
    <3>6. worker'[w].at = s
      BY <2>2, <3>5
    <3>7. step'[j][s] = StatusAt(worker'[w].task)
      BY <3>2, <3>5, <3>6 DEF WorkInv, WorkingAt, Busy
    <3>8. worker'[w].task \in Tasks
      BY DEF TypeInv, WorkersTyped, WorkerRecords
    <3> QED
      BY <3>5, <3>7, <3>8 DEF StatusAt, Tasks
  <2> QED
    BY <1>9, <2>3, <2>4, <2>5, DoubtMoves
<1>10. CASE FinishCancel(j) /\ Rest(w) /\ UNCHANGED attempts /\ ~Awaits(w)
  <2>1. /\ \A k \in Jobs : \A t \in Steps : step'[k][t] # "submitting"
        /\ \A k \in Attempts : Live(k) => StaysDoubted(k)
    BY <1>1, <1>5, <1>10, CancelDoubts
  <2>2. \A v \in Workers : ~Busy(v)'
    BY <1>2, <1>10 DEF Rest, NoWork, Working, Busy, TypeInv, WorkersTyped
  <2>3. SubmittingIsAwaited' /\ TriesWithoutDoubt'
    BY <2>1, <2>2 DEF SubmittingIsAwaited, TriesWithoutDoubt
  <2> QED
    BY <1>7, <1>10, <2>1, <2>3, DoubtMoves DEF Live
\* no transaction of the job is open while it is not awaited
<1>11. ~Awaits(w) /\ UNCHANGED attempts => \A k \in Attempts : ~(attempts[k].job = j /\ attempts'[k].state \in Open)
    BY <1>4 DEF Live
<1>12. CASE WaitEnds(w)
  <2>1. ~Awaits(w) /\ UNCHANGED attempts /\ step[j][s] = "waiting"
    BY <1>1, <1>12 DEF WaitEnds, Awaits, StatusAt
  <2>2. CASE FinishCancel(j) /\ Rest(w)
    BY <1>10, <2>1, <2>2
  <2>3. CASE Rest(w) /\ UNCHANGED step
    BY <1>7, <1>9, <1>11, <2>1, <2>3
  <2>4. CASE step' = WithStep(j, s, "preparing") /\ worker' = [worker EXCEPT ![w].task = "prepare"]
    <3>1. ~Awaits(w)'
      BY <2>4 DEF Awaits, TypeInv, WorkersTyped, WorkerRecords
    <3>2. Advances(w)
      BY <2>4 DEF Advances
    <3>3. /\ NothingOpened
          /\ \A k \in Attempts : ~(attempts[k].job = j /\ attempts'[k].state \in Open)
      BY <1>7, <1>11, <2>1
    <3> QED
      BY <1>9, <2>4, <3>1, <3>2, <3>3
  <2> QED
    BY <1>12, <2>2, <2>3, <2>4 DEF WaitEnds
<1>13. CASE Prepared(w)
  <2>0. ~Awaits(w) /\ step[j][s] = "preparing"
    BY <1>1, <1>13 DEF Prepared, Awaits, StatusAt
  <2>1. CASE StepRaised(w) /\ UNCHANGED <<attempts, chain>>
    BY <1>7, <1>9, <1>11, <2>0, <2>1 DEF StepRaised
  <2>2. CASE ~(StepRaised(w) /\ UNCHANGED <<attempts, chain>>)
    <3> DEFINE n == Len(attempts')
               new == [job |-> j, step |-> s, state |-> "prepared", number |-> Cardinality(Committed)]
    <3>1. /\ Attempts' = Attempts \cup {n} /\ attempts'[n] = new
          /\ \A k \in Attempts : attempts'[k] = attempts[k]
      BY <1>1, <1>13, <2>0, <2>2, AttemptSigned DEF Prepared
    <3>2. new.job = j /\ new.step = s /\ new.state = "prepared"
      OBVIOUS
    <3> HIDE DEF new
    <3>3. step' = WithStep(j, s, "submitting")
      BY <1>13, <2>2 DEF Prepared
    <3>4. /\ step'[j][s] = "submitting"
          /\ \A k \in Jobs : \A t \in Steps : k # j \/ t # s => step'[k][t] = step[k][t]
      BY <1>1, <2>0, <3>3 DEF WithStep, TypeInv, RowsTyped
    <3>5. PICK m : m = n /\ worker' = [worker EXCEPT ![w].task = "submit", ![w].attempt = m]
      BY <1>13, <2>2 DEF Prepared
    <3>6. /\ worker'[w].job = j /\ worker'[w].at = s /\ worker'[w].task = "submit"
          /\ \A v \in Workers : v # w => worker'[v] = worker[v]
      BY <3>5, AttemptIsSet
    <3> HIDE DEF n
    <3>7. SubmittingIsAwaited'
      BY <1>5, <2>0, <3>4, <3>6 DEF SubmittingIsAwaited, Awaits
    <3>8. TriesWithoutDoubt'
      BY <1>2, <3>6 DEF TriesWithoutDoubt, Busy, Awaits
    <3>9. \A k \in Attempts : attempts[k].job = j => ~Live(k)
      BY <1>4, <2>0
    <3>10. OneLiveAJob'
      BY <3>1, <3>2, <3>9 DEF DoubtInv, OneLiveAJob, Live
    <3>11. LiveIsDoubted'
      <4> SUFFICES ASSUME NEW k \in Attempts', Live(k)'
                   PROVE  step'[attempts'[k].job][attempts'[k].step] \in {"submitting", "uncertain"}
        BY DEF LiveIsDoubted
      <4>1. CASE k = n
        BY <3>1, <3>2, <3>4, <4>1
      <4>2. CASE k # n
        <5>1. k \in Attempts /\ Live(k) /\ attempts'[k] = attempts[k] /\ attempts[k].job # j
          BY <3>1, <3>9, <4>2 DEF Live
        <5> QED
          BY <1>6, <3>4, <5>1 DEF DoubtInv, LiveIsDoubted
      <4> QED
        BY <4>1, <4>2
    <3> QED
      BY <3>7, <3>8, <3>10, <3>11 DEF DoubtInv
  <2> QED
    BY <2>1, <2>2
<1>14. CASE Submitted(w) \/ WaitRaises(w)
  <2>1. Awaits(w) /\ step[j][s] = "submitting" /\ UNCHANGED step
    BY <1>1, <1>14 DEF Submitted, WaitRaises, Awaits, StatusAt
  <2>2. NothingOpened
    BY <1>7, <1>8, <1>14, <2>1 DEF Submitted, WaitRaises, AttemptStates
  <2>3. PICK task \in {"confirm", "reconcile"} : worker' = [worker EXCEPT ![w].task = task]
    BY <1>14 DEF Submitted, WaitRaises
  <2>4. Advances(w) /\ Awaits(w)'
    BY <2>3, TaskIsSet DEF Awaits, Advances
  <2> QED
    BY <1>9, <2>1, <2>2, <2>4
<1>15. CASE Resolved(w)
  <2>1. Awaits(w)
    BY <1>15 DEF Resolved, Awaits
  <2>2. PICK v \in {"confirmed", "failed"} :
           /\ attempts' = WithAttempt(i, v) /\ step' = WithStep(j, s, v)
           /\ Rest(w) \/ worker' = [worker EXCEPT ![w].task = "refresh"]
    BY <1>15 DEF Resolved
  <2>3. NothingOpened /\ attempts'[i].state = v
    BY <1>8, <2>1, <2>2 DEF AttemptStates
  <2>4. \A k \in Attempts : ~(attempts[k].job = j /\ attempts'[k].state \in Open)
    BY <1>4, <2>3 DEF NothingOpened, Open
  <2>5. worker' = [worker EXCEPT ![w].task = "refresh"] => Advances(w) /\ ~Awaits(w)'
    BY DEF Advances, Awaits, TypeInv, WorkersTyped, WorkerRecords
  <2> QED
    BY <1>9, <2>2, <2>3, <2>4, <2>5
<1>16. CASE Unresolved(w)
  <2>1. Awaits(w) /\ step[j][s] = "submitting"
    BY <1>1, <1>16 DEF Unresolved, Awaits, StatusAt
  <2>2. NothingOpened
    BY <1>8, <1>16, <2>1 DEF Unresolved, Unknown, AttemptStates
  <2> QED
    BY <1>9, <1>16, <2>1, <2>2 DEF Unresolved, Unknown
<1>17. CASE Refreshed(w)
  <2>1. ~Awaits(w) /\ UNCHANGED attempts /\ step[j][s] = "confirmed"
    BY <1>1, <1>17 DEF Refreshed, Awaits, StatusAt
  <2>2. CASE StepRaised(w)
    BY <1>7, <1>9, <1>11, <2>1, <2>2 DEF StepRaised
  <2>3. CASE FinishCancel(j) /\ Rest(w)
    BY <1>10, <2>1, <2>3
  <2>4. CASE Rest(w) /\ UNCHANGED step
    BY <1>7, <1>9, <1>11, <2>1, <2>4
  <2>5. CASE Enter(w, j, worker[w].todo, 0, job, step)
    <3>1. step \in [Jobs -> [Steps -> StepStatuses]]
      BY DEF TypeInv, RowsTyped
    <3> QED
      BY <1>1, <1>2, <1>4, <1>5, <2>1, <2>5, <3>1, EnterDoubts
  <2> QED
    BY <1>17, <2>2, <2>3, <2>4, <2>5 DEF Refreshed
<1> QED
    BY <1>12, <1>13, <1>14, <1>15, <1>16, <1>17 DEF WorkerStep

\* A reconciliation settles an uncertain transaction of an uncertain job.
LEMMA RequestStepDoubts ==
    ASSUME TypeInv, WorkInv, TrialInv, DoubtInv, ReconcilesOwn, Overwriting = FALSE,
           NEW r \in Requests, RequestStep(r)
    PROVE  DoubtInv'
<1> USE DEF flags, records, database
<1> DEFINE j == request[r].job
           i == Least(request[r].todo)
<1>1. j \in Jobs /\ UNCHANGED worker
    BY DEF TypeInv, RequestsTyped, RequestRecords, RequestStep, PreviewEnds, ReconcileNext, ReconcileRaises
<1>2. \A k \in Attempts : attempts[k].job \in Jobs /\ attempts[k].step \in Steps
    BY AttemptTypes DEF TypeInv, AttemptRecords
<1>3. UNCHANGED attempts => NothingOpened /\ \A k \in Attempts : attempts'[k].state \in Open => Live(k)
    BY DEF NothingOpened, Attempts, Live
<1>4. CASE UNCHANGED <<attempts, step>>
    BY <1>1, <1>3, <1>4, DoubtRests DEF StaysDoubted, DoubtInv, LiveIsDoubted
<1>5. CASE PreviewEnds(r) /\ ~UNCHANGED step
  <2>1. \A k \in Attempts : attempts[k].job # j
    BY <1>5 DEF PreviewEnds, TrialInv, EditableIsUnsigned
  <2>2. step' = AllPending(j) /\ UNCHANGED attempts
    BY <1>5 DEF PreviewEnds
  <2>3. /\ \A k \in Jobs : k # j => step'[k] = step[k]
        /\ \A s \in Steps : step'[j][s] # "submitting"
    BY <1>1, <2>2 DEF AllPending, TypeInv, RowsTyped
  <2>4. \A k \in Attempts : attempts'[k].state \in Open => StaysDoubted(k)
    BY <1>2, <1>3, <2>1, <2>2, <2>3 DEF StaysDoubted, DoubtInv, LiveIsDoubted
  <2> QED
    BY <1>1, <1>3, <2>2, <2>3, <2>4, DoubtRests
<1>6. CASE ReconcileNext(r) /\ ~UNCHANGED <<attempts, step>>
  <2>1. i \in Attempts /\ attempts[i].job = j /\ attempts[i].state = "uncertain"
    <3>1. request[r].todo \in SUBSET Nat /\ request[r].todo # {}
      BY <1>6 DEF ReconcileNext, TypeInv, RequestsTyped, RequestRecords
    <3>2. i \in request[r].todo
      BY <3>1, LeastIsIn
    <3> QED
      BY <1>6, <3>2 DEF ReconcileNext, ReconcilesOwn
  <2>2. PICK answer \in {"confirmed", "failed"} :
           attempts' = WithAttempt(i, answer) /\ step' = WithStep(j, attempts[i].step, answer)
    BY <1>6 DEF ReconcileNext, Answers
  <2>3. /\ NothingOpened /\ attempts'[i].state = answer
        /\ \A k \in Attempts : k # i => attempts'[k] = attempts[k]
    BY <2>1, <2>2, UpdatedAttempt DEF NothingOpened, Live, Open, AttemptStates, TypeInv
  <2>4. /\ \A k \in Jobs : k # j => step'[k] = step[k]
        /\ \A s \in Steps : s # attempts[i].step => step'[j][s] = step[j][s]
        /\ \A s \in Steps : step'[j][s] = "submitting" => step[j][s] = "submitting"
    BY <1>1, <1>2, <2>1, <2>2 DEF WithStep, TypeInv, RowsTyped
  <2>5. ASSUME NEW k \in Attempts, attempts'[k].state \in Open PROVE StaysDoubted(k)
    <3>1. Live(k) /\ k # i
      BY <2>3, <2>5 DEF NothingOpened, Open
    <3>2. attempts[k].job # j
      BY <2>1, <3>1 DEF DoubtInv, OneLiveAJob, Live, Open
    <3> QED
      BY <1>2, <2>4, <3>1, <3>2 DEF StaysDoubted, DoubtInv, LiveIsDoubted
  <2> QED
    BY <1>1, <2>3, <2>4, <2>5, DoubtRests
<1> QED
    BY <1>4, <1>5, <1>6 DEF RequestStep, PreviewEnds, ReconcileRaises

LEMMA RestartDoubts == ASSUME TypeInv, DoubtInv, Restart PROVE DoubtInv'
<1>1. NothingOpened
    BY DEF Restart, NothingOpened, Attempts, Live
<1>2. \A k \in Jobs : \A s \in Steps : /\ step'[k][s] # "submitting"
                                       /\ step[k][s] \in {"submitting", "uncertain"} => step'[k][s] = "uncertain"
    BY DEF Restart, Interrupted
<1>3. SubmittingIsAwaited' /\ TriesWithoutDoubt'
    BY <1>2 DEF Restart, NoWork, Working, SubmittingIsAwaited, TriesWithoutDoubt, Busy
<1>4. ASSUME NEW i \in Attempts, attempts'[i].state \in Open PROVE StaysDoubted(i)
  <2>1. Live(i) /\ attempts[i].job \in Jobs /\ attempts[i].step \in Steps
    BY <1>1, <1>4, AttemptTypes DEF NothingOpened, TypeInv, AttemptRecords
  <2> QED
    BY <1>2, <2>1 DEF DoubtInv, LiveIsDoubted, StaysDoubted
<1> QED
    BY <1>1, <1>3, <1>4, DoubtMoves

LEMMA InitDoubts == Init => DoubtInv
<1> SUFFICES ASSUME Init PROVE DoubtInv
    OBVIOUS
<1>1. Attempts = {} /\ \A w \in Workers : ~Busy(w)
    BY DEF Init, Attempts, Busy, NoWork, Working
<1> QED
    BY <1>1 DEF Init, DoubtInv, LiveIsDoubted, OneLiveAJob, SubmittingIsAwaited, TriesWithoutDoubt

LEMMA NextDoubts ==
    ASSUME Overwriting = FALSE
    PROVE  TypeInv /\ TypeInv' /\ WorkInv /\ WorkInv' /\ AttemptInv /\ DoubtInv /\ [Next]_vars => DoubtInv'
<1> SUFFICES ASSUME TypeInv, TypeInv', WorkInv, WorkInv', AttemptInv, DoubtInv, [Next]_vars PROVE DoubtInv'
    OBVIOUS
<1> USE DEF AttemptInv
<1>1. CASE Operator
    BY <1>1, OperatorDoubts
<1>2. CASE \E w \in Workers : WorkerStep(w)
    BY <1>2, WorkerStepDoubts
<1>3. CASE \E r \in Requests : RequestStep(r)
    BY <1>3, RequestStepDoubts
<1>4. CASE Restart
    BY <1>4, RestartDoubts
<1>5. CASE (\E i \in Attempts : Land(i)) \/ UNCHANGED vars
  <2>1. UNCHANGED <<step, attempts, worker>>
    BY <1>5 DEF Land, vars, database, records, flags
  <2> QED
    BY <2>1, DoubtRests DEF NothingOpened, Attempts, Live, StaysDoubted, DoubtInv, LiveIsDoubted
<1> QED
    BY <1>1, <1>2, <1>3, <1>4, <1>5 DEF Next

LEMMA NextInvariant ==
    ASSUME Overwriting = FALSE
    PROVE  TypeInv /\ WorkInv /\ AttemptInv /\ DoubtInv /\ [Next]_vars
           => (TypeInv /\ WorkInv /\ AttemptInv /\ DoubtInv)'
<1>1. TypeInv /\ WorkInv /\ AttemptInv /\ [Next]_vars => (TypeInv /\ WorkInv /\ AttemptInv)'
    BY NextTyped, NextWorks, NextTries
<1>2. TypeInv /\ TypeInv' /\ WorkInv /\ WorkInv' /\ AttemptInv /\ DoubtInv /\ [Next]_vars => DoubtInv'
    BY NextDoubts
<1> QED
    BY <1>1, <1>2

\* Only a worker that has prepared a transaction adds an attempt.
LEMMA OnlyPreparedSigns ==
    ASSUME Overwriting = FALSE, TypeInv, TypeInv', WorkInv, AttemptInv, [Next]_vars,
           Len(attempts') > Len(attempts)
    PROVE  \E w \in Workers : Prepared(w) /\ ~UNCHANGED attempts
<1> USE DEF flags, records, database, AttemptInv
<1>1. Attempts' # Attempts /\ ~UNCHANGED attempts
  <2>1. /\ Attempts = 1..Len(attempts) /\ Len(attempts) \in Nat
        /\ Attempts' = 1..Len(attempts') /\ Len(attempts') \in Nat
    BY AttemptTypes DEF TypeInv, AttemptsTyped, Attempts
  <2> QED
    BY <2>1
<1>2. ~Operator /\ ~\E r \in Requests : RequestStep(r)
    BY <1>1, OperatorTries, RequestStepTries
<1>3. ~Restart /\ ~(\E i \in Attempts : Land(i)) /\ ~UNCHANGED vars
    BY <1>1 DEF Restart, Land, vars
<1>4. PICK w \in Workers : WorkerStep(w)
    BY <1>2, <1>3 DEF Next
<1>5. \A i \in Attempts : \A v \in AttemptStates :
        attempts' = WithAttempt(i, v) => Attempts' = Attempts
    BY UpdatedAttempt DEF TrialInv, EditableIsUnsigned, TypeInv
<1>6. worker[w].task \in {"submit", "confirm", "reconcile"} => worker[w].attempt \in Attempts
    BY DEF WorkingFor
<1>7. ~Submitted(w) /\ ~Resolved(w) /\ ~Unresolved(w)
    BY <1>1, <1>5, <1>6 DEF Submitted, Resolved, Unresolved, Unknown, AttemptStates
<1> QED
    BY <1>1, <1>4, <1>7 DEF WorkerStep, WaitEnds, WaitRaises, Refreshed

\* As long as no request writes over a job that has moved on, no transaction
\* is signed while the outcome of another one of its job is open, and none
\* for a step that has a confirmed one, whatever is paused, cancelled,
\* resumed, retried, reconciled or restarted in between.
THEOREM TransfersSignWithoutDoubt == ASSUME Overwriting = FALSE PROVE Spec => NoSubmissionOverDoubt
<1> DEFINE Signs == Len(attempts') > Len(attempts) =>
              LET new == attempts'[Len(attempts')] IN
              \A i \in Attempts : attempts[i].job = new.job =>
                  /\ attempts[i].state \notin Open
                  /\ attempts[i].step = new.step /\ ~archived => attempts[i].state # "confirmed"
<1>1. Init => TypeInv /\ WorkInv /\ AttemptInv /\ DoubtInv
    BY InitTyped, InitWorks, InitTries, InitDoubts
<1>2. TypeInv /\ WorkInv /\ AttemptInv /\ DoubtInv /\ [Next]_vars
      => (TypeInv /\ WorkInv /\ AttemptInv /\ DoubtInv)'
    BY NextInvariant
<1>3. TypeInv /\ TypeInv' /\ WorkInv /\ AttemptInv /\ DoubtInv /\ [Next]_vars => [Signs]_vars
  <2> SUFFICES ASSUME TypeInv, TypeInv', WorkInv, AttemptInv, DoubtInv, [Next]_vars,
                      Len(attempts') > Len(attempts),
                      NEW i \in Attempts, attempts[i].job = attempts'[Len(attempts')].job
               PROVE  /\ attempts[i].state \notin Open
                      /\ attempts[i].step = attempts'[Len(attempts')].step /\ ~archived
                         => attempts[i].state # "confirmed"
    OBVIOUS
  <2>1. PICK w \in Workers : Prepared(w) /\ ~UNCHANGED attempts
    BY OnlyPreparedSigns
  <2> DEFINE j == worker[w].job
             s == worker[w].at
             new == [job |-> j, step |-> s, state |-> "prepared", number |-> Cardinality(Committed)]
  <2>2. /\ Busy(w) /\ ~Awaits(w)
        /\ attempts' = Append(attempts, new)
    BY <2>1 DEF Prepared, Busy, Awaits
  <2>3. attempts'[Len(attempts')] = new
    BY <2>2 DEF TypeInv, AttemptsTyped
  <2>4. attempts[i].job = j
    BY <2>3
  <2>5. ~Live(i)
    BY <2>2, <2>4 DEF DoubtInv, TriesWithoutDoubt
  <2>6. step[j][s] = "preparing"
    BY <2>1, <2>2 DEF Prepared, WorkInv, WorkingAt, StatusAt
  <2>7. attempts[i].step = s /\ ~archived => attempts[i].state = "failed"
    BY <2>4, <2>6 DEF AttemptInv, TrialInv, UntriedHasFailed, Untried
  <2>8. new.step = s
    OBVIOUS
  <2> QED
    BY <2>3, <2>5, <2>7, <2>8 DEF Live
<1> QED
    BY <1>1, <1>2, <1>3, PTL DEF Spec, NoSubmissionOverDoubt
=============================================================================
