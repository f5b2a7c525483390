---------------------------- MODULE BetaCampaign ----------------------------
(***************************************************************************)
(* A beta campaign: BetaVolumeCampaignService of                           *)
(* src/src/weex_cli/beta_campaign.  One confirmed authorization lets a     *)
(* process run child sessions, each with a plan of its own, until the      *)
(* campaign's volume has traded.  The confirmation may be entered twice:   *)
(* several processes (Runners) may execute the same campaign, and each may *)
(* die between any two steps.  They share the plan directory and the       *)
(* account.                                                                *)
(*                                                                         *)
(* A child session is what BetaCycle shows of LiveBetaVolumeService: it    *)
(* trades, and its verdict says what is known of the account when it ends. *)
(* Volume is counted in lots.                                              *)
(***************************************************************************)
EXTENDS Integers

CONSTANTS
    Runners,        \* processes that execute the campaign
    Target,         \* campaign.target_turnover_quote
    Round,          \* campaign.round_turnover_quote
    MaxRuns,        \* campaign.max_runs
    Attempts        \* CAMPAIGN_READ_RETRY_POLICY.attempts

ASSUME CampaignAssumption ==
    /\ Target \in Nat \ {0} /\ Round \in 1..Target
    /\ MaxRuns \in Nat \ {0} /\ Attempts \in Nat \ {0}

AuthorizedMax == Target + Round

VARIABLES
    \* the plan directory
    state,      \* the state saved in the campaign's file
    claimed,    \* the campaign's claim file exists
    \* the account
    exposed,    \* a position or an order is on the account
    traded,     \* lots traded for the campaign
    \* the operator
    stopping,   \* stop_requested() answers True
    \* the processes
    pc,         \* per runner: its next step
    run,        \* per runner: run_number
    total,      \* per runner: total_quote
    attempt,    \* per runner: attempt of _execute_child_with_read_retry
    child,      \* per runner: target and lots of its child, then its result
    verdict,    \* per runner: the status _finish is called with
    \* history
    owners,     \* runners that have created the claim file
    soured,     \* a child has ended with anything but a soft stop
    doubted     \* a child with verified volume has ended uncertain

files == <<state, claimed>>
account == <<exposed, traded>>
history == <<owners, soured, doubted>>
locals == <<run, total, attempt, child, verdict>>
vars == <<files, account, stopping, pc, locals, history>>

Terminal == {"completed", "stopped", "uncertain"}
\* "soft": stopped with one of RETRYABLE_CHILD_REASONS
Outcomes == {"completed", "soft", "hard", "uncertain"}
Ended == {"refused", "done", "raised", "crashed"}
Steps == {"idle", "load", "claim", "save", "head", "plan", "preflight",
          "child_claim", "session", "account", "boundary", "finish"} \cup Ended

NoChild == [target |-> 0, traded |-> 0, status |-> "soft", counted |-> 0, verified |-> TRUE]

Results == [target : Nat, traded : Nat, status : Outcomes, counted : Nat, verified : BOOLEAN]

SharedTypeOK ==
    /\ state \in {"planned", "executing"} \cup Terminal
    /\ claimed \in BOOLEAN /\ exposed \in BOOLEAN /\ stopping \in BOOLEAN
    /\ traded \in Nat
    /\ owners \subseteq Runners /\ soured \in BOOLEAN /\ doubted \in BOOLEAN
ControlTypeOK ==
    /\ pc \in [Runners -> Steps]
    /\ verdict \in [Runners -> {"executing", "stopped", "uncertain"}]
CountersTypeOK ==
    /\ run \in [Runners -> 1..MaxRuns + 1]
    /\ total \in [Runners -> Nat]
    /\ attempt \in [Runners -> 1..Attempts]
ChildTypeOK == child \in [Runners -> Results]
TypeOK == SharedTypeOK /\ ControlTypeOK /\ CountersTypeOK /\ ChildTypeOK

Goto(p, step) == pc' = [pc EXCEPT ![p] = step]
\* _finish() reads the boundary itself
FinishReading(p, status) == Goto(p, "finish") /\ verdict' = [verdict EXCEPT ![p] = status]
\* _finish() with the boundary at hand
Save(p, status) == Goto(p, "done") /\ state' = status /\ UNCHANGED verdict

(***************************************************************************)
(* Authorization and claim                                                 *)
(***************************************************************************)
\* _validate_authorization and the initial boundary
Authorize(p) ==
    /\ pc[p] = "idle"
    /\ \/ Goto(p, "refused")
       \/ ~exposed /\ Goto(p, "load")
    /\ UNCHANGED <<files, account, stopping, locals, history>>

LoadRecord(p) ==
    /\ pc[p] = "load"
    /\ Goto(p, IF state = "planned" THEN "claim" ELSE "refused")
    /\ UNCHANGED <<files, account, stopping, locals, history>>

\* os.open(claim_path, O_CREAT | O_EXCL)
\* Mutant: the claim file is overwritten when it exists.
Overwritten == FALSE
Exists == claimed

Claim(p) ==
    /\ pc[p] = "claim"
    /\ IF Exists THEN Goto(p, "refused") /\ UNCHANGED <<claimed, owners>>
       ELSE /\ claimed' = TRUE /\ owners' = owners \cup {p}
            /\ Goto(p, "save")
    /\ UNCHANGED <<state, account, stopping, locals, soured, doubted>>

SaveExecuting(p) ==
    /\ pc[p] = "save"
    /\ state' = "executing"
    /\ Goto(p, "head")
    /\ UNCHANGED <<claimed, account, stopping, locals, history>>

(***************************************************************************)
(* The loop over children                                                  *)
(***************************************************************************)
RunHead(p) ==
    /\ pc[p] = "head"
    /\ IF stopping \/ run[p] > MaxRuns \/ total[p] >= Target
       THEN FinishReading(p, "stopped")
       ELSE Goto(p, "plan") /\ UNCHANGED verdict
    /\ UNCHANGED <<files, account, stopping, run, total, attempt, child, history>>

\* _create_child: the remaining volume, or what _selected_round_turnover picks
\* when that much is too small to trade; validation errors escape
Remaining(p) == Target - total[p]
LeastOf(a, b) == IF a < b THEN a ELSE b

PlanChild(p) ==
    /\ pc[p] = "plan"
    /\ \/ FinishReading(p, "stopped") /\ UNCHANGED child
       \/ Goto(p, "raised") /\ UNCHANGED <<child, verdict>>
       \/ \E target \in {Remaining(p)} \cup 1..LeastOf(Round, Remaining(p)) :
            /\ child' = [child EXCEPT ![p] = [NoChild EXCEPT !.target = target]]
            /\ Goto(p, "preflight") /\ UNCHANGED verdict
    /\ UNCHANGED <<files, account, stopping, run, total, attempt, history>>

MayRetry(p) == attempt[p] < Attempts

\* the child's preflight, repeated after network errors while nothing of it
\* has been executed; the count is the call's own
Preflight(p) ==
    /\ pc[p] = "preflight"
    /\ \/ /\ MayRetry(p)
          /\ attempt' = [attempt EXCEPT ![p] = @ + 1]
          /\ UNCHANGED <<pc, verdict>>
       \/ /\ attempt' = [attempt EXCEPT ![p] = 1]
          /\ \/ FinishReading(p, "stopped")
             \/ ~exposed /\ Goto(p, "child_claim") /\ UNCHANGED verdict
    /\ UNCHANGED <<files, account, stopping, run, total, child, history>>

\* the child's own claim_for_execution; as long as it fails the child's
\* state is planned, and the campaign stops
ChildClaim(p) ==
    /\ pc[p] = "child_claim"
    /\ \/ FinishReading(p, "stopped")
       \/ Goto(p, "session") /\ UNCHANGED verdict
    /\ UNCHANGED <<files, account, stopping, run, total, attempt, child, history>>

(***************************************************************************)
(* The child session; quantities round up, so it may trade a lot more than *)
(* its target and a round                                                  *)
(***************************************************************************)
Trade(p) ==
    /\ pc[p] = "session"
    /\ child[p].traded <= child[p].target + Round
    /\ child' = [child EXCEPT ![p].traded = @ + 1]
    /\ traded' = traded + 1
    /\ exposed' \in BOOLEAN
    /\ UNCHANGED <<files, stopping, pc, run, total, attempt, verdict, history>>

\* the session's verdict, the volume it counts and whether that is verified
Verdicts(p) ==
    {r \in [status : Outcomes, counted : 0..child[p].traded, verified : BOOLEAN] :
        /\ r.status \in {"completed", "soft"} => ~exposed
        /\ r.status = "completed" => r.verified /\ r.counted >= child[p].target}

SessionEnds(p) ==
    /\ pc[p] = "session"
    /\ \/ /\ \E r \in Verdicts(p) :
                /\ child' = [child EXCEPT ![p].status = r.status, ![p].counted = r.counted,
                                          ![p].verified = r.verified]
                /\ soured' = (soured \/ r.status # "soft")
                /\ doubted' = (doubted \/ (r.status = "uncertain" /\ r.verified))
          /\ Goto(p, "account") /\ UNCHANGED verdict
       \/ /\ FinishReading(p, "uncertain")          \* an exception
          /\ soured' = TRUE
          /\ UNCHANGED <<child, doubted>>
    /\ UNCHANGED <<files, account, stopping, run, total, attempt, owners>>

(***************************************************************************)
(* The checkpoint                                                          *)
(***************************************************************************)
\* _authoritative_child_quote
Authoritative(r) == r.counted = 0 \/ r.verified

Account(p) ==
    /\ pc[p] = "account"
    /\ IF ~Authoritative(child[p]) THEN FinishReading(p, "stopped") /\ UNCHANGED total
       ELSE /\ total' = [total EXCEPT ![p] = @ + child[p].counted]
            /\ IF total'[p] > AuthorizedMax THEN FinishReading(p, "uncertain")
               ELSE Goto(p, "boundary") /\ UNCHANGED verdict
    /\ UNCHANGED <<files, account, stopping, run, attempt, child, history>>

Retryable(status) == status = "soft"

\* Mutant: the volume of the last child stands for the campaign's.
ChildReached(p) == child[p].counted >= child[p].target
Reached(p) == total[p] >= Target

\* Mutant: a soft stop does not use up a run.
SameRun(p) == run
NextRun(p) == [run EXCEPT ![p] = @ + 1]

\* what the campaign ends with after a child, or "executing"
Judged(p) ==
    LET completed == child[p].status = "completed" IN
    CASE exposed \/ child[p].status = "uncertain" -> "uncertain"
      [] ~exposed /\ child[p].status # "uncertain" ->
           IF stopping \/ ~(completed \/ Retryable(child[p].status)) THEN "stopped"
           ELSE IF Reached(p) /\ completed THEN "completed"
           ELSE IF Reached(p) \/ completed THEN "stopped"
           ELSE "executing"

Boundary(p) ==
    /\ pc[p] = "boundary"
    /\ \/ Save(p, "uncertain") /\ UNCHANGED run           \* it cannot be read
       \/ Goto(p, "raised") /\ UNCHANGED <<state, verdict, run>>
       \/ Judged(p) # "executing" /\ Save(p, Judged(p)) /\ UNCHANGED run
       \/ /\ Judged(p) = "executing" /\ state' = "executing"
          /\ run' = NextRun(p)
          /\ Goto(p, "head") /\ UNCHANGED verdict
    /\ UNCHANGED <<claimed, account, stopping, total, attempt, child, history>>

Finish(p) ==
    /\ pc[p] = "finish"
    /\ \/ Save(p, "uncertain")
       \/ Save(p, verdict[p])
       \/ Goto(p, "raised") /\ UNCHANGED <<state, verdict>>
    /\ UNCHANGED <<claimed, account, stopping, run, total, attempt, child, history>>

RunnerStep(p) ==
    \/ Authorize(p) \/ LoadRecord(p) \/ Claim(p) \/ SaveExecuting(p) \/ RunHead(p)
    \/ PlanChild(p) \/ Preflight(p) \/ ChildClaim(p) \/ Trade(p) \/ SessionEnds(p)
    \/ Account(p) \/ Boundary(p) \/ Finish(p)

(***************************************************************************)
(* Operator and failures                                                   *)
(***************************************************************************)
RequestStop ==
    /\ ~stopping /\ stopping' = TRUE
    /\ UNCHANGED <<files, account, pc, locals, history>>

\* the process dies; what it left on the account stays there
Crash(p) ==
    /\ pc[p] \notin Ended \cup {"idle"}
    /\ Goto(p, "crashed")
    /\ soured' = (soured \/ pc[p] = "session")
    /\ UNCHANGED <<files, account, stopping, locals, owners, doubted>>

\* the operator closes by hand what is open
CloseByHand ==
    /\ exposed /\ \A p \in Runners : pc[p] # "session"
    /\ exposed' = FALSE
    /\ UNCHANGED <<files, traded, stopping, pc, locals, history>>

Init ==
    /\ state = "planned" /\ claimed = FALSE
    /\ exposed \in BOOLEAN /\ traded = 0
    /\ stopping = FALSE
    /\ pc = [p \in Runners |-> "idle"]
    /\ run = [p \in Runners |-> 1] /\ total = [p \in Runners |-> 0]
    /\ attempt = [p \in Runners |-> 1]
    /\ child = [p \in Runners |-> NoChild]
    /\ verdict = [p \in Runners |-> "executing"]
    /\ owners = {} /\ soured = FALSE /\ doubted = FALSE

AllEnded == (\A p \in Runners : pc[p] \in Ended) /\ UNCHANGED vars

Next ==
    \/ \E p \in Runners : RunnerStep(p) \/ Crash(p)
    \/ RequestStop \/ CloseByHand \/ AllEnded

\* Requests time out and sessions end (SessionEnds of BetaCycle); nothing is
\* assumed of the operator.
Spec == Init /\ [][Next]_vars /\ \A p \in Runners : WF_vars(RunnerStep(p))

(***************************************************************************)
(* Properties                                                              *)
(***************************************************************************)
\* At most one process ever gets to act on a confirmed campaign, even when
\* another dies between its claim and its first save (claim_for_execution).
OneOwner == \A p, q \in owners : p = q

\* Once an outcome is saved for the campaign, no process changes it.
OutcomeIsFinal == [][(state \in Terminal) => state' = state]_vars

\* A child starts only on an account at rest, and only when every child
\* before it ended with a soft stop, by whichever process it was run
\* (README, live beta-campaign; RETRYABLE_CHILD_REASONS).
OnlyAfterSoftStops ==
    [][\A p \in Runners : pc[p] # "session" /\ pc'[p] = "session"
                          => ~exposed /\ ~soured]_vars

\* The saved outcome is true.  A completed campaign has traded its target and left
\* the account at rest.  A campaign saved as stopped has had no uncertain child, as
\* docs/interfaces/beta-campaign-timeout-failure-flow.md:342-344 asks, but for a
\* child whose volume was not verified, which is looked at first (execution.py:89).
OutcomeIsTrue ==
    /\ state = "completed" => traded >= Target /\ ~exposed
    /\ state = "stopped" => ~doubted

\* Every process that starts on the campaign ends.
RunnersEnd == \A p \in Runners : pc[p] # "idle" ~> pc[p] \in Ended
=============================================================================
