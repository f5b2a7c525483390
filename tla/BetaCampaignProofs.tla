------------------------- MODULE BetaCampaignProofs -------------------------
(***************************************************************************)
(* What TLAPS proves of BetaCampaign, for any set of processes, any volume *)
(* and any limits, and of the other commands of MCCommandLine beside it.   *)
(***************************************************************************)
EXTENDS MCCommandLine, TLAPS

(***************************************************************************)
(* Type correctness: run[p] stays in its range because a process whose     *)
(* runs are used up starts no other child, and what is left for one is    *)
(* never negative.                                                         *)
(***************************************************************************)
InRun == {"plan", "preflight", "child_claim", "session", "account", "boundary"}
RunsLeft == \A p \in Runners : /\ pc[p] \in InRun => run[p] <= MaxRuns
                               /\ pc[p] = "plan" => total[p] < Target
TypeInv == TypeOK /\ RunsLeft

\* What a new child starts from.
LEMMA NewChildTyped ==
    ASSUME NEW n \in Nat PROVE [NoChild EXCEPT !.target = n] \in Results
    BY DEF NoChild, Results, Outcomes

LEMMA NoChildTyped == NoChild \in Results
    BY DEF NoChild, Results, Outcomes

LEMMA InitTyped == Init => TypeInv
<1> SUFFICES ASSUME Init PROVE TypeInv
    OBVIOUS
<1> USE CampaignAssumption DEF Init
<1>1. SharedTypeOK
    BY DEF SharedTypeOK
<1>2. ControlTypeOK
    BY DEF ControlTypeOK, Steps
<1>3. CountersTypeOK /\ RunsLeft
    BY DEF CountersTypeOK, RunsLeft, InRun
<1>4. ChildTypeOK
    BY NoChildTyped DEF ChildTypeOK
<1> QED
    BY <1>1, <1>2, <1>3, <1>4 DEF TypeInv, TypeOK

\* A step of a process keeps control and counters in their types; it writes
\* the child's record only where it says so below.
LEMMA RunnerControl ==
    ASSUME TypeInv, NEW p \in Runners, RunnerStep(p) \/ Crash(p)
    PROVE  ControlTypeOK' /\ CountersTypeOK' /\ RunsLeft'
<1> USE CampaignAssumption
    DEF TypeInv, TypeOK, ControlTypeOK, CountersTypeOK, RunsLeft, InRun, Steps, Ended,
        Goto, FinishReading, Save, files, account, locals, history
<1>1. CASE Authorize(p) \/ LoadRecord(p) \/ Claim(p) \/ SaveExecuting(p)
    BY <1>1 DEF Authorize, LoadRecord, Claim, SaveExecuting
<1>2. CASE RunHead(p)
    BY <1>2 DEF RunHead
<1>3. CASE PlanChild(p)
    BY <1>3 DEF PlanChild
<1>4. CASE Preflight(p)
    BY <1>4 DEF Preflight, MayRetry
<1>5. CASE ChildClaim(p) \/ Trade(p) \/ SessionEnds(p)
    BY <1>5 DEF ChildClaim, Trade, SessionEnds
<1>6. CASE Account(p)
  <2>1. child[p].counted \in Nat
    BY DEF ChildTypeOK, Results
  <2> QED
    BY <1>6, <2>1 DEF Account
<1>7. CASE Boundary(p)
  <2>1. pc[p] = "boundary" /\ run[p] + 1 \in 1..MaxRuns + 1
    BY <1>7 DEF Boundary
  <2>2. /\ UNCHANGED <<total, attempt, verdict>>
        /\ run' = run \/ run' = [run EXCEPT ![p] = @ + 1]
        /\ \E step \in {"done", "raised", "head"} : pc' = [pc EXCEPT ![p] = step]
    BY <1>7 DEF Boundary, NextRun
  <2> QED
    BY <2>1, <2>2
<1>8. CASE Finish(p) \/ Crash(p)
    BY <1>8 DEF Finish, Crash
<1> QED
    BY <1>1, <1>2, <1>3, <1>4, <1>5, <1>6, <1>7, <1>8 DEF RunnerStep

LEMMA RunnerChild ==
    ASSUME TypeInv, NEW p \in Runners, RunnerStep(p) \/ Crash(p)
    PROVE  ChildTypeOK'
<1> USE DEF TypeInv, TypeOK, ChildTypeOK, locals
<1>1. CASE PlanChild(p)
  <2>1. CASE UNCHANGED child
    BY <2>1
  <2>2. ASSUME NEW n \in {Remaining(p)} \cup 1..LeastOf(Round, Remaining(p)),
               child' = [child EXCEPT ![p] = [NoChild EXCEPT !.target = n]]
        PROVE  ChildTypeOK'
    <3>0. pc[p] = "plan"
        BY <1>1 DEF PlanChild
    <3>1. total[p] \in Nat /\ total[p] < Target
        BY <3>0 DEF CountersTypeOK, RunsLeft
    <3>2. n \in Nat
        BY <3>1, CampaignAssumption DEF Remaining, LeastOf
    <3> QED
        BY <2>2, <3>2, NewChildTyped
  <2> QED
    BY <1>1, <2>1, <2>2 DEF PlanChild
<1>2. CASE Trade(p)
  <2>1. [child[p] EXCEPT !.traded = @ + 1] \in Results
    BY DEF Results
  <2> QED
    BY <1>2, <2>1 DEF Trade
<1>3. CASE SessionEnds(p)
  <2>1. ASSUME NEW r \in Verdicts(p)
        PROVE  [child[p] EXCEPT !.status = r.status, !.counted = r.counted,
                                !.verified = r.verified] \in Results
    <3>1. child[p] \in Results
        OBVIOUS
    <3>2. r.status \in Outcomes /\ r.verified \in BOOLEAN
        BY DEF Verdicts
    <3>3. r.counted \in Nat
        BY <3>1 DEF Verdicts, Results
    <3> QED
        BY <3>1, <3>2, <3>3 DEF Results
  <2> QED
    BY <1>3, <2>1 DEF SessionEnds
<1> QED
    BY <1>1, <1>2, <1>3 DEF RunnerStep, Authorize, LoadRecord, Claim, SaveExecuting, RunHead,
       Preflight, ChildClaim, Account, Boundary, Finish, Crash, history

LEMMA RunnerShared ==
    ASSUME TypeInv, NEW p \in Runners, RunnerStep(p) \/ Crash(p)
    PROVE  SharedTypeOK'
<1> USE DEF TypeInv, TypeOK, SharedTypeOK, files, account, history, Save, Terminal
<1>1. CASE Trade(p)
    BY <1>1 DEF Trade
<1>2. CASE SessionEnds(p)
    BY <1>2 DEF SessionEnds
<1>3. CASE Boundary(p)
    BY <1>3 DEF Boundary, Judged
<1>4. CASE Finish(p)
    BY <1>4 DEF Finish, ControlTypeOK
<1>5. CASE Claim(p)
    BY <1>5 DEF Claim
<1>6. CASE Crash(p)
    BY <1>6 DEF Crash
<1> QED
    BY <1>1, <1>2, <1>3, <1>4, <1>5, <1>6 DEF RunnerStep, Authorize, LoadRecord, SaveExecuting,
       RunHead, PlanChild, Preflight, ChildClaim, Account

LEMMA NextTyped == TypeInv /\ [Next]_vars => TypeInv'
<1> SUFFICES ASSUME TypeInv, [Next]_vars PROVE TypeInv'
    OBVIOUS
<1>1. ASSUME NEW p \in Runners, RunnerStep(p) \/ Crash(p) PROVE TypeInv'
    BY <1>1, RunnerControl, RunnerChild, RunnerShared DEF TypeInv, TypeOK
<1>2. CASE RequestStop \/ CloseByHand \/ UNCHANGED vars
    BY <1>2 DEF RequestStop, CloseByHand, vars, files, account, locals, history, TypeInv,
       TypeOK, SharedTypeOK, ControlTypeOK, CountersTypeOK, ChildTypeOK, RunsLeft
<1> QED
    BY <1>1, <1>2 DEF Next, AllEnded

\* Every variable keeps its type, whatever the processes and their limits;
\* in particular no process begins more than max_runs children.
THEOREM CampaignTyped == Spec => []TypeOK
<1>1. Spec => []TypeInv
    BY InitTyped, NextTyped, PTL DEF Spec
<1>2. TypeInv => TypeOK
    BY DEF TypeInv
<1> QED
    BY <1>1, <1>2, PTL

(***************************************************************************)
(* The campaign has one owner, the process that created the claim file;    *)
(* everything behind the claim is done by it, so what it knows of the      *)
(* account and of its children is true of the campaign.                    *)
(***************************************************************************)
Owning == {"save", "head", "plan", "preflight", "child_claim", "session",
           "account", "boundary", "finish", "done"}

Unclaimed == ~claimed => owners = {} /\ state \notin Terminal /\ ~soured
OwnersOnly == \A p \in Runners : pc[p] \in Owning => p \in owners
FinalMeansDone == state \in Terminal => \A p \in owners : pc[p] = "done"
RestAtClaim == \A p \in Runners : pc[p] = "child_claim" => ~exposed
SouredIsLast ==
    soured => \A p \in owners :
        \/ pc[p] \in {"account", "boundary"} /\ child[p].status # "soft"
        \/ pc[p] \in {"finish"} \cup Ended

OwnerInv == TypeInv /\ OneOwner /\ Unclaimed /\ OwnersOnly /\ FinalMeansDone
            /\ RestAtClaim /\ SouredIsLast

LEMMA InitOwner == Init => OwnerInv
<1> SUFFICES ASSUME Init PROVE OwnerInv
    OBVIOUS
<1>1. TypeInv
    BY InitTyped
<1> QED
    BY <1>1 DEF Init, OwnerInv, OneOwner, Unclaimed, OwnersOnly, FinalMeansDone, RestAtClaim,
       SouredIsLast, Owning, Terminal

\* Only a process that finds no claim file becomes the owner.
LEMMA ClaimKeepsOwner ==
    ASSUME OwnerInv, NEW p \in Runners, Claim(p)
    PROVE  (OneOwner /\ Unclaimed /\ OwnersOnly /\ FinalMeansDone /\ RestAtClaim /\ SouredIsLast)'
<1> USE DEF OwnerInv, TypeInv, TypeOK, SharedTypeOK, ControlTypeOK, Claim, Exists, Goto, account, locals
<1>1. CASE claimed
    BY <1>1 DEF OneOwner, Unclaimed, OwnersOnly, FinalMeansDone, RestAtClaim, SouredIsLast,
       Owning, Ended
<1>2. CASE ~claimed
    BY <1>2 DEF OneOwner, Unclaimed, OwnersOnly, FinalMeansDone, RestAtClaim, SouredIsLast,
       Owning, Ended
<1> QED
    BY <1>1, <1>2

\* The owner moves on; nobody else is behind the claim.
LEMMA StepKeepsOwner ==
    ASSUME OwnerInv, NEW p \in Runners, RunnerStep(p) \/ Crash(p), ~Claim(p)
    PROVE  (OneOwner /\ Unclaimed /\ OwnersOnly)'
<1> USE DEF OwnerInv, TypeInv, TypeOK, SharedTypeOK, ControlTypeOK, OneOwner, Unclaimed, OwnersOnly, Owning,
        Goto, FinishReading, Save, files, account, locals, history
<1>1. CASE Authorize(p) \/ LoadRecord(p)
    BY <1>1 DEF Authorize, LoadRecord
<1>2. CASE SaveExecuting(p)
    BY <1>2 DEF SaveExecuting, Terminal
<1>3. CASE RunHead(p) \/ PlanChild(p) \/ Preflight(p) \/ ChildClaim(p)
    BY <1>3 DEF RunHead, PlanChild, Preflight, ChildClaim
<1>4. CASE Trade(p) \/ SessionEnds(p)
    BY <1>4 DEF Trade, SessionEnds
<1>5. CASE Account(p) \/ Boundary(p)
    BY <1>5 DEF Account, Boundary
<1>6. CASE Finish(p) \/ Crash(p)
    BY <1>6 DEF Finish, Crash, Ended
<1> QED
    BY <1>1, <1>2, <1>3, <1>4, <1>5, <1>6 DEF RunnerStep

\* The outcome is saved in the owner's last step.
LEMMA StepKeepsFinal ==
    ASSUME OwnerInv, NEW p \in Runners, RunnerStep(p) \/ Crash(p), ~Claim(p)
    PROVE  FinalMeansDone'
<1> USE DEF OwnerInv, TypeInv, TypeOK, SharedTypeOK, ControlTypeOK, OneOwner, Unclaimed,
        OwnersOnly, FinalMeansDone, Owning, Goto, FinishReading, Save, files, account, locals,
        history
<1>1. CASE Authorize(p) \/ LoadRecord(p)
    BY <1>1 DEF Authorize, LoadRecord
<1>2. CASE SaveExecuting(p)
    BY <1>2 DEF SaveExecuting, Terminal
<1>3. CASE RunHead(p) \/ PlanChild(p) \/ Preflight(p) \/ ChildClaim(p)
    BY <1>3 DEF RunHead, PlanChild, Preflight, ChildClaim
<1>4. CASE Trade(p) \/ SessionEnds(p) \/ Account(p)
    BY <1>4 DEF Trade, SessionEnds, Account
<1>5. CASE Boundary(p) \/ Finish(p)
  <2>1. p \in owners /\ \A q \in owners : q = p
    BY <1>5 DEF Boundary, Finish
  <2>2. owners' = owners /\ (pc' = [pc EXCEPT ![p] = "done"] \/ state' = state
                             \/ state' = "executing")
    BY <1>5 DEF Boundary, Finish
  <2> QED
    BY <1>5, <2>1, <2>2 DEF Terminal, Boundary, Finish
<1>6. CASE Crash(p)
    BY <1>6 DEF Crash, Ended
<1> QED
    BY <1>1, <1>2, <1>3, <1>4, <1>5, <1>6 DEF RunnerStep

\* Between the child's preflight and its claim nobody trades.
LEMMA StepKeepsRest ==
    ASSUME OwnerInv, NEW p \in Runners, RunnerStep(p) \/ Crash(p), ~Claim(p)
    PROVE  RestAtClaim'
<1> USE DEF OwnerInv, TypeInv, TypeOK, SharedTypeOK, ControlTypeOK, RestAtClaim, Owning, Goto,
        FinishReading, Save, files, account, locals, history
<1>1. CASE Trade(p)
    BY <1>1 DEF Trade, OneOwner, OwnersOnly
<1>2. CASE ~Trade(p)
    BY <1>2 DEF RunnerStep, Authorize, LoadRecord, SaveExecuting, RunHead, PlanChild, Preflight,
       ChildClaim, SessionEnds, Account, Boundary, Finish, Crash
<1> QED
    BY <1>1, <1>2

\* Once a child has ended with anything but a soft stop, its process is on
\* its way to the campaign's end.
LEMMA StepKeepsSoured ==
    ASSUME OwnerInv, NEW p \in Runners, RunnerStep(p) \/ Crash(p), ~Claim(p)
    PROVE  SouredIsLast'
<1> USE DEF OwnerInv, TypeInv, TypeOK, SharedTypeOK, ControlTypeOK, ChildTypeOK, OneOwner,
        OwnersOnly, SouredIsLast, Owning, Ended, Goto, FinishReading, Save, files, account,
        locals, history
<1>1. CASE Authorize(p) \/ LoadRecord(p) \/ SaveExecuting(p) \/ RunHead(p)
    BY <1>1 DEF Authorize, LoadRecord, SaveExecuting, RunHead
<1>2. CASE PlanChild(p) \/ Trade(p)
    BY <1>2 DEF PlanChild, Trade
<1>3. CASE Preflight(p) \/ ChildClaim(p) \/ Account(p)
    BY <1>3 DEF Preflight, ChildClaim, Account
<1>4. CASE SessionEnds(p)
  <2>1. p \in owners /\ owners' = owners /\ \A q \in owners : q = p
    BY <1>4 DEF SessionEnds
  <2>2. pc'[p] = "finish" \/ (pc'[p] = "account" /\ (soured' => soured \/ child'[p].status # "soft"))
    <3>1. ASSUME NEW r \in Verdicts(p),
                 child' = [child EXCEPT ![p].status = r.status, ![p].counted = r.counted,
                                        ![p].verified = r.verified],
                 soured' = (soured \/ r.status # "soft")
          PROVE  soured' => soured \/ child'[p].status # "soft"
      <4>1. child'[p].status = r.status
        BY <3>1 DEF Results
      <4> QED
        BY <3>1, <4>1
    <3> QED
        BY <1>4, <3>1 DEF SessionEnds
  <2>3. ~soured
    BY <1>4, <2>1 DEF SessionEnds
  <2> QED
    BY <2>1, <2>2, <2>3
<1>5. CASE Boundary(p)
  <2>1. p \in owners /\ owners' = owners /\ soured' = soured /\ \A q \in owners : q = p
    BY <1>5 DEF Boundary
  <2>2. Judged(p) = "executing" => child[p].status = "soft"
    BY DEF Judged, Retryable, Results, Outcomes
  <2>3. pc'[p] \in Ended \/ child[p].status = "soft"
    BY <1>5, <2>2 DEF Boundary
  <2>4. pc[p] = "boundary"
    BY <1>5 DEF Boundary
  <2> QED
    BY <2>1, <2>3, <2>4
<1>6. CASE Finish(p)
    BY <1>6 DEF Finish
<1>7. CASE Crash(p)
    BY <1>7 DEF Crash
<1> QED
    BY <1>1, <1>2, <1>3, <1>4, <1>5, <1>6, <1>7 DEF RunnerStep

LEMMA NextOwner == OwnerInv /\ [Next]_vars => OwnerInv'
<1> SUFFICES ASSUME OwnerInv, [Next]_vars PROVE OwnerInv'
    OBVIOUS
<1>1. TypeInv'
    BY NextTyped DEF OwnerInv
<1>2. ASSUME NEW p \in Runners, RunnerStep(p) \/ Crash(p) PROVE OwnerInv'
  <2>1. CASE Claim(p)
    BY <1>1, <2>1, ClaimKeepsOwner DEF OwnerInv
  <2>2. CASE ~Claim(p)
    BY <1>1, <1>2, <2>2, StepKeepsOwner, StepKeepsFinal, StepKeepsRest, StepKeepsSoured
       DEF OwnerInv
  <2> QED
    BY <2>1, <2>2
<1>3. CASE RequestStop \/ CloseByHand \/ UNCHANGED vars
    BY <1>1, <1>3 DEF RequestStop, CloseByHand, vars, files, account, locals, history, OwnerInv,
       OneOwner, Unclaimed, OwnersOnly, FinalMeansDone, RestAtClaim, SouredIsLast
<1> QED
    BY <1>2, <1>3 DEF Next, AllEnded

LEMMA OwnerAlways == Spec => []OwnerInv
    BY InitOwner, NextOwner, PTL DEF Spec

\* Whatever processes enter a confirmed campaign, and wherever they die, at
\* most one of them ever acts on it.
THEOREM CampaignHasOneOwner == Spec => []OneOwner
<1>1. OwnerInv => OneOwner
    BY DEF OwnerInv
<1> QED
    BY <1>1, OwnerAlways, PTL

\* The saved outcome of a campaign is never replaced.
THEOREM CampaignOutcomeIsFinal == Spec => OutcomeIsFinal
<1>1. OwnerInv /\ [Next]_vars => [(state \in Terminal) => state' = state]_vars
  <2> SUFFICES ASSUME OwnerInv, Next, state \in Terminal PROVE state' = state
    BY DEF vars, files
  <2>1. ASSUME NEW p \in Runners, RunnerStep(p) \/ Crash(p) PROVE state' = state
    <3> USE DEF OwnerInv, OwnersOnly, FinalMeansDone, Owning
    <3>1. pc[p] \in Owning => pc[p] = "done"
        OBVIOUS
    <3> QED
        BY <2>1, <3>1 DEF RunnerStep, Authorize, LoadRecord, Claim, SaveExecuting, RunHead,
           PlanChild, Preflight, ChildClaim, Trade, SessionEnds, Account, Boundary, Finish,
           Crash, files
  <2> QED
    BY <2>1 DEF Next, RequestStop, CloseByHand, AllEnded, vars, files
<1> QED
    BY <1>1, OwnerAlways, PTL DEF Spec, OutcomeIsFinal

\* A child starts only on an account at rest and only after soft stops.
THEOREM CampaignStartsChildrenSafely == Spec => OnlyAfterSoftStops
<1> DEFINE Safely == \A p \in Runners : pc[p] # "session" /\ pc'[p] = "session"
                                          => ~exposed /\ ~soured
<1>1. OwnerInv /\ [Next]_vars => [Safely]_vars
  <2> SUFFICES ASSUME OwnerInv, Next, NEW p \in Runners, pc[p] # "session", pc'[p] = "session"
               PROVE  ~exposed /\ ~soured
    OBVIOUS
  <2> USE DEF OwnerInv, TypeInv, TypeOK, ControlTypeOK
  <2>1. PICK q \in Runners : RunnerStep(q) \/ Crash(q)
    BY DEF Next, RequestStop, CloseByHand, AllEnded, vars
  <2>2. pc[p] = "child_claim"
    BY <2>1 DEF RunnerStep, Authorize, LoadRecord, Claim, SaveExecuting, RunHead, PlanChild,
       Preflight, ChildClaim, Trade, SessionEnds, Account, Boundary, Finish, Crash, Goto,
       FinishReading, Save, locals, Ended
  <2>3. ~exposed
    BY <2>2 DEF RestAtClaim
  <2>4. p \in owners
    BY <2>2 DEF OwnersOnly, Owning
  <2> QED
    BY <2>2, <2>3, <2>4 DEF SouredIsLast, Ended
<1> QED
    BY <1>1, OwnerAlways, PTL DEF Spec, OnlyAfterSoftStops

(***************************************************************************)
(* What a campaign saves at its end is true: what it counts was traded,    *)
(* and a child with verified volume that ended uncertain leaves its        *)
(* process no other verdict.                                               *)
(***************************************************************************)
CountedIsTraded ==
    \A p \in Runners :
        /\ total[p] <= traded
        /\ pc[p] \in {"preflight", "child_claim", "session"} => total[p] + child[p].traded <= traded
        /\ pc[p] = "account" => total[p] + child[p].counted <= traded
DoubtIsLast ==
    doubted => /\ owners # {}
               /\ \A p \in owners :
                     \/ pc[p] \in {"account", "boundary"} /\ child[p].status = "uncertain" /\ child[p].verified
                     \/ pc[p] = "finish" /\ verdict[p] = "uncertain"
                     \/ pc[p] \in Ended
OutcomeInv == OwnerInv /\ CountedIsTraded /\ DoubtIsLast /\ OutcomeIsTrue

LEMMA InitOutcome == Init => OutcomeInv
<1> SUFFICES ASSUME Init PROVE OutcomeInv
    OBVIOUS
<1>1. OwnerInv
    BY InitOwner
<1>2. CountedIsTraded
    <2>1. \A p \in Runners : total[p] <= traded
        <3>1. \A p \in Runners : total[p] = traded
            BY Zenon DEF Init
        <3>2. traded \in Nat
            BY <1>1 DEF OwnerInv, TypeInv, TypeOK, SharedTypeOK
        <3>3. traded <= traded
            BY <3>2
        <3> QED
            BY <3>1, <3>3, Zenon
    <2>2. \A p \in Runners : pc[p] \notin {"preflight", "child_claim", "session"} /\ pc[p] # "account"
        BY DEF Init
    <2> QED
        BY <2>1, <2>2, Zenon DEF CountedIsTraded
<1>3. DoubtIsLast /\ OutcomeIsTrue
    BY DEF Init, DoubtIsLast, OutcomeIsTrue
<1> QED
    BY <1>1, <1>2, <1>3 DEF OutcomeInv

LEMMA CountsTyped ==
    ASSUME OwnerInv, NEW p \in Runners
    PROVE  /\ total[p] \in Nat /\ traded \in Nat /\ child[p] \in Results
           /\ child[p].traded \in Nat /\ child[p].counted \in Nat
    BY DEF OwnerInv, TypeInv, TypeOK, SharedTypeOK, CountersTypeOK, ChildTypeOK, Results

\* The others stay, and what was traded only grows.
LEMMA CountedGoesOn ==
    ASSUME OwnerInv, CountedIsTraded, NEW p \in Runners, traded' \in Nat, traded <= traded',
           \A q \in Runners : q # p => pc'[q] = pc[q] /\ total'[q] = total[q] /\ child'[q] = child[q],
           total'[p] <= traded',
           pc'[p] \in {"preflight", "child_claim", "session"} => total'[p] + child'[p].traded <= traded',
           pc'[p] = "account" => total'[p] + child'[p].counted <= traded'
    PROVE  CountedIsTraded'
<1>1. ASSUME NEW q \in Runners, q # p
      PROVE  /\ total'[q] <= traded'
             /\ pc'[q] \in {"preflight", "child_claim", "session"} => total'[q] + child'[q].traded <= traded'
             /\ pc'[q] = "account" => total'[q] + child'[q].counted <= traded'
    <2>1. total'[q] = total[q] /\ child'[q] = child[q] /\ pc'[q] = pc[q]
        BY <1>1
    <2>2. /\ total[q] \in Nat /\ traded \in Nat
          /\ child[q].traded \in Nat /\ child[q].counted \in Nat
        BY CountsTyped
    <2> QED
        BY <2>1, <2>2 DEF CountedIsTraded
<1> QED
    BY <1>1 DEF CountedIsTraded

LEMMA StepPc ==
    ASSUME OwnerInv, NEW p \in Runners, RunnerStep(p) \/ Crash(p)
    PROVE  /\ \A q \in Runners : q # p => /\ pc'[q] = pc[q] /\ total'[q] = total[q] /\ child'[q] = child[q]
                                          /\ verdict'[q] = verdict[q]
           /\ traded' = traded \/ (Trade(p) /\ traded' = traded + 1)
           /\ \/ total' = total
              \/ Account(p)
           /\ \/ child' = child
              \/ PlanChild(p) \/ Trade(p) \/ SessionEnds(p)
<1> USE DEF OwnerInv, TypeInv, TypeOK, ControlTypeOK, CountersTypeOK, ChildTypeOK, Goto, FinishReading, Save,
        files, account, locals, history
<1>1. CASE Authorize(p) \/ LoadRecord(p) \/ Claim(p) \/ SaveExecuting(p) \/ Crash(p)
    BY <1>1 DEF Authorize, LoadRecord, Claim, SaveExecuting, Crash
<1>2. CASE RunHead(p) \/ Preflight(p) \/ ChildClaim(p)
    BY <1>2 DEF RunHead, Preflight, ChildClaim
<1>3. CASE PlanChild(p)
    BY <1>3 DEF PlanChild
<1>4. CASE Trade(p)
    BY <1>4 DEF Trade
<1>5. CASE SessionEnds(p)
    BY <1>5 DEF SessionEnds
<1>6. CASE Account(p)
    BY <1>6 DEF Account
<1>7. CASE Boundary(p) \/ Finish(p)
    BY <1>7 DEF Boundary, Finish
<1> QED
    BY <1>1, <1>2, <1>3, <1>4, <1>5, <1>6, <1>7 DEF RunnerStep

\* Each step of a process counts what was traded, or less.
LEMMA StepKeepsCounted ==
    ASSUME OwnerInv, CountedIsTraded, NEW p \in Runners, RunnerStep(p) \/ Crash(p)
    PROVE  CountedIsTraded'
<1>1. /\ total[p] \in Nat /\ traded \in Nat /\ child[p] \in Results
      /\ child[p].traded \in Nat /\ child[p].counted \in Nat
    BY CountsTyped
<1>2. /\ total[p] <= traded
      /\ pc[p] \in {"preflight", "child_claim", "session"} => total[p] + child[p].traded <= traded
      /\ pc[p] = "account" => total[p] + child[p].counted <= traded
    BY DEF CountedIsTraded
<1>3. \A q \in Runners : q # p => pc'[q] = pc[q] /\ total'[q] = total[q] /\ child'[q] = child[q]
    BY StepPc
<1>4. pc \in [Runners -> Steps] /\ total \in [Runners -> Nat] /\ child \in [Runners -> Results]
    BY DEF OwnerInv, TypeInv, TypeOK, ControlTypeOK, CountersTypeOK, ChildTypeOK
<1>5. CASE PlanChild(p)
    <2>1. traded' = traded /\ total' = total
        BY <1>5 DEF PlanChild, account
    <2>2. CASE pc'[p] \notin {"preflight", "child_claim", "session", "account"}
        BY <1>1, <1>2, <1>3, <2>1, <2>2, CountedGoesOn
    <2>3. ASSUME NEW target \in {Remaining(p)} \cup 1..LeastOf(Round, Remaining(p)),
                 child' = [child EXCEPT ![p] = [NoChild EXCEPT !.target = target]], Goto(p, "preflight")
          PROVE  CountedIsTraded'
        <3>1. child'[p].traded = 0
            BY <1>4, <2>3 DEF NoChild
        <3>2. total'[p] + child'[p].traded <= traded' /\ pc'[p] = "preflight"
            BY <1>1, <1>2, <1>4, <2>1, <2>3, <3>1 DEF Goto
        <3> QED
            BY <1>1, <1>2, <1>3, <2>1, <3>2, CountedGoesOn
    <2>4. \/ pc'[p] \notin {"preflight", "child_claim", "session", "account"}
          \/ \E target \in {Remaining(p)} \cup 1..LeastOf(Round, Remaining(p)) :
                child' = [child EXCEPT ![p] = [NoChild EXCEPT !.target = target]] /\ Goto(p, "preflight")
        BY <1>4, <1>5 DEF PlanChild, FinishReading, Goto
    <2> QED
        BY <2>2, <2>3, <2>4
<1>6. CASE Trade(p)
    <2>1. PICK n : n = child[p].traded + 1
        OBVIOUS
    <2>2. child' = [child EXCEPT ![p].traded = n] /\ traded' = traded + 1 /\ pc' = pc /\ total' = total
          /\ pc[p] = "session"
        BY <1>6, <2>1 DEF Trade
    <2>3. child'[p].traded = n
        BY <1>4, <2>2 DEF Results
    <2>4. /\ traded' \in Nat /\ traded <= traded' /\ total'[p] <= traded'
          /\ total'[p] + child'[p].traded <= traded'
        BY <1>1, <1>2, <2>1, <2>2, <2>3
    <2> QED
        BY <1>3, <2>2, <2>4, CountedGoesOn
<1>7. CASE SessionEnds(p)
    <2>1. traded' = traded /\ total' = total /\ pc[p] = "session"
        BY <1>7 DEF SessionEnds, account
    <2>2. ASSUME NEW r \in Verdicts(p), Goto(p, "account"),
                 child' = [child EXCEPT ![p].status = r.status, ![p].counted = r.counted,
                                        ![p].verified = r.verified]
          PROVE  CountedIsTraded'
        <3>1. r.counted \in 0..child[p].traded
            BY DEF Verdicts
        <3>2. child'[p].counted = r.counted
            BY <1>4, <2>2 DEF Results
        <3>3. total'[p] + child'[p].counted <= traded'
            BY <1>1, <1>2, <2>1, <3>1, <3>2
        <3>4. pc'[p] = "account"
            BY <1>4, <2>2 DEF Goto
        <3> QED
            BY <1>1, <1>2, <1>3, <2>1, <3>3, <3>4, CountedGoesOn
    <2>3. CASE pc'[p] = "finish"
        BY <1>1, <1>2, <1>3, <2>1, <2>3, CountedGoesOn
    <2>4. \/ pc'[p] = "finish"
          \/ \E r \in Verdicts(p) : /\ Goto(p, "account")
                                    /\ child' = [child EXCEPT ![p].status = r.status, ![p].counted = r.counted,
                                                              ![p].verified = r.verified]
        BY <1>4, <1>7 DEF SessionEnds, FinishReading, Goto
    <2> QED
        BY <2>2, <2>3, <2>4
<1>8. CASE Account(p)
    <2>1. traded' = traded /\ child' = child /\ pc[p] = "account"
        BY <1>8 DEF Account, account
    <2>2. pc'[p] \in {"finish", "boundary"}
        BY <1>4, <1>8 DEF Account, FinishReading, Goto
    <2>3. PICK n : n = total[p] + child[p].counted
        OBVIOUS
    <2>4. total' = total \/ total' = [total EXCEPT ![p] = n]
        BY <1>8, <2>3 DEF Account
    <2>5. total'[p] <= traded'
        BY <1>1, <1>2, <1>4, <2>1, <2>3, <2>4
    <2> QED
        BY <1>1, <1>3, <2>1, <2>2, <2>5, CountedGoesOn
<1>9. CASE ~PlanChild(p) /\ ~Trade(p) /\ ~SessionEnds(p) /\ ~Account(p)
    <2>1. traded' = traded /\ child' = child /\ total' = total
        BY <1>9, StepPc
    <2>2. /\ pc'[p] \in {"child_claim", "session", "preflight"}
             => pc[p] \in {"preflight", "child_claim", "session"}
          /\ pc'[p] # "account"
        BY <1>4, <1>9 DEF RunnerStep, Authorize, LoadRecord, Claim, SaveExecuting, RunHead, Preflight, ChildClaim,
           Boundary, Finish, Crash, FinishReading, Save, Goto
    <2> QED
        BY <1>1, <1>2, <1>3, <2>1, <2>2, CountedGoesOn
<1> QED
    BY <1>5, <1>6, <1>7, <1>8, <1>9

\* A child in doubt, with its volume verified, leaves its process one verdict.
LEMMA StepKeepsDoubt ==
    ASSUME OwnerInv, DoubtIsLast, NEW p \in Runners, RunnerStep(p) \/ Crash(p)
    PROVE  DoubtIsLast'
<1>1. /\ pc \in [Runners -> Steps] /\ child \in [Runners -> Results]
      /\ verdict \in [Runners -> {"executing", "stopped", "uncertain"}] /\ owners \subseteq Runners
      /\ doubted \in BOOLEAN
    BY DEF OwnerInv, TypeInv, TypeOK, SharedTypeOK, ControlTypeOK, ChildTypeOK
<1>2. \A q \in Runners : q # p => /\ pc'[q] = pc[q] /\ child'[q] = child[q] /\ verdict'[q] = verdict[q]
    BY StepPc
<1>3. ASSUME doubted' => doubted, owners' = owners,
             doubted /\ p \in owners =>
                 \/ pc'[p] \in {"account", "boundary"} /\ child'[p].status = "uncertain" /\ child'[p].verified
                 \/ pc'[p] = "finish" /\ verdict'[p] = "uncertain"
                 \/ pc'[p] \in Ended
      PROVE  DoubtIsLast'
    <2>1. ASSUME NEW q \in owners, doubted
          PROVE  \/ pc'[q] \in {"account", "boundary"} /\ child'[q].status = "uncertain" /\ child'[q].verified
                 \/ pc'[q] = "finish" /\ verdict'[q] = "uncertain"
                 \/ pc'[q] \in Ended
        <3>1. CASE q = p
            BY <1>3, <2>1, <3>1
        <3>2. CASE q # p
            <4>1. /\ pc'[q] = pc[q] /\ child'[q] = child[q] /\ verdict'[q] = verdict[q]
                BY <1>1, <1>2, <3>2
            <4> QED
                BY <2>1, <4>1 DEF DoubtIsLast
        <3> QED
            BY <3>1, <3>2
    <2> QED
        BY <1>3, <2>1 DEF DoubtIsLast
<1>4. doubted /\ p \in owners =>
          \/ pc[p] \in {"account", "boundary"} /\ child[p].status = "uncertain" /\ child[p].verified
          \/ pc[p] = "finish" /\ verdict[p] = "uncertain"
          \/ pc[p] \in Ended
    BY DEF DoubtIsLast
<1>5. CASE Claim(p)
    <2>1. pc[p] = "claim" /\ UNCHANGED doubted
        BY <1>5 DEF Claim
    <2>2. CASE owners' = owners /\ Goto(p, "refused")
        <3>1. pc'[p] \in Ended
            BY <1>1, <2>2 DEF Goto, Ended
        <3> QED
            BY <1>3, <2>1, <2>2, <3>1
    <2>3. CASE ~claimed
        <3>1. owners = {}
            BY <2>3 DEF OwnerInv, Unclaimed
        <3>2. ~doubted
            BY <3>1 DEF DoubtIsLast
        <3> QED
            BY <2>1, <3>2 DEF DoubtIsLast
    <2> QED
        BY <1>5, <2>2, <2>3 DEF Claim, Exists
<1>6. CASE SessionEnds(p)
    <2>1. p \in owners /\ pc[p] = "session" /\ owners' = owners /\ \A q \in owners : q = p
        BY <1>6 DEF SessionEnds, OwnerInv, OwnersOnly, Owning, OneOwner
    <2>2. ~doubted
        BY <1>4, <2>1 DEF Ended
    <2>3. ASSUME NEW r \in Verdicts(p), Goto(p, "account"), doubted' = (doubted \/ (r.status = "uncertain" /\ r.verified)),
                 child' = [child EXCEPT ![p].status = r.status, ![p].counted = r.counted,
                                        ![p].verified = r.verified]
          PROVE  DoubtIsLast'
        <3>1. child'[p].status = r.status /\ child'[p].verified = r.verified
            BY <1>1, <2>3 DEF Results
        <3>2. pc'[p] = "account"
            BY <1>1, <2>3 DEF Goto
        <3> QED
            BY <2>1, <2>2, <2>3, <3>1, <3>2 DEF DoubtIsLast
    <2>4. CASE doubted' = doubted
        BY <2>2, <2>4 DEF DoubtIsLast
    <2>5. \/ doubted' = doubted
          \/ \E r \in Verdicts(p) :
                /\ Goto(p, "account") /\ doubted' = (doubted \/ (r.status = "uncertain" /\ r.verified))
                /\ child' = [child EXCEPT ![p].status = r.status, ![p].counted = r.counted,
                                          ![p].verified = r.verified]
        BY <1>6 DEF SessionEnds
    <2> QED
        BY <2>3, <2>4, <2>5
<1>7. CASE Account(p)
    <2>1. pc[p] = "account" /\ child' = child /\ doubted' = doubted /\ owners' = owners
        BY <1>7 DEF Account, history
    <2>2. doubted /\ p \in owners => child[p].status = "uncertain" /\ child[p].verified
        BY <1>4, <2>1 DEF Ended
    <2>3. child[p].verified => pc'[p] = "boundary" \/ (pc'[p] = "finish" /\ verdict'[p] = "uncertain")
        BY <1>1, <1>7 DEF Account, Authoritative, FinishReading, Goto
    <2> QED
        BY <1>3, <2>1, <2>2, <2>3
<1>8. CASE Boundary(p)
    <2>1. pc[p] = "boundary" /\ doubted' = doubted /\ owners' = owners
        BY <1>8 DEF Boundary, history
    <2>2. doubted /\ p \in owners => child[p].status = "uncertain"
        BY <1>4, <2>1 DEF Ended
    <2>3. child[p].status = "uncertain" => Judged(p) = "uncertain"
        BY DEF Judged
    <2>4. pc'[p] \in Ended \/ Judged(p) = "executing"
        BY <1>1, <1>8 DEF Boundary, Save, Goto, Ended
    <2> QED
        BY <1>3, <2>1, <2>2, <2>3, <2>4
<1>9. CASE Finish(p) \/ Crash(p)
    <2>1. pc'[p] \in Ended /\ doubted' = doubted /\ owners' = owners
        BY <1>1, <1>9 DEF Finish, Crash, Save, Goto, Ended, history
    <2> QED
        BY <1>3, <2>1
<1>10. CASE Authorize(p) \/ LoadRecord(p) \/ SaveExecuting(p) \/ RunHead(p) \/ PlanChild(p) \/ Preflight(p)
            \/ ChildClaim(p) \/ Trade(p)
    <2>1. doubted' = doubted /\ owners' = owners
          /\ pc[p] \in {"idle", "load", "save", "head", "plan", "preflight", "child_claim", "session"}
        BY <1>10 DEF Authorize, LoadRecord, SaveExecuting, RunHead, PlanChild, Preflight, ChildClaim, Trade, history
    <2>2. ~(doubted /\ p \in owners)
        BY <1>4, <2>1 DEF Ended
    <2> QED
        BY <1>3, <2>1, <2>2
<1> QED
    BY <1>5, <1>6, <1>7, <1>8, <1>9, <1>10 DEF RunnerStep

\* What is saved at the end is true when it is saved, and stays so.
LEMMA StepKeepsOutcome ==
    ASSUME OutcomeInv, NEW p \in Runners, RunnerStep(p) \/ Crash(p)
    PROVE  OutcomeIsTrue'
<1>1. /\ total[p] \in Nat /\ traded \in Nat /\ child[p] \in Results
    BY CountsTyped DEF OutcomeInv
<1>2. Target \in Nat
    BY CampaignAssumption
<1>3. CASE Boundary(p)
    <2>1. /\ pc[p] = "boundary" /\ p \in owners /\ doubted' = doubted /\ exposed' = exposed /\ traded' = traded
        BY <1>3 DEF Boundary, history, account, OutcomeInv, OwnerInv, OwnersOnly, Owning
    <2>2. state \notin Terminal
        BY <2>1 DEF OutcomeInv, OwnerInv, FinalMeansDone
    <2>3. doubted => child[p].status = "uncertain"
        BY <2>1 DEF OutcomeInv, DoubtIsLast, Ended
    <2>4. Judged(p) = "completed" => ~exposed /\ total[p] >= Target
        BY DEF Judged, Reached
    <2>5. Judged(p) = "stopped" => child[p].status # "uncertain"
        BY DEF Judged
    <2>6. total[p] <= traded
        BY DEF OutcomeInv, CountedIsTraded
    <2>7. state' \in {"uncertain", "executing", state, Judged(p)}
        BY <1>3 DEF Boundary, Save
    <2> QED
        BY <1>1, <1>2, <2>1, <2>2, <2>3, <2>4, <2>5, <2>6, <2>7 DEF OutcomeIsTrue, Terminal
<1>4. CASE Finish(p)
    <2>1. /\ pc[p] = "finish" /\ p \in owners /\ doubted' = doubted /\ exposed' = exposed /\ traded' = traded
        BY <1>4 DEF Finish, history, account, OutcomeInv, OwnerInv, OwnersOnly, Owning
    <2>2. state \notin Terminal
        BY <2>1 DEF OutcomeInv, OwnerInv, FinalMeansDone
    <2>3. doubted => verdict[p] = "uncertain"
        BY <2>1 DEF OutcomeInv, DoubtIsLast, Ended
    <2>4. state' \in {"uncertain", state, verdict[p]} /\ verdict[p] \in {"executing", "stopped", "uncertain"}
        BY <1>4 DEF Finish, Save, OutcomeInv, OwnerInv, TypeInv, TypeOK, ControlTypeOK
    <2> QED
        BY <2>1, <2>2, <2>3, <2>4 DEF OutcomeIsTrue, Terminal
<1>5. CASE Trade(p) \/ SessionEnds(p)
    <2>1. pc[p] = "session" /\ p \in owners /\ state' = state
        BY <1>5 DEF Trade, SessionEnds, files, OutcomeInv, OwnerInv, OwnersOnly, Owning
    <2>2. state \notin Terminal
        BY <2>1 DEF OutcomeInv, OwnerInv, FinalMeansDone
    <2> QED
        BY <2>1, <2>2 DEF OutcomeIsTrue, Terminal
<1>6. CASE SaveExecuting(p)
    BY <1>6 DEF SaveExecuting, OutcomeIsTrue
<1>7. CASE Authorize(p) \/ LoadRecord(p) \/ Claim(p) \/ RunHead(p) \/ PlanChild(p) \/ Preflight(p)
           \/ ChildClaim(p) \/ Account(p) \/ Crash(p)
    <2>1. UNCHANGED <<state, exposed, traded, doubted>>
        BY <1>7 DEF Authorize, LoadRecord, Claim, RunHead, PlanChild, Preflight, ChildClaim, Account, Crash,
           history, account, files
    <2> QED
        BY <2>1 DEF OutcomeInv, OutcomeIsTrue
<1> QED
    BY <1>3, <1>4, <1>5, <1>6, <1>7 DEF RunnerStep

LEMMA NextOutcome == OutcomeInv /\ [Next]_vars => OutcomeInv'
<1> SUFFICES ASSUME OutcomeInv, [Next]_vars PROVE OutcomeInv'
    OBVIOUS
<1>1. OwnerInv'
    BY NextOwner DEF OutcomeInv
<1>2. ASSUME NEW p \in Runners, RunnerStep(p) \/ Crash(p) PROVE OutcomeInv'
    BY <1>1, <1>2, StepKeepsCounted, StepKeepsDoubt, StepKeepsOutcome DEF OutcomeInv
<1>3. CASE RequestStop \/ UNCHANGED vars
    BY <1>1, <1>3 DEF RequestStop, vars, files, account, locals, history, OutcomeInv, CountedIsTraded, DoubtIsLast,
       OutcomeIsTrue
<1>4. CASE CloseByHand
    BY <1>1, <1>4 DEF CloseByHand, files, locals, history, OutcomeInv, CountedIsTraded, DoubtIsLast, OutcomeIsTrue
<1> QED
    BY <1>2, <1>3, <1>4 DEF Next, AllEnded

(***************************************************************************)
(* The live volume runner.  A plan's file says less than planned only once *)
(* its process has taken it, and more than executing once it is through.   *)
(* A round begins at rest, because an order is left behind only by a leg   *)
(* that is in doubt, which ends the run, or that failed ("surrendered").   *)
(***************************************************************************)
Places == {"idle", "preflight", "round", "opening", "opened", "flatten", "closing", "closed",
           "classify", "acceptance", "done", "raised"}
Sessions == [at : Places, side : Sides, quantity : Nat, leg : Readings, opened : BOOLEAN,
             last : Readings, problem : Readings, attempt : 1..RecoveryAttempts,
             empties : Nat, completed : Nat]
\* Nothing works, and nothing is held but on the side of the round.
OneSided == strays = {} /\ lots[Opposite(session.side)] = 0
RestInv ==
    /\ session.at \in {"round", "opening", "classify"} => LiveAtRest
    /\ session.at \in {"flatten", "closing"} => OneSided
    /\ session.at = "opened" /\ session.leg # "uncertain" => OneSided
    /\ session.at = "closed" /\ session.last # "uncertain" => OneSided
PlanInv ==
    /\ plan = "planned" => session.at = "idle"
    /\ session.at \notin {"idle", "done", "raised"} => plan = "executing"
    /\ session.at = "acceptance" => verified >= VolumeTarget
    /\ plan \in {"completed", "stopped", "uncertain"} => session.at = "done"
LiveInv == LiveTypeOK /\ PlanInv /\ LiveVerdictIsTrue /\ (surrendered \/ RestInv)

LEMMA LiveBegins == ASSUME LiveInit PROVE LiveInv
<1>1. LiveTypeOK
    <2>1. session \in Sessions
        BY LiveVolumeAssumption DEF LiveInit, Sessions, Places, Sides, Readings
    <2>2. lots \in [Sides -> Nat]
        BY DEF LiveInit
    <2> QED
        BY <2>1, <2>2 DEF LiveInit, LiveTypeOK, PlanStates, Sessions, Places
<1>2. session.at = "idle" /\ plan = "planned" /\ verified = 0 /\ made = 0
    BY DEF LiveInit
<1> QED
    BY <1>1, <1>2 DEF LiveInv, PlanInv, RestInv, LiveVerdictIsTrue

\* The facts of the invariant that concern one variable each.
LEMMA LiveTyped ==
    ASSUME LiveInv
    PROVE  /\ session \in Sessions /\ plan \in PlanStates /\ lots \in [Sides -> Nat]
           /\ strays \subseteq Sides \X {"grow", "shrink"} /\ verified \in Nat /\ made \in Nat
           /\ verified <= made /\ surrendered \in BOOLEAN
           /\ VolumeTarget \in Nat /\ RoundQuote \in Nat /\ RecoveryAttempts \in Nat
           /\ RecoveryAttempts >= 1 /\ RoundQuote >= 1
    BY LiveVolumeAssumption DEF LiveInv, LiveTypeOK, LiveVerdictIsTrue, Sessions, Places

\* Only the place of the session changes.
LEMMA SessionGoes ==
    ASSUME NEW s \in Sessions, NEW place \in Places, NEW t, t = [s EXCEPT !.at = place]
    PROVE  /\ t \in Sessions /\ t.at = place /\ t.side = s.side /\ t.leg = s.leg
           /\ t.last = s.last
    BY DEF Sessions

LEMMA OppositeIs == ASSUME NEW side \in Sides
                    PROVE  Opposite(side) \in Sides /\ Opposite(Opposite(side)) = side
                           /\ \A other \in Sides : other = side \/ other = Opposite(side)
    BY DEF Sides, Opposite

\* The account is at rest when neither side is held.
LEMMA RestIs ==
    ASSUME NEW side \in Sides, strays = {}, lots[side] = 0, lots[Opposite(side)] = 0
    PROVE  LiveAtRest
    BY OppositeIs DEF LiveAtRest

\* A step that leaves account and counters alone and saves what it may.
LEMMA StepKeeps ==
    ASSUME LiveInv, session' \in Sessions, AccountStays, UNCHANGED verified,
           \/ /\ plan' = plan
              /\ session.at \notin {"idle", "done", "raised"}
              /\ session'.at \notin {"idle", "done"}
              /\ session'.at = "acceptance" => verified >= VolumeTarget
           \/ plan' = "uncertain" /\ session'.at = "done"
           \/ plan' = "stopped" /\ session'.at = "done" /\ (strays = {} \/ surrendered)
           \/ plan' = "completed" /\ session'.at = "done" /\ LiveAtRest /\ verified >= VolumeTarget
           \/ plan' = "rejected" /\ session'.at = "raised"
           \/ plan' = "executing" /\ session'.at = "preflight",
           surrendered \/ RestInv'
    PROVE  LiveInv'
<1>1. /\ lots' = lots /\ strays' = strays /\ made' = made /\ surrendered' = surrendered
      /\ verified' = verified
    BY DEF AccountStays
<1>2. LiveAtRest' <=> LiveAtRest
    BY <1>1 DEF LiveAtRest
<1>3. plan' \in PlanStates
    BY LiveTyped DEF PlanStates
<1>4. LiveTypeOK'
    BY <1>1, <1>3, LiveTyped DEF LiveTypeOK, Sessions, Places
<1>5. PlanInv'
    BY <1>1 DEF LiveInv, PlanInv
<1>6. LiveVerdictIsTrue'
    BY <1>1, <1>2 DEF LiveInv, LiveVerdictIsTrue, PlanInv
<1> QED
    BY <1>1, <1>4, <1>5, <1>6 DEF LiveInv

LEMMA BeginsKeep == ASSUME LiveInv, ClaimLive \/ PreflightLive PROVE LiveInv'
<1>1. CASE ClaimLive
    <2>1. session' \in Sessions /\ session'.at = "preflight"
        BY <1>1, LiveTyped, SessionGoes DEF ClaimLive, LiveGoes, Places
    <2>2. RestInv'
        BY <2>1 DEF RestInv
    <2> QED
        BY <1>1, <2>1, <2>2, StepKeeps DEF ClaimLive
<1>2. CASE PreflightLive /\ LiveAtRest /\ LiveGoes(session, "round") /\ plan' = plan
    <2>1. session' \in Sessions /\ session'.at = "round" /\ session.at = "preflight"
        BY <1>2, LiveTyped, SessionGoes DEF PreflightLive, LiveGoes, Places
    <2>2. LiveAtRest'
        BY <1>2 DEF LiveAtRest, PreflightLive, AccountStays
    <2>3. RestInv'
        BY <2>1, <2>2 DEF RestInv
    <2> QED
        BY <1>2, <2>1, <2>3, StepKeeps DEF PreflightLive
<1>3. CASE PreflightLive /\ plan' = "rejected" /\ LiveGoes(session, "raised")
    <2>1. session' \in Sessions /\ session'.at = "raised"
        BY <1>3, LiveTyped, SessionGoes DEF LiveGoes, Places
    <2>2. RestInv'
        BY <2>1 DEF RestInv
    <2> QED
        BY <1>3, <2>1, <2>2, StepKeeps DEF PreflightLive
<1> QED
    BY <1>1, <1>2, <1>3 DEF PreflightLive

\* A step that saves a verdict, or raises.
LEMMA ConcludeKeeps ==
    ASSUME LiveInv, AccountStays, UNCHANGED verified,
           session.at \notin {"idle", "done", "raised"},
           \/ LiveGoes(session, "raised") /\ plan' = plan
           \/ Concludes("uncertain")
           \/ Concludes("stopped") /\ (strays = {} \/ surrendered)
           \/ Concludes("completed") /\ LiveAtRest /\ verified >= VolumeTarget
    PROVE  LiveInv'
<1>1. session' \in Sessions /\ session'.at \in {"raised", "done"}
      /\ (LiveGoes(session, "raised") => session'.at = "raised")
      /\ (LiveGoes(session, "done") => session'.at = "done")
    BY LiveTyped, SessionGoes DEF Concludes, LiveGoes, Places
<1>2. RestInv'
    BY <1>1 DEF RestInv
<1> QED
    BY <1>1, <1>2, StepKeeps DEF Concludes

LEMMA RoundKeeps == ASSUME LiveInv, StartRound PROVE LiveInv'
<1> USE LiveTyped
<1>1. session.at = "round" /\ (LiveAtRest \/ surrendered) /\ AccountStays /\ UNCHANGED verified
    BY DEF StartRound, LiveInv, RestInv
<1>2. CASE (LiveGoes(session, "raised") /\ plan' = plan) \/ Concludes("stopped")
    BY <1>1, <1>2, ConcludeKeeps DEF LiveAtRest
<1>3. CASE verified >= VolumeTarget /\ LiveGoes(session, "acceptance") /\ plan' = plan
    <2>1. session' \in Sessions /\ session'.at = "acceptance"
        BY <1>3, SessionGoes DEF LiveGoes, Places
    <2>2. RestInv'
        BY <2>1 DEF RestInv
    <2> QED
        BY <1>1, <1>3, <2>1, <2>2, StepKeeps
<1>4. CASE /\ session' = [session EXCEPT !.at = "opening", !.side = Opposite(@),
                                         !.quantity = QuantityFor(DesiredQuote), !.problem = "idle"]
           /\ plan' = plan /\ ~(verified >= VolumeTarget)
    <2>1. DesiredQuote \in Nat
        BY <1>4 DEF DesiredQuote, RemainingQuote
    <2>2. QuantityFor(DesiredQuote) \in Nat
        BY <2>1 DEF QuantityFor
    <2>3. Opposite(session.side) \in Sides
        BY OppositeIs DEF Sessions
    <2>4. session' \in Sessions /\ session'.at = "opening"
        BY <1>4, <2>2, <2>3 DEF Sessions, Places, Readings
    <2>5. LiveAtRest' <=> LiveAtRest
        BY <1>1 DEF LiveAtRest, AccountStays
    <2>6. surrendered \/ RestInv'
        BY <1>1, <2>4, <2>5 DEF RestInv
    <2> QED
        BY <1>1, <1>4, <2>4, <2>6, StepKeeps
<1> QED
    BY <1>1, <1>2, <1>3, <1>4 DEF StartRound

\* What the round keeps of a leg.
LEMMA KeptIs ==
    ASSUME LiveInv, NEW reading \in Readings, session.at \in {"opening", "closing"}
    PROVE  /\ Kept(reading) \in Sessions /\ Kept(reading).side = session.side
           /\ session.at = "opening" => Kept(reading).at = "opened" /\ Kept(reading).leg = reading
           /\ session.at = "closing" => Kept(reading).at = "closed" /\ Kept(reading).last = reading
<1>1. session \in Sessions
    BY LiveTyped
<1>2. CASE session.at = "opening"
    BY <1>1, <1>2 DEF Kept, Sessions, Places
<1>3. CASE session.at = "closing"
    <2> DEFINE worst == IF session.problem = "idle" /\ reading \in {"accounting", "taker", "rejected"}
                        THEN reading ELSE session.problem
    <2>1. worst \in Readings
        BY <1>1 DEF Sessions
    <2>2. Kept(reading) = [session EXCEPT !.at = "closed", !.last = reading, !.problem = worst]
        BY <1>3 DEF Kept
    <2> HIDE DEF worst
    <2> QED
        BY <1>1, <1>3, <2>1, <2>2 DEF Sessions, Places
<1> QED
    BY <1>2, <1>3

\* A leg is counted only when every fill was made by a Maker, and is in doubt just
\* when its order is unknown.
LEMMA ReadLegIs ==
    ASSUME NEW f \in Nat, NEW ended2 \in {"clean", "exposed", "unknown"}, NEW taker \in BOOLEAN,
           NEW result \in ReadLeg(f, ended2, taker)
    PROVE  /\ result.reading \in Readings /\ result.counted \in {0, f}
           /\ taker => result.counted = 0
           /\ ended2 = "unknown" => result.reading = "uncertain"
<1>1. CASE ended2 = "unknown"
    BY <1>1 DEF ReadLeg, Readings
<1>2. CASE ended2 # "unknown" /\ f = 0
    BY <1>2 DEF ReadLeg, Readings
<1>3. CASE ended2 # "unknown" /\ f # 0
    BY <1>3 DEF ReadLeg, Readings
<1> QED
    BY <1>1, <1>2, <1>3

LEMMA LegKeeps ==
    ASSUME LiveInv, NEW n \in Nat, NEW direction \in {"grow", "shrink"}, LiveLeg(n, direction),
           session.at \in {"opening", "closing"},
           direction = "shrink" => n <= lots[session.side]
    PROVE  LiveInv'
<1> DEFINE side == session.side
<1>1. PICK f \in 0..n, ended2 \in {"clean", "exposed", "unknown"}, taker \in BOOLEAN :
        /\ taker => f > 0
        /\ n = 0 => ended2 = "clean"
        /\ lots' = [lots EXCEPT ![side] = IF direction = "grow" THEN @ + f ELSE @ - f]
        /\ made' = IF taker THEN made ELSE made + f
        /\ strays' \in IF ended2 = "clean" \/ f = n THEN {strays}
                       ELSE {strays, strays \union {<<side, direction>>}}
        /\ surrendered' = (surrendered \/ ended2 = "exposed")
        /\ \E result \in ReadLeg(f, ended2, taker) :
              verified' = verified + result.counted /\ session' = Kept(result.reading)
    BY ZenonT(60) DEF LiveLeg
<1>2. plan' = plan /\ plan = "executing" /\ f \in Nat /\ f <= n /\ side \in Sides
    BY LiveTyped DEF LiveLeg, LiveInv, PlanInv, Sessions
<1>3. PICK result \in ReadLeg(f, ended2, taker) :
           verified' = verified + result.counted /\ session' = Kept(result.reading)
    BY <1>1
<1>4. /\ result.reading \in Readings /\ result.counted \in {0, f} /\ (taker => result.counted = 0)
      /\ ended2 = "unknown" => result.reading = "uncertain"
    BY <1>2, ReadLegIs
<1>5. /\ session' \in Sessions /\ session'.side = side
      /\ session.at = "opening" => session'.at = "opened" /\ session'.leg = result.reading
      /\ session.at = "closing" => session'.at = "closed" /\ session'.last = result.reading
    BY <1>3, <1>4, KeptIs, Zenon
<1>6. lots' \in [Sides -> Nat] /\ lots'[Opposite(side)] = lots[Opposite(side)]
    <2>1. lots \in [Sides -> Nat] /\ lots[side] \in Nat /\ Opposite(side) \in Sides /\ Opposite(side) # side
        BY <1>2, LiveTyped DEF Sides, Opposite
    <2>2. PICK m : m = IF direction = "grow" THEN lots[side] + f ELSE lots[side] - f
        OBVIOUS
    <2>3. m \in Nat
        BY <1>2, <2>1, <2>2
    <2>4. lots' = [lots EXCEPT ![side] = m]
        BY <1>1, <2>2
    <2> QED
        BY <2>1, <2>3, <2>4
<1>7. verified' \in Nat /\ made' \in Nat /\ verified' <= made'
    BY <1>1, <1>2, <1>3, <1>4, LiveTyped
<1>8. strays' \subseteq Sides \X {"grow", "shrink"} /\ (ended2 = "clean" => strays' = strays)
    BY <1>1, <1>2, LiveTyped
<1>9. surrendered' \in BOOLEAN /\ (surrendered => surrendered') /\ (ended2 = "exposed" => surrendered')
    BY <1>1, LiveTyped, Zenon
<1>10. LiveTypeOK'
    BY <1>2, <1>5, <1>6, <1>7, <1>8, <1>9 DEF LiveTypeOK, Sessions, Places, PlanStates
<1>11. PlanInv' /\ LiveVerdictIsTrue'
    BY <1>2, <1>5, <1>7 DEF PlanInv, LiveVerdictIsTrue
<1>12. surrendered' \/ RestInv'
    <2>1. CASE surrendered \/ ended2 = "exposed"
        BY <1>9, <2>1
    <2>2. CASE ~surrendered /\ ended2 = "clean"
        <3>1. OneSided
            BY <1>2, <2>2, OppositeIs DEF LiveInv, RestInv, OneSided, LiveAtRest
        <3>2. OneSided'
            BY <1>5, <1>6, <1>8, <2>2, <3>1 DEF OneSided
        <3> QED
            BY <1>5, <3>2 DEF RestInv
    <2>3. CASE ended2 = "unknown"
        BY <1>4, <1>5, <2>3 DEF RestInv
    <2> QED
        BY <2>1, <2>2, <2>3, LiveTyped
<1> QED
    BY <1>10, <1>11, <1>12 DEF LiveInv

\* Without a starting position nothing is submitted.
LEMMA NoLegKeeps == ASSUME LiveInv, NoLeg, session.at \in {"opening", "closing"} PROVE LiveInv'
<1>1. /\ session' \in Sessions
      /\ session.at = "opening" => session'.at = "opened" /\ session'.leg = "uncertain"
      /\ session.at = "closing" => session'.at = "closed" /\ session'.last = "uncertain"
    BY KeptIs DEF NoLeg, Readings
<1>2. RestInv'
    BY <1>1 DEF RestInv
<1> QED
    BY <1>1, <1>2, StepKeeps DEF NoLeg

LEMMA LegsKeep == ASSUME LiveInv, OpeningLeg \/ ClosingLeg PROVE LiveInv'
<1>1. lots[session.side] \in Nat /\ session.quantity \in Nat
    BY LiveTyped DEF Sessions
<1>2. CASE OpeningLeg
    <2>1. PICK n \in Nat : LiveLeg(n, "grow") \/ NoLeg
        BY <1>1, <1>2 DEF OpeningLeg
    <2> QED
        BY <1>2, <2>1, LegKeeps, NoLegKeeps DEF OpeningLeg
<1>3. CASE ClosingLeg
    BY <1>1, <1>3, LegKeeps, NoLegKeeps DEF ClosingLeg
<1> QED
    BY <1>2, <1>3

LEMMA OpeningReadKeeps == ASSUME LiveInv, ReadOpening PROVE LiveInv'
<1>1. session.at = "opened" /\ AccountStays /\ UNCHANGED verified
    BY DEF ReadOpening
<1>2. CASE Concludes("uncertain")
    BY <1>1, <1>2, ConcludeKeeps
<1>3. CASE /\ session.leg # "uncertain" /\ plan' = plan
           /\ session' = [session EXCEPT !.at = IF lots[session.side] > 0 THEN "flatten" ELSE "classify",
                                         !.opened = lots[session.side] > 0, !.attempt = 1]
    <2>1. /\ session' \in Sessions /\ session'.side = session.side
          /\ session'.at = IF lots[session.side] > 0 THEN "flatten" ELSE "classify"
        <3>1. PICK opened, place : opened = (lots[session.side] > 0)
                                   /\ place = IF lots[session.side] > 0 THEN "flatten" ELSE "classify"
            OBVIOUS
        <3>2. opened \in BOOLEAN /\ place \in Places
            BY <3>1 DEF Places
        <3>3. session' = [session EXCEPT !.at = place, !.opened = opened, !.attempt = 1]
            BY <1>3, <3>1
        <3>4. session \in Sessions /\ 1 \in 1..RecoveryAttempts
            BY LiveTyped
        <3>5. session' \in Sessions /\ session'.side = session.side /\ session'.at = place
            BY <3>2, <3>3, <3>4 DEF Sessions
        <3> QED
            BY <3>1, <3>5
    <2>2. session.side \in Sides /\ lots[session.side] \in Nat
        BY LiveTyped DEF Sessions
    <2>3. surrendered \/ OneSided
        BY <1>1, <1>3 DEF LiveInv, RestInv
    <2>4. /\ OneSided' <=> OneSided
          /\ LiveAtRest' <=> LiveAtRest
        BY <1>1, <2>1 DEF OneSided, LiveAtRest, AccountStays
    <2>5. OneSided /\ ~(lots[session.side] > 0) => LiveAtRest
        BY <2>2, RestIs DEF OneSided
    <2>6. surrendered \/ RestInv'
        BY <2>1, <2>3, <2>4, <2>5 DEF RestInv
    <2>7. session'.at \in {"flatten", "classify"}
        BY <2>1
    <2> QED
        BY <1>1, <1>3, <2>1, <2>6, <2>7, StepKeeps
<1> QED
    BY <1>1, <1>2, <1>3 DEF ReadOpening

LEMMA FlattenKeeps == ASSUME LiveInv, FlattenRound PROVE LiveInv'
<1>1. session.at = "flatten" /\ AccountStays /\ UNCHANGED verified /\ (surrendered \/ OneSided)
    BY DEF FlattenRound, LiveInv, RestInv
<1>2. CASE Concludes("uncertain")
    BY <1>1, <1>2, ConcludeKeeps
<1>3. session \in Sessions /\ session.side \in Sides
    BY LiveTyped DEF Sessions
<1>4. LiveAtRest' <=> LiveAtRest
    BY <1>1 DEF LiveAtRest, AccountStays
<1>5. CASE SeenFlat /\ LiveGoes(session, "classify") /\ plan' = plan
    <2>1. session' \in Sessions /\ session'.at = "classify"
        BY <1>3, <1>5, SessionGoes DEF LiveGoes, Places
    <2>2. surrendered \/ LiveAtRest
        BY <1>1, <1>3, <1>5, RestIs DEF OneSided, SeenFlat
    <2>3. surrendered \/ RestInv'
        BY <1>4, <2>1, <2>2 DEF RestInv
    <2> QED
        BY <1>1, <1>5, <2>1, <2>3, StepKeeps
<1>6. CASE strays = {} /\ LiveGoes(session, "closing") /\ plan' = plan
    <2>1. session' \in Sessions /\ session'.at = "closing" /\ session'.side = session.side
        BY <1>3, <1>6, SessionGoes DEF LiveGoes, Places
    <2>2. OneSided' <=> OneSided
        BY <1>1, <2>1 DEF OneSided, AccountStays
    <2>3. surrendered \/ RestInv'
        BY <1>1, <2>1, <2>2 DEF RestInv
    <2> QED
        BY <1>1, <1>6, <2>1, <2>3, StepKeeps
<1> QED
    BY <1>2, <1>5, <1>6 DEF FlattenRound

LEMMA ClosingReadKeeps == ASSUME LiveInv, AfterClosing PROVE LiveInv'
<1>1. session.at = "closed" /\ AccountStays /\ UNCHANGED verified
    BY DEF AfterClosing
<1>2. CASE Concludes("uncertain")
    BY <1>1, <1>2, ConcludeKeeps
<1>3. session \in Sessions /\ session.side \in Sides
    BY LiveTyped DEF Sessions
<1>4. session.last # "uncertain" => surrendered \/ OneSided
    BY <1>1 DEF LiveInv, RestInv
<1>5. CASE session.last # "uncertain" /\ Concludes("stopped")
    BY <1>1, <1>4, <1>5, ConcludeKeeps DEF OneSided
<1>6. CASE session.last # "uncertain" /\ SeenFlat /\ LiveGoes(session, "classify") /\ plan' = plan
    <2>1. session' \in Sessions /\ session'.at = "classify"
        BY <1>3, <1>6, SessionGoes DEF LiveGoes, Places
    <2>2. surrendered \/ LiveAtRest
        BY <1>3, <1>4, <1>6, RestIs DEF OneSided, SeenFlat
    <2>3. LiveAtRest' <=> LiveAtRest
        BY <1>1 DEF LiveAtRest, AccountStays
    <2>4. surrendered \/ RestInv'
        BY <2>1, <2>2, <2>3 DEF RestInv
    <2> QED
        BY <1>1, <1>6, <2>1, <2>4, StepKeeps
<1>7. CASE /\ session.last # "uncertain" /\ session.attempt # RecoveryAttempts /\ plan' = plan
           /\ session' = [session EXCEPT !.at = "flatten", !.attempt = @ + 1]
    <2>1. session' \in Sessions /\ session'.at = "flatten" /\ session'.side = session.side
        <3>1. PICK n : n = session.attempt + 1
            OBVIOUS
        <3>2. n \in 1..RecoveryAttempts
            BY <1>3, <1>7, <3>1, LiveTyped DEF Sessions
        <3>3. session' = [session EXCEPT !.at = "flatten", !.attempt = n]
            BY <1>7, <3>1
        <3> QED
            BY <1>3, <3>2, <3>3 DEF Sessions, Places
    <2>2. OneSided' <=> OneSided
        BY <1>1, <2>1 DEF OneSided, AccountStays
    <2>3. surrendered \/ RestInv'
        BY <1>4, <1>7, <2>1, <2>2 DEF RestInv
    <2> QED
        BY <1>1, <1>7, <2>1, <2>3, StepKeeps
<1>8. PICK flat \in {FALSE, SeenFlat} :
         IF session.last = "uncertain" THEN Concludes("uncertain")
         ELSE IF flat THEN LiveGoes(session, "classify") /\ plan' = plan
         ELSE IF session.last = "rejected" \/ session.attempt = RecoveryAttempts
              THEN Concludes("stopped")
         ELSE session' = [session EXCEPT !.at = "flatten", !.attempt = @ + 1] /\ plan' = plan
    BY Zenon DEF AfterClosing
<1>9. flat => SeenFlat
    BY <1>8, Zenon
<1> QED
    BY <1>2, <1>5, <1>6, <1>7, <1>8, <1>9, Zenon

LEMMA ClassifyKeeps == ASSUME LiveInv, ClassifyRound PROVE LiveInv'
<1>1. session.at = "classify" /\ AccountStays /\ UNCHANGED verified /\ (surrendered \/ LiveAtRest)
    BY DEF ClassifyRound, LiveInv, RestInv
<1>2. CASE Concludes("uncertain")
    BY <1>1, <1>2, ConcludeKeeps
<1>3. CASE Concludes("stopped")
    BY <1>1, <1>3, ConcludeKeeps DEF LiveAtRest
<1>4. CASE /\ plan' = plan
           /\ \/ session' = [session EXCEPT !.at = "round", !.completed = @ + 1, !.empties = 0]
              \/ session' = [session EXCEPT !.at = "round", !.empties = @ + 1]
    <2>1. session' \in Sessions /\ session'.at = "round"
        <3>1. PICK m, n : m = session.completed + 1 /\ n = session.empties + 1
            OBVIOUS
        <3>2. session \in Sessions /\ m \in Nat /\ n \in Nat
            BY <3>1, LiveTyped DEF Sessions
        <3>3. \/ session' = [session EXCEPT !.at = "round", !.completed = m, !.empties = 0]
              \/ session' = [session EXCEPT !.at = "round", !.empties = n]
            BY <1>4, <3>1
        <3>4. CASE session' = [session EXCEPT !.at = "round", !.completed = m, !.empties = 0]
            BY <3>2, <3>4 DEF Sessions, Places
        <3>5. CASE session' = [session EXCEPT !.at = "round", !.empties = n]
            BY <3>2, <3>5 DEF Sessions, Places
        <3> QED
            BY <3>3, <3>4, <3>5
    <2>2. LiveAtRest' <=> LiveAtRest
        BY <1>1 DEF LiveAtRest, AccountStays
    <2>3. surrendered \/ RestInv'
        BY <1>1, <2>1, <2>2 DEF RestInv
    <2> QED
        BY <1>1, <1>4, <2>1, <2>3, StepKeeps
<1> QED
    BY <1>2, <1>3, <1>4 DEF ClassifyRound

LEMMA AcceptanceKeeps == ASSUME LiveInv, FinalAcceptance PROVE LiveInv'
<1>1. session.at = "acceptance" /\ AccountStays /\ UNCHANGED verified /\ verified >= VolumeTarget
    BY DEF FinalAcceptance, LiveInv, PlanInv
<1> QED
    BY <1>1, ConcludeKeeps DEF FinalAcceptance, AcceptLive

\* An order that strays fills: the run is in doubt, over, or surrendered.
LEMMA StrayKeeps == ASSUME LiveInv, StrayFills PROVE LiveInv'
<1>1. PICK stray \in strays :
         /\ stray[2] = "shrink" => lots[stray[1]] > 0
         /\ lots' = [lots EXCEPT ![stray[1]] = IF stray[2] = "grow" THEN @ + 1 ELSE @ - 1]
         /\ strays' = strays \ {stray}
    BY DEF StrayFills
<1>2. /\ made' = made + 1 /\ UNCHANGED <<plan, session, verified, surrendered>>
    BY DEF StrayFills
<1>3. stray[1] \in Sides /\ stray[2] \in {"grow", "shrink"} /\ lots[stray[1]] \in Nat
    BY LiveTyped
<1>4. lots' \in [Sides -> Nat]
    <2>1. PICK m : m = IF stray[2] = "grow" THEN lots[stray[1]] + 1 ELSE lots[stray[1]] - 1
        OBVIOUS
    <2>2. m \in Nat
        BY <1>1, <1>3, <2>1
    <2>3. lots' = [lots EXCEPT ![stray[1]] = m]
        BY <1>1, <2>1
    <2> QED
        BY <2>2, <2>3, LiveTyped
<1>5. LiveTypeOK'
    BY <1>1, <1>2, <1>4, LiveTyped DEF LiveTypeOK, Sessions, Places
<1>6. strays # {}
    BY <1>1
<1>7. PlanInv' /\ LiveVerdictIsTrue'
    BY <1>2, <1>6, LiveTyped DEF LiveInv, PlanInv, LiveVerdictIsTrue, LiveAtRest
<1>8. surrendered' \/ RestInv'
    BY <1>2, <1>6 DEF LiveInv, RestInv, OneSided, LiveAtRest
<1> QED
    BY <1>5, <1>7, <1>8 DEF LiveInv

LEMMA DeathKeeps == ASSUME LiveInv, LiveDies PROVE LiveInv'
    BY ConcludeKeeps DEF LiveDies

LEMMA LiveSteps == ASSUME LiveInv, LiveNext \/ UNCHANGED liveVars PROVE LiveInv'
<1>1. CASE UNCHANGED liveVars
    BY <1>1 DEF liveVars, LiveInv, LiveTypeOK, PlanInv, LiveVerdictIsTrue, RestInv, OneSided, LiveAtRest
<1> QED
    BY <1>1, BeginsKeep, RoundKeeps, LegsKeep, OpeningReadKeeps, FlattenKeeps, ClosingReadKeeps,
       ClassifyKeeps, AcceptanceKeeps, StrayKeeps, DeathKeeps, Zenon DEF LiveNext, SessionStep

(***************************************************************************)
(* The demo volume runners.  Outside of the wait for an order and of an    *)
(* adaptive leg no order works, and what a batch counts has filled.        *)
(***************************************************************************)
DemoPlaces == {"start", "submit", "wait", "leg", "final", "round", "done", "raised"}
DemoRuns == [at : DemoPlaces, sequence : 1..DemoFills + 1, round : 1..DemoRounds, quantity : Nat,
             total : Nat, status : {"running", "completed", "stopped", "uncertain"}]
DemoOrders == [side : {"none", "buy", "sell"}, size : Nat, done : Nat,
               state : {"new", "filled", "canceled"}]
Verified == demo.total + (IF demo.at = "wait" THEN demoOrder.done ELSE 0)
DemoShape ==
    /\ demo.at \in {"submit", "wait", "leg"} => demo.sequence <= DemoFills
    /\ demo.at \in {"submit", "wait"} => runner = "single"
    /\ demo.at = "leg" => runner \in {"adaptive", "flatten"}
    /\ demo.at = "leg" /\ runner = "flatten" => demo.sequence = DemoFills
    /\ demo.at \in {"submit", "leg", "final", "round"} => ~DemoOrderWorks
    /\ demo.at = "start" => /\ demo.sequence = 1
                            /\ ~DemoOrderWorks \/ (runner # "single" /\ demo.quantity = 0)
    /\ demo.at = "round" => runner = "adaptive" /\ demoLots = 0 /\ demo.total >= DemoTarget
    /\ demo.at = "final" /\ runner = "flatten" => demoLots = 0 \/ handled
    /\ demo.status = "running" <=> demo.at # "done"
    /\ demo.status = "completed" => ~DemoOrderWorks
    /\ DemoOrderWorks => demoOrder.side # "none"
DemoCounted == Verified <= demoMade
DemoInv == DemoTypeOK /\ DemoShape /\ DemoCounted /\ DemoVerdictIsTrue

LEMMA DemoTyped ==
    ASSUME DemoInv
    PROVE  /\ demo \in DemoRuns /\ demoOrder \in DemoOrders /\ demoLots \in Nat /\ demoMade \in Nat
           /\ runner \in {"single", "adaptive", "flatten"} /\ mislaid \in BOOLEAN /\ handled \in BOOLEAN
           /\ DemoFills \in Nat /\ DemoFills >= 1 /\ DemoRounds \in Nat /\ DemoRounds >= 1
           /\ DemoTarget \in Nat /\ DemoTarget >= 1
    BY DemoVolumeAssumption DEF DemoInv, DemoTypeOK, DemoRuns, DemoPlaces, DemoOrders

LEMMA DemoTypedNext ==
    ASSUME demo' \in DemoRuns, demoOrder' \in DemoOrders, demoLots' \in Nat, demoMade' \in Nat,
           runner' \in {"single", "adaptive", "flatten"}, mislaid' \in BOOLEAN, handled' \in BOOLEAN
    PROVE  DemoTypeOK'
    BY Zenon DEF DemoTypeOK, DemoRuns, DemoPlaces, DemoOrders

\* The counted volume of every place but that of a wait is that of the fills recorded.
LEMMA DemoCounts ==
    ASSUME DemoInv
    PROVE  /\ demo.total <= demoMade
           /\ demo.at = "wait" => demo.total + demoOrder.done <= demoMade
<1>1. demo.total \in Nat /\ demoOrder.done \in Nat /\ demoMade \in Nat
    BY DemoTyped DEF DemoRuns, DemoOrders
<1>2. Verified <= demoMade
    BY DEF DemoInv, DemoCounted
<1> QED
    BY <1>1, <1>2 DEF Verified

LEMMA DemoCountsNext ==
    ASSUME demo'.total \in Nat, demoMade' \in Nat,
           demo'.at # "wait" => demo'.total <= demoMade',
           demo'.at = "wait" => demo'.total + demoOrder'.done <= demoMade'
    PROVE  DemoCounted'
    BY DEF DemoCounted, Verified

LEMMA DemoBegins == ASSUME DemoInit PROVE DemoInv
<1>1. DemoTypeOK
    <2>1. demo \in DemoRuns
        BY DemoVolumeAssumption DEF DemoInit, DemoRuns, DemoPlaces
    <2>2. demoOrder \in DemoOrders
        BY DEF DemoInit, NoDemoOrder, NewOrder, DemoOrders
    <2>3. runner \in {"single", "adaptive", "flatten"} /\ mislaid \in BOOLEAN /\ handled \in BOOLEAN
        BY Zenon DEF DemoInit
    <2>4. demoLots \in Nat /\ demoMade \in Nat
        BY DEF DemoInit
    <2> QED
        BY <2>1, <2>2, <2>3, <2>4, Zenon DEF DemoTypeOK, DemoRuns, DemoPlaces, DemoOrders
<1>2. /\ demo.at = "start" /\ demo.status = "running" /\ demo.total = 0 /\ demo.quantity = 0
      /\ demo.sequence = 1 /\ demoMade = 0
    BY DEF DemoInit
<1>3. (runner = "single" => ~DemoOrderWorks) /\ (DemoOrderWorks => demoOrder.side # "none")
    BY DEF DemoInit, DemoOrderWorks, NoDemoOrder, NewOrder
<1>4. DemoShape
    BY <1>2, <1>3 DEF DemoShape
<1>5. DemoCounted
    BY <1>2 DEF DemoCounted, Verified
<1>6. DemoVerdictIsTrue
    BY <1>2 DEF DemoVerdictIsTrue
<1> QED
    BY <1>1, <1>4, <1>5, <1>6 DEF DemoInv

\* A step that does not touch the account: the service ends, raises or goes on.
LEMMA DemoEnds ==
    ASSUME DemoInv, NEW status \in {"stopped", "completed", "uncertain"}, Ends(status), ExchangeStays,
           demo.at # "done",
           status = "stopped" => demo.quantity = 0 \/ ~DemoOrderWorks \/ mislaid,
           status = "completed" => /\ demoLots = 0 \/ (runner = "flatten" /\ handled)
                                   /\ runner # "flatten" => demo.total >= DemoTarget
                                   /\ ~DemoOrderWorks
    PROVE  DemoInv'
<1>1. /\ demo' \in DemoRuns /\ demo'.at = "done" /\ demo'.status = status
      /\ demo'.total = demo.total /\ demo'.quantity = demo.quantity
    BY DemoTyped DEF Ends, DemoRuns, DemoPlaces
<1>2. /\ demoOrder' = demoOrder /\ demoLots' = demoLots /\ demoMade' = demoMade /\ mislaid' = mislaid
      /\ handled' = handled /\ runner' = runner
    BY DEF ExchangeStays
<1>3. DemoOrderWorks' <=> DemoOrderWorks
    BY <1>2 DEF DemoOrderWorks
<1>4. demo.total <= demoMade
    BY DemoCounts
<1>5. DemoTypeOK'
    BY <1>1, <1>2, DemoTyped, DemoTypedNext, Zenon
<1>6. DemoOrderWorks => demoOrder.side # "none"
    BY DEF DemoInv, DemoShape
<1>7. DemoShape'
    BY <1>1, <1>2, <1>3, <1>6 DEF DemoShape
<1>8. DemoCounted'
    <2>1. demo'.total \in Nat /\ demoMade' \in Nat /\ demo'.total <= demoMade' /\ demo'.at # "wait"
        BY <1>1, <1>2, <1>4, DemoTyped DEF DemoRuns
    <2> QED
        BY <2>1, DemoCountsNext
<1>9. DemoVerdictIsTrue'
    BY <1>1, <1>2, <1>3, <1>4 DEF DemoVerdictIsTrue
<1> QED
    BY <1>5, <1>7, <1>8, <1>9, Zenon DEF DemoInv

LEMMA DemoGoesOn ==
    ASSUME DemoInv, NEW place \in {"submit", "leg", "round", "raised"}, DemoGoes(place), ExchangeStays,
           demo.at # "done",
           place = "submit" => runner = "single" /\ demo.sequence <= DemoFills /\ ~DemoOrderWorks,
           place = "leg" => runner = "adaptive" /\ demo.sequence <= DemoFills /\ ~DemoOrderWorks,
           place = "round" => runner = "adaptive" /\ demoLots = 0 /\ demo.total >= DemoTarget
                              /\ ~DemoOrderWorks
    PROVE  DemoInv'
<1>1. /\ demo' \in DemoRuns /\ demo'.at = place /\ demo'.status = demo.status
      /\ demo'.total = demo.total /\ demo'.sequence = demo.sequence
    BY DemoTyped DEF DemoGoes, DemoRuns, DemoPlaces
<1>2. /\ demoOrder' = demoOrder /\ demoLots' = demoLots /\ demoMade' = demoMade /\ mislaid' = mislaid
      /\ handled' = handled /\ runner' = runner
    BY DEF ExchangeStays
<1>3. DemoOrderWorks' <=> DemoOrderWorks
    BY <1>2 DEF DemoOrderWorks
<1>4. demo.total <= demoMade /\ demo.status = "running"
    BY DemoCounts DEF DemoInv, DemoShape
<1>5. DemoTypeOK'
    BY <1>1, <1>2, DemoTyped, DemoTypedNext, Zenon
<1>6. DemoOrderWorks => demoOrder.side # "none"
    BY DEF DemoInv, DemoShape
<1>7. DemoShape'
    BY <1>1, <1>2, <1>3, <1>4, <1>6 DEF DemoShape
<1>8. DemoCounted'
    <2>1. demo'.total \in Nat /\ demoMade' \in Nat /\ demo'.total <= demoMade' /\ demo'.at # "wait"
        BY <1>1, <1>2, <1>4, DemoTyped DEF DemoRuns
    <2> QED
        BY <2>1, DemoCountsNext
<1>9. DemoVerdictIsTrue'
    BY <1>1, <1>4 DEF DemoVerdictIsTrue
<1> QED
    BY <1>5, <1>7, <1>8, <1>9, Zenon DEF DemoInv

LEMMA DemoRaises == ASSUME DemoInv, Raises, ExchangeStays, demo.at # "done" PROVE DemoInv'
    BY DemoGoesOn DEF Raises, DemoGoes

LEMMA SingleBegins == ASSUME DemoInv, StartSingle \/ RefuseSubmit \/ OrderCanceled \/ GiveUpWaiting
                      PROVE  DemoInv'
<1> USE DemoTyped
<1>1. demo.at # "done" /\ ExchangeStays
    BY DEF StartSingle, RefuseSubmit, OrderCanceled, GiveUpWaiting
<1>2. CASE Raises
    BY <1>1, <1>2, DemoRaises
<1>3. CASE Ends("uncertain")
    BY <1>1, <1>3, DemoEnds
<1>4. CASE StartSingle
    <2>1. runner = "single" /\ ~DemoOrderWorks
        BY <1>4 DEF StartSingle, DemoInv, DemoShape
    <2>2. CASE demoLots = 0 /\ DemoGoes("submit")
        <3>1. demo.sequence <= DemoFills
            BY <1>4 DEF StartSingle, DemoInv, DemoShape, DemoRuns
        <3> QED
            BY <1>1, <2>1, <2>2, <3>1, DemoGoesOn
    <2>3. CASE Ends("stopped")
        BY <1>1, <2>1, <2>3, DemoEnds
    <2> QED
        BY <1>2, <1>4, <2>2, <2>3 DEF StartSingle
<1>5. CASE RefuseSubmit
    <2>1. ~DemoOrderWorks
        BY <1>5 DEF RefuseSubmit, DemoInv, DemoShape
    <2>2. CASE Ends("stopped")
        BY <1>1, <2>1, <2>2, DemoEnds
    <2> QED
        BY <1>2, <1>5, <2>2 DEF RefuseSubmit
<1>6. CASE OrderCanceled
    <2>1. ~DemoOrderWorks
        BY <1>6 DEF OrderCanceled, DemoOrderWorks
    <2>2. CASE Ends("stopped")
        BY <1>1, <2>1, <2>2, DemoEnds
    <2> QED
        BY <1>3, <1>6, <2>2 DEF OrderCanceled
<1> QED
    BY <1>3, <1>4, <1>5, <1>6 DEF GiveUpWaiting

LEMMA OpeningsAreNat == ASSUME DemoInv, demo.sequence <= DemoFills PROVE Openings \subseteq Nat
<1>1. PICK n, t, q : n = DemoFills /\ t = DemoLeft /\ q = demo.sequence
    OBVIOUS
<1>2. n \in Nat /\ n >= 1 /\ q \in Nat /\ q >= 1 /\ q <= n
    BY <1>1, DemoTyped DEF DemoRuns
<1>3. t \in Nat
    BY <1>1, DemoTyped DEF DemoLeft, DemoRuns
<1>4. DemoTarget \div n \in Nat
    BY <1>2, DemoTyped
<1>5. t \div (n - q + 1) \in Nat
    <2>1. PICK k : k = n - q + 1
        OBVIOUS
    <2>2. k \in Nat /\ k >= 1
        BY <1>2, <2>1
    <2>3. t \div k \in Nat
        BY <1>3, <2>2
    <2> QED
        BY <2>1, <2>3
<1>6. EvenShare \in Nat /\ Share \in Nat
    BY <1>1, <1>4, <1>5 DEF EvenShare, Share
<1> QED
    BY <1>6 DEF Openings, LargerShare

\* An order is placed, or its submission fails; its answer may say anything.
LEMMA SubmitKeeps == ASSUME DemoInv, SubmitSingle PROVE DemoInv'
<1>1. /\ demo.at = "submit" /\ runner = "single" /\ demo.sequence <= DemoFills
      /\ demo.total <= demoMade /\ demo.status = "running"
    <2>1. demo.at = "submit"
        BY DEF SubmitSingle
    <2>2. runner = "single" /\ demo.sequence <= DemoFills /\ demo.status = "running"
        BY <2>1 DEF DemoInv, DemoShape
    <2> QED
        BY <2>1, <2>2, DemoCounts
<1>2. UNCHANGED <<demoLots, demoMade, handled, runner>>
    BY DEF SubmitSingle
<1>3. PICK size \in (IF Opens THEN Openings ELSE {demo.quantity}) :
         LET placed    == demoOrder' = NewOrder(IF Opens THEN "buy" ELSE "sell", size)
             submitted == [demo EXCEPT !.quantity = size]
             in(place, status) == demo' = [submitted EXCEPT !.at = place, !.status = status] IN
         \/ placed /\ in("wait", "running") /\ UNCHANGED mislaid
         \/ placed /\ in("done", "uncertain") /\ UNCHANGED mislaid
         \/ placed /\ in("done", "stopped") /\ mislaid' = TRUE
         \/ demoOrder' = NoDemoOrder /\ in("done", "uncertain") /\ UNCHANGED mislaid
         \/ demoOrder' = NoDemoOrder /\ in("done", "stopped") /\ UNCHANGED mislaid
    BY Zenon DEF SubmitSingle
<1>4. size \in Nat
    BY <1>1, <1>3, OpeningsAreNat, DemoTyped DEF DemoRuns
<1>5. PICK place \in {"wait", "done"}, status \in {"running", "uncertain", "stopped"}, side \in {"buy", "sell"} :
         /\ demo' = [[demo EXCEPT !.quantity = size] EXCEPT !.at = place, !.status = status]
         /\ place = "wait" <=> status = "running"
         /\ \/ demoOrder' = NewOrder(side, size)
            \/ demoOrder' = NoDemoOrder /\ place = "done"
         /\ status = "stopped" => demoOrder' = NoDemoOrder \/ mislaid' = TRUE
         /\ mislaid' = mislaid \/ mislaid' = TRUE
    BY <1>3
<1>6. /\ demo' \in DemoRuns /\ demo'.at = place /\ demo'.status = status
      /\ demo'.total = demo.total /\ demo'.sequence = demo.sequence
    BY <1>4, <1>5, DemoTyped DEF DemoRuns, DemoPlaces
<1>7. /\ demoOrder' \in DemoOrders /\ demoOrder'.done = 0
      /\ demoOrder' = NoDemoOrder => ~DemoOrderWorks'
      /\ DemoOrderWorks' => demoOrder'.side # "none"
    BY <1>4, <1>5 DEF DemoOrders, NewOrder, NoDemoOrder, DemoOrderWorks
<1>8. mislaid' \in BOOLEAN
    BY <1>5, DemoTyped, Zenon
<1>9. DemoTypeOK'
    BY <1>2, <1>6, <1>7, <1>8, DemoTyped, DemoTypedNext, Zenon
<1>10. DemoCounted'
    <2>1. demo'.total \in Nat /\ demoMade' \in Nat /\ demo'.total <= demoMade' /\ demoOrder'.done = 0
        BY <1>1, <1>2, <1>6, <1>7, DemoTyped DEF DemoRuns
    <2>2. demo'.total + 0 <= demoMade'
        BY <2>1
    <2> QED
        BY <2>1, <2>2, DemoCountsNext
<1>11. DemoShape'
    <2>1. (place = "wait" /\ status = "running") \/ (place = "done" /\ status \in {"uncertain", "stopped"})
        BY <1>5
    <2>2. runner' = runner
        BY <1>2
    <2> QED
        BY <1>1, <1>6, <1>7, <2>1, <2>2 DEF DemoShape
<1>12. DemoVerdictIsTrue'
    BY <1>5, <1>6, <1>7 DEF DemoVerdictIsTrue
<1> QED
    BY <1>9, <1>10, <1>11, <1>12, Zenon DEF DemoInv

LEMMA RecordKeeps == ASSUME DemoInv, RecordFill PROVE DemoInv'
<1>1. /\ demo.at = "wait" /\ demoOrder.state = "filled" /\ demo.sequence <= DemoFills /\ runner = "single"
      /\ demo.total + demoOrder.done <= demoMade /\ demo.status = "running"
    <2>1. demo.at = "wait" /\ demoOrder.state = "filled"
        BY DEF RecordFill
    <2>2. runner = "single" /\ demo.sequence <= DemoFills /\ demo.status = "running"
        BY <2>1 DEF DemoInv, DemoShape
    <2> QED
        BY <2>1, <2>2, DemoCounts
<1>2. /\ demoOrder' = demoOrder /\ demoLots' = demoLots /\ demoMade' = demoMade /\ mislaid' = mislaid
      /\ handled' = handled /\ runner' = runner
    BY DEF RecordFill, ExchangeStays
<1>3. PICK sum, sequence, place :
         /\ sum = demo.total + demoOrder.done /\ sequence = demo.sequence + 1
         /\ place = IF demo.sequence = DemoFills THEN "final" ELSE "submit"
    OBVIOUS
<1>4. demo' = [demo EXCEPT !.total = sum, !.sequence = sequence, !.at = place]
    BY <1>3 DEF RecordFill
<1>5. sum \in Nat /\ sequence \in 1..DemoFills + 1 /\ place \in {"final", "submit"}
      /\ (place = "submit" => sequence <= DemoFills)
    BY <1>1, <1>3, DemoTyped DEF DemoRuns, DemoOrders
<1>6. /\ demo' \in DemoRuns /\ demo'.total = sum /\ demo'.sequence = sequence /\ demo'.at = place
      /\ demo'.status = "running"
    BY <1>1, <1>4, <1>5, DemoTyped DEF DemoRuns, DemoPlaces
<1>7. ~DemoOrderWorks'
    BY <1>1, <1>2 DEF DemoOrderWorks
<1>8. DemoCounted'
    <2>1. demo'.total \in Nat /\ demoMade' \in Nat /\ demo'.total <= demoMade' /\ demo'.at # "wait"
        BY <1>1, <1>2, <1>3, <1>5, <1>6, DemoTyped
    <2> QED
        BY <2>1, DemoCountsNext
<1>9. DemoTypeOK'
    BY <1>2, <1>6, DemoTyped, DemoTypedNext, Zenon
<1>10. DemoShape'
    BY <1>1, <1>2, <1>5, <1>6, <1>7 DEF DemoShape
<1>11. DemoVerdictIsTrue'
    BY <1>6 DEF DemoVerdictIsTrue
<1> QED
    BY <1>8, <1>9, <1>10, <1>11, Zenon DEF DemoInv

\* The last looks, and the starts of a batch and of a flatten.
LEMMA LooksKeep == ASSUME DemoInv, FinishSingle \/ FinishFlatten \/ FinishBatch PROVE DemoInv'
<1> USE DemoTyped
<1>1. demo.at = "final" /\ ExchangeStays /\ ~DemoOrderWorks
    BY DEF FinishSingle, FinishFlatten, FinishBatch, DemoInv, DemoShape
<1>2. CASE Raises
    BY <1>1, <1>2, DemoRaises
<1>3. CASE Ends("stopped")
    BY <1>1, <1>3, DemoEnds
<1>4. CASE FinishSingle /\ Ends("completed") /\ demo.total >= DemoTarget /\ Flat
    BY <1>1, <1>4, DemoEnds DEF FinishSingle, Flat
<1>5. CASE FinishFlatten /\ Ends("completed")
    <2>1. runner = "flatten" /\ (demoLots = 0 \/ handled)
        BY <1>1, <1>5 DEF FinishFlatten, DemoInv, DemoShape
    <2> QED
        BY <1>1, <1>5, <2>1, DemoEnds
<1>6. CASE FinishBatch /\ Accepted /\ demo.total >= DemoTarget /\ DemoGoes("round")
    BY <1>1, <1>6, DemoGoesOn DEF FinishBatch, Accepted, Flat
<1>7. FinishSingle => Raises \/ Ends("stopped") \/ (Ends("completed") /\ demo.total >= DemoTarget /\ Flat)
    BY DEF FinishSingle
<1> QED
    BY <1>2, <1>3, <1>4, <1>5, <1>6, <1>7 DEF FinishFlatten, FinishBatch

LEMMA FlattenBegins ==
    ASSUME DemoInv, StartFlatten, ~DemoOrderWorks, ExchangeStays,
           demo' = [demo EXCEPT !.at = "leg", !.sequence = DemoFills]
    PROVE  DemoInv'
<1>1. runner = "flatten" /\ demo.at = "start"
    BY DEF StartFlatten
<1>2. demo.status = "running"
    BY <1>1 DEF DemoInv, DemoShape
<1>3. /\ demo' \in DemoRuns /\ demo'.at = "leg" /\ demo'.sequence = DemoFills
      /\ demo'.status = "running" /\ demo'.total = demo.total
    <2>1. DemoFills \in 1..DemoFills + 1
        BY DemoTyped
    <2>2. demo \in DemoRuns
        BY DemoTyped
    <2> QED
        BY <1>2, <2>1, <2>2 DEF DemoRuns, DemoPlaces
<1>4. /\ demoOrder' = demoOrder /\ demoLots' = demoLots /\ demoMade' = demoMade
      /\ mislaid' = mislaid /\ handled' = handled /\ runner' = runner
    BY DEF ExchangeStays
<1>5. ~DemoOrderWorks' /\ DemoFills <= DemoFills
    BY <1>4, DemoTyped DEF DemoOrderWorks
<1>6. DemoTypeOK'
    BY <1>3, <1>4, DemoTyped, DemoTypedNext, Zenon
<1>7. DemoShape'
    BY <1>1, <1>3, <1>4, <1>5 DEF DemoShape
<1>8. DemoCounted'
    <2>1. demo'.total \in Nat /\ demoMade' \in Nat /\ demo'.total <= demoMade' /\ demo'.at # "wait"
        BY <1>3, <1>4, DemoCounts, DemoTyped DEF DemoRuns
    <2> QED
        BY <2>1, DemoCountsNext
<1>9. DemoVerdictIsTrue'
    BY <1>3 DEF DemoVerdictIsTrue
<1> QED
    BY <1>6, <1>7, <1>8, <1>9, Zenon DEF DemoInv

LEMMA StartsKeep == ASSUME DemoInv, StartBatch \/ StartFlatten \/ RefuseLeg PROVE DemoInv'
<1>1. demo.at \in {"start", "leg"} /\ ExchangeStays
    BY DEF StartBatch, StartFlatten, RefuseLeg
<1>2. CASE Raises
    BY <1>1, <1>2, DemoRaises
<1>3. CASE Ends("stopped")
    <2>1. demo.quantity = 0 \/ ~DemoOrderWorks
        BY <1>1 DEF DemoInv, DemoShape
    <2> QED
        BY <1>1, <1>3, <2>1, DemoEnds
<1>4. CASE StartBatch /\ ~DemoOrderWorks /\ DemoGoes("leg")
    <2>1. demo.sequence = 1 /\ runner = "adaptive"
        BY <1>4 DEF StartBatch, DemoInv, DemoShape
    <2>2. demo.sequence <= DemoFills
        BY <2>1, DemoTyped
    <2> QED
        BY <1>1, <1>4, <2>1, <2>2, DemoGoesOn
<1>5. CASE StartFlatten /\ ~DemoOrderWorks /\ demo' = [demo EXCEPT !.at = "leg", !.sequence = DemoFills]
    BY <1>1, <1>5, FlattenBegins
<1> QED
    BY <1>2, <1>3, <1>4, <1>5 DEF StartBatch, StartFlatten, RefuseLeg

\* One adaptive leg: it completes with all its lots, or the service ends with it.
LEMMA DemoLegKeeps == ASSUME DemoInv, AdaptiveLeg PROVE DemoInv'
<1>1. /\ demo.at = "leg" /\ demo.sequence <= DemoFills /\ demo.total <= demoMade /\ demo.status = "running"
      /\ runner \in {"adaptive", "flatten"} /\ (runner = "flatten" => demo.sequence = DemoFills)
    <2>1. demo.at = "leg"
        BY DEF AdaptiveLeg
    <2>2. /\ demo.sequence <= DemoFills /\ demo.status = "running"
          /\ runner \in {"adaptive", "flatten"} /\ (runner = "flatten" => demo.sequence = DemoFills)
        BY <2>1 DEF DemoInv, DemoShape
    <2> QED
        BY <2>1, <2>2, DemoCounts
<1>2. UNCHANGED <<handled, runner>>
    BY DEF AdaptiveLeg
<1>3. PICK n \in (IF Opens THEN Openings ELSE {demoLots}), left \in BOOLEAN : \E f \in 0..n :
         /\ demoLots' = IF Opens THEN demoLots + f ELSE demoLots - f
         /\ demoMade' = demoMade + f
         /\ left => f < n
         /\ demoOrder' = IF left THEN NewOrder(IF Opens THEN "buy" ELSE "sell", n - f) ELSE NoDemoOrder
         /\ \/ /\ f = n /\ ~left
               /\ demo' = [demo EXCEPT !.total = @ + f, !.sequence = @ + 1, !.quantity = n,
                               !.at = IF demo.sequence = DemoFills THEN "final" ELSE "leg"]
            \/ \E status \in {"uncertain", "stopped"} :
                  demo' = [demo EXCEPT !.at = "done", !.quantity = n, !.status = status]
         /\ mislaid' = (left /\ demo'.status = "stopped")
    BY Zenon DEF AdaptiveLeg
<1>4. PICK f \in 0..n :
         /\ demoLots' = IF Opens THEN demoLots + f ELSE demoLots - f
         /\ demoMade' = demoMade + f
         /\ left => f < n
         /\ demoOrder' = IF left THEN NewOrder(IF Opens THEN "buy" ELSE "sell", n - f) ELSE NoDemoOrder
         /\ \/ /\ f = n /\ ~left
               /\ demo' = [demo EXCEPT !.total = @ + f, !.sequence = @ + 1, !.quantity = n,
                               !.at = IF demo.sequence = DemoFills THEN "final" ELSE "leg"]
            \/ \E status \in {"uncertain", "stopped"} :
                  demo' = [demo EXCEPT !.at = "done", !.quantity = n, !.status = status]
         /\ mislaid' = (left /\ demo'.status = "stopped")
    BY <1>3, Zenon
<1>5. n \in Nat /\ f \in Nat /\ f <= n /\ (~Opens => n = demoLots)
    BY <1>1, <1>3, OpeningsAreNat, DemoTyped
<1>6. demoLots' \in Nat /\ demoMade' \in Nat /\ demoMade' = demoMade + f
      /\ (~Opens /\ f = n => demoLots' = 0)
    BY <1>4, <1>5, DemoTyped
<1>7. /\ demoOrder' \in DemoOrders
      /\ DemoOrderWorks' => left /\ demoOrder'.side # "none"
    <2>1. CASE left
        <3>1. PICK rest, side : rest = n - f /\ side = IF Opens THEN "buy" ELSE "sell"
            OBVIOUS
        <3>2. rest \in Nat /\ side \in {"buy", "sell"}
            BY <1>4, <1>5, <3>1
        <3>3. demoOrder' = NewOrder(side, rest)
            BY <1>4, <2>1, <3>1, Zenon
        <3> QED
            BY <2>1, <3>2, <3>3 DEF NewOrder, DemoOrders
    <2>2. CASE ~left
        BY <1>4, <2>2 DEF NoDemoOrder, DemoOrders, DemoOrderWorks
    <2> QED
        BY <2>1, <2>2
<1>8. mislaid' \in BOOLEAN
    BY <1>4
<1>9. CASE /\ f = n /\ ~left
           /\ demo' = [demo EXCEPT !.total = @ + f, !.sequence = @ + 1, !.quantity = n,
                               !.at = IF demo.sequence = DemoFills THEN "final" ELSE "leg"]
    <2>1. PICK sum, sequence, place :
             /\ sum = demo.total + f /\ sequence = demo.sequence + 1
             /\ place = IF demo.sequence = DemoFills THEN "final" ELSE "leg"
        OBVIOUS
    <2>2. demo' = [demo EXCEPT !.total = sum, !.sequence = sequence, !.quantity = n, !.at = place]
        BY <1>9, <2>1
    <2>3. /\ sum \in Nat /\ sequence \in 1..DemoFills + 1 /\ place \in {"final", "leg"}
          /\ place = "leg" => sequence <= DemoFills /\ runner = "adaptive"
        BY <1>1, <1>5, <2>1, DemoTyped DEF DemoRuns
    <2>4. /\ demo' \in DemoRuns /\ demo'.at = place /\ demo'.sequence = sequence /\ demo'.total = sum
          /\ demo'.status = demo.status
        BY <1>5, <2>2, <2>3, DemoTyped DEF DemoRuns, DemoPlaces
    <2>5. DemoTypeOK'
        BY <1>2, <1>6, <1>7, <1>8, <2>4, DemoTyped, DemoTypedNext, Zenon
    <2>6. runner = "flatten" => demoLots' = 0
        <3>1. runner = "flatten" => ~Opens
            BY <1>1, DemoVolumeAssumption DEF Opens
        <3> QED
            BY <1>6, <1>9, <3>1
    <2>7. DemoCounted'
        <3>1. sum <= demoMade + f
            BY <1>1, <1>5, <2>1, DemoTyped DEF DemoRuns
        <3>2. demo'.total \in Nat /\ demoMade' \in Nat /\ demo'.total <= demoMade' /\ demo'.at # "wait"
            BY <1>6, <2>3, <2>4, <3>1
        <3> QED
            BY <3>2, DemoCountsNext
    <2>8. ~DemoOrderWorks' /\ runner' = runner
        BY <1>2, <1>7, <1>9
    <2>9. DemoShape'
        BY <1>1, <2>3, <2>4, <2>6, <2>8 DEF DemoShape
    <2>10. DemoVerdictIsTrue'
        BY <1>1, <2>4 DEF DemoVerdictIsTrue
    <2> QED
        BY <2>5, <2>7, <2>9, <2>10, Zenon DEF DemoInv
<1>10. ASSUME NEW status \in {"uncertain", "stopped"},
              demo' = [demo EXCEPT !.at = "done", !.quantity = n, !.status = status]
       PROVE  DemoInv'
    <2>1. demo' \in DemoRuns /\ demo'.at = "done" /\ demo'.status = status /\ demo'.total = demo.total
        BY <1>5, <1>10, DemoTyped DEF DemoRuns, DemoPlaces
    <2>2. DemoTypeOK'
        BY <1>2, <1>6, <1>7, <1>8, <2>1, DemoTyped, DemoTypedNext, Zenon
    <2>3. DemoCounted'
        <3>1. demo.total \in Nat /\ demo.total <= demoMade + f
            BY <1>1, <1>5, DemoTyped DEF DemoRuns
        <3>2. demo'.total \in Nat /\ demoMade' \in Nat /\ demo'.total <= demoMade' /\ demo'.at # "wait"
            BY <1>6, <2>1, <3>1
        <3> QED
            BY <3>2, DemoCountsNext
    <2>4. DemoShape'
        BY <1>7, <2>1 DEF DemoShape
    <2>5. status = "stopped" => ~DemoOrderWorks' \/ mislaid'
        BY <1>4, <1>7, <2>1
    <2>6. DemoVerdictIsTrue'
        BY <2>1, <2>5 DEF DemoVerdictIsTrue
    <2> QED
        BY <2>2, <2>3, <2>4, <2>6, Zenon DEF DemoInv
<1> QED
    BY <1>4, <1>9, <1>10

LEMMA NextRoundKeeps == ASSUME DemoInv, NextRound PROVE DemoInv'
<1>1. /\ demo.at = "round" /\ runner = "adaptive" /\ demoLots = 0 /\ demo.total >= DemoTarget
      /\ ~DemoOrderWorks /\ demo.status = "running"
    <2>1. demo.at = "round"
        BY DEF NextRound
    <2> QED
        BY <2>1 DEF DemoInv, DemoShape
<1>2. UNCHANGED <<demoOrder, demoLots, mislaid, handled, runner>>
    BY DEF NextRound
<1>3. CASE Ends("completed") /\ UNCHANGED demoMade
    <2>1. ExchangeStays
        BY <1>2, <1>3 DEF ExchangeStays
    <2> QED
        BY <1>1, <1>3, <2>1, DemoEnds
<1>4. CASE /\ demo.round < DemoRounds /\ demoMade' = 0
           /\ demo' = [demo EXCEPT !.at = "start", !.sequence = 1, !.total = 0, !.round = @ + 1]
    <2>1. PICK next : next = demo.round + 1
        OBVIOUS
    <2>2. next \in 1..DemoRounds /\ 1 \in 1..DemoFills + 1
        BY <1>4, <2>1, DemoTyped DEF DemoRuns
    <2>3. demo' = [demo EXCEPT !.at = "start", !.sequence = 1, !.total = 0, !.round = next]
        BY <1>4, <2>1
    <2>4. /\ demo' \in DemoRuns /\ demo'.at = "start" /\ demo'.sequence = 1 /\ demo'.total = 0
          /\ demo'.status = "running"
        BY <1>1, <2>2, <2>3, DemoTyped DEF DemoRuns, DemoPlaces
    <2>5. ~DemoOrderWorks'
        BY <1>1, <1>2 DEF DemoOrderWorks
    <2>6. DemoTypeOK'
        <3>1. demoMade' \in Nat
            BY <1>4
        <3> QED
            BY <1>2, <2>4, <3>1, DemoTyped, DemoTypedNext, Zenon
    <2>7. DemoShape'
        BY <2>4, <2>5 DEF DemoShape
    <2>8. DemoCounted'
        <3>1. demo'.total \in Nat /\ demoMade' \in Nat /\ demo'.total <= demoMade' /\ demo'.at # "wait"
            BY <1>4, <2>4
        <3> QED
            BY <3>1, DemoCountsNext
    <2>9. DemoVerdictIsTrue'
        BY <2>4 DEF DemoVerdictIsTrue
    <2> QED
        BY <2>6, <2>7, <2>8, <2>9, Zenon DEF DemoInv
<1> QED
    BY <1>3, <1>4 DEF NextRound

\* The exchange fills the working order lot by lot, or cancels it.
LEMMA ExchangeKeeps == ASSUME DemoInv, DemoExchange PROVE DemoInv'
<1>1. DemoOrderWorks /\ UNCHANGED <<runner, demo, mislaid, handled>>
    BY DEF DemoExchange
<1>2. PICK k \in {0, 1} :
         /\ demoOrder' \in DemoOrders /\ demoOrder'.done = demoOrder.done + k
         /\ demoOrder'.side = demoOrder.side
         /\ demoLots' \in Nat /\ demoMade' = demoMade + k
    <2>1. CASE demoOrder' = [demoOrder EXCEPT !.state = "canceled"] /\ UNCHANGED <<demoLots, demoMade>>
        <3>1. demoOrder' \in DemoOrders /\ demoOrder'.done = demoOrder.done + 0
              /\ demoOrder'.side = demoOrder.side
            BY <2>1, DemoTyped DEF DemoOrders
        <3>2. demoMade' = demoMade + 0 /\ demoLots' \in Nat
            BY <2>1, DemoTyped
        <3> QED
            BY <3>1, <3>2
    <2>2. CASE /\ demoOrder.side = "sell" => demoLots > 0
               /\ demoOrder' = [demoOrder EXCEPT !.done = @ + 1,
                                    !.state = IF @ = "new" /\ demoOrder.done + 1 = demoOrder.size
                                              THEN "filled" ELSE "new"]
               /\ demoLots' = IF demoOrder.side = "buy" THEN demoLots + 1 ELSE demoLots - 1
               /\ demoMade' = demoMade + 1
        <3>1. PICK d, st : d = demoOrder.done + 1
                          /\ st = IF demoOrder.state = "new" /\ demoOrder.done + 1 = demoOrder.size
                                  THEN "filled" ELSE "new"
            OBVIOUS
        <3>2. demoOrder' = [demoOrder EXCEPT !.done = d, !.state = st]
            BY <2>2, <3>1
        <3>3. d \in Nat /\ st \in {"filled", "new"}
            BY <3>1, DemoTyped DEF DemoOrders
        <3>4. demoOrder' \in DemoOrders /\ demoOrder'.done = d /\ demoOrder'.side = demoOrder.side
            BY <3>2, <3>3, DemoTyped DEF DemoOrders
        <3>5. demoOrder.side # "none"
            BY <1>1 DEF DemoInv, DemoShape
        <3>6. demoLots' \in Nat
            BY <2>2, <3>5, DemoTyped DEF DemoOrders
        <3> QED
            BY <2>2, <3>1, <3>4, <3>6
    <2> QED
        BY <2>1, <2>2 DEF DemoExchange
<1>3. /\ demo.at \in {"start", "wait", "done", "raised"}
      /\ demo.at = "start" => runner # "single" /\ demo.quantity = 0 /\ demo.sequence = 1
      /\ demo.at = "wait" => demo.sequence <= DemoFills /\ runner = "single"
      /\ (demo.status = "running" <=> demo.at # "done")
      /\ demo.status # "completed" /\ demoOrder.side # "none"
    <2>1. demo.at \in DemoPlaces
        BY DemoTyped DEF DemoRuns
    <2> QED
        BY <1>1, <2>1 DEF DemoInv, DemoShape, DemoPlaces
<1>4. demo' = demo /\ runner' = runner /\ mislaid' = mislaid /\ handled' = handled
    BY <1>1
<1>5. demoMade' \in Nat /\ demoMade <= demoMade' /\ demo.total \in Nat /\ demoOrder.done \in Nat
    BY <1>2, DemoTyped DEF DemoRuns, DemoOrders
<1>6. DemoTypeOK'
    BY <1>2, <1>4, <1>5, DemoTyped, DemoTypedNext, Zenon
<1>7. DemoShape'
    BY <1>2, <1>3, <1>4 DEF DemoShape
<1>8. DemoCounted'
    <2>1. demo.total <= demoMade /\ (demo.at = "wait" => demo.total + demoOrder.done <= demoMade)
        BY DemoCounts
    <2>2. /\ demo'.total \in Nat /\ demo'.total <= demoMade'
          /\ demo'.at = "wait" => demo'.total + demoOrder'.done <= demoMade'
        BY <1>2, <1>4, <1>5, <2>1, DemoTyped
    <2> QED
        BY <1>5, <2>2, DemoCountsNext
<1>9. DemoVerdictIsTrue'
    <2>1. demo.status = "stopped" /\ demo.quantity > 0 => mislaid
        BY <1>1 DEF DemoInv, DemoVerdictIsTrue
    <2> QED
        BY <1>3, <1>4, <2>1 DEF DemoVerdictIsTrue
<1> QED
    BY <1>6, <1>7, <1>8, <1>9, Zenon DEF DemoInv

LEMMA HandKeeps == ASSUME DemoInv, HandTrades PROVE DemoInv'
<1>1. /\ runner = "single" \/ demo.at = "final"
      /\ demo.status = "running" /\ handled' = TRUE /\ demoLots' \in Nat
      /\ UNCHANGED <<runner, demo, demoOrder, demoMade, mislaid>>
    BY DEF HandTrades
<1>2. DemoOrderWorks' <=> DemoOrderWorks
    BY <1>1 DEF DemoOrderWorks
<1>3. DemoTypeOK'
    BY <1>1, DemoTyped, DemoTypedNext, Zenon
<1>4. DemoShape'
    BY <1>1, <1>2 DEF DemoInv, DemoShape
<1>5. DemoCounted'
    BY <1>1 DEF DemoInv, DemoCounted, Verified
<1>6. DemoVerdictIsTrue'
    BY <1>1 DEF DemoVerdictIsTrue
<1> QED
    BY <1>3, <1>4, <1>5, <1>6, Zenon DEF DemoInv

LEMMA DemoSteps == ASSUME DemoInv, DemoNext \/ UNCHANGED demoVars PROVE DemoInv'
<1>1. CASE UNCHANGED demoVars
    BY <1>1 DEF demoVars, DemoInv, DemoTypeOK, DemoShape, DemoCounted, Verified, DemoVerdictIsTrue,
               DemoOrderWorks
<1>2. CASE DemoStep
    BY <1>2, SingleBegins, SubmitKeeps, RecordKeeps, LooksKeep, StartsKeep, DemoLegKeeps, NextRoundKeeps,
       Zenon DEF DemoStep
<1> QED
    BY <1>1, <1>2, ExchangeKeeps, HandKeeps DEF DemoNext

(***************************************************************************)
(* The recoveries of a plan.  Who trades holds the plan's claim, and is    *)
(* alone with it; who recovers a symbol holds the symbol's claim, which no *)
(* one gets before the session has saved its verdict.                      *)
(***************************************************************************)
ExecutorSteps == {"idle", "claim", "saving", "session", "ended"}
RecovererSteps == {"idle", "confirmed", "claim", "recover", "lane", "closing", "closed", "final", "ended"}
RecoveringSteps == {"recover", "lane", "closing", "closed", "final"}
RecovererRecords == [at : RecovererSteps, symbol : Symbols, quantity : 0..MaxHeld,
                     attempt : 1..ClosingAttempts, sound : BOOLEAN]
HoldsPlan(p) == executor[p] \in {"saving", "session"}
PlanClaimed ==
    /\ \A p \in Executors : HoldsPlan(p) => claimFile
    /\ \A p, q \in Executors : HoldsPlan(p) /\ HoldsPlan(q) => p = q
    /\ \A p \in Executors : executor[p] = "session" => record = "executing"
SymbolsClaimed ==
    /\ \A r \in Recoverers : Recovering(r) => /\ record \in Recoverable
                                              /\ recoverer[r].symbol \in recoveryClaims
                                              /\ results[recoverer[r].symbol] = "none"
    /\ \A r, q \in Recoverers : Recovering(r) /\ Recovering(q) /\ recoverer[q].symbol = recoverer[r].symbol
                                => q = r
    /\ \A s \in Symbols : s \notin recoveryClaims => results[s] = "none"
RecoveryInv == RecoveryTypeOK /\ PlanClaimed /\ SymbolsClaimed

\* What the types say, by the names of this module.
FilesTyped ==
    /\ record \in {"planned", "executing", "recovery_uncertain"} \union SessionVerdicts
    /\ claimFile \in BOOLEAN /\ recoveryClaims \subseteq Symbols
    /\ results \in [Symbols -> {"none"} \union SessionVerdicts]
AccountTyped == held \in [Symbols -> 0..MaxHeld] /\ resting \subseteq Symbols
ProcessesTyped ==
    /\ executor \in [Executors -> ExecutorSteps]
    /\ recoverer \in [Recoverers -> RecovererRecords]

LEMMA PlanTypes == RecoveryTypeOK <=> FilesTyped /\ AccountTyped /\ ProcessesTyped
    BY Zenon DEF RecoveryTypeOK, FilesTyped, AccountTyped, ProcessesTyped, ExecutorSteps, RecovererSteps,
                 RecovererRecords

LEMMA PlanTypesNext == FilesTyped' /\ AccountTyped' /\ ProcessesTyped' => RecoveryTypeOK'
    BY Zenon DEF RecoveryTypeOK, FilesTyped, AccountTyped, ProcessesTyped, ExecutorSteps, RecovererSteps,
                 RecovererRecords

LEMMA PlanBegins == ASSUME RecoveryInit PROVE RecoveryInv
<1>1. recoverer \in [Recoverers -> RecovererRecords] /\ \A r \in Recoverers : recoverer[r].at = "idle"
    <2>1. 1 \in 1..ClosingAttempts /\ 0 \in 0..MaxHeld
        BY RecoveryAssumption DEF MaxHeld
    <2>2. ASSUME NEW r \in Recoverers PROVE recoverer[r] \in RecovererRecords /\ recoverer[r].at = "idle"
        <3>1. PICK s \in Symbols : recoverer[r] = [at |-> "idle", symbol |-> s, quantity |-> 0, attempt |-> 1,
                                                   sound |-> TRUE]
            BY DEF RecoveryInit
        <3> QED
            BY <2>1, <3>1 DEF RecovererRecords, RecovererSteps
    <2>3. recoverer = [r \in Recoverers |-> recoverer[r]]
        BY DEF RecoveryInit
    <2> QED
        BY <2>2, <2>3
<1>2. executor \in [Executors -> ExecutorSteps] /\ \A p \in Executors : executor[p] = "idle"
    BY DEF RecoveryInit, ExecutorSteps
<1>3. FilesTyped /\ AccountTyped
    <2>1. 0 \in 0..MaxHeld
        BY DEF MaxHeld
    <2>2. AccountTyped
        BY <2>1 DEF RecoveryInit, AccountTyped
    <2>3. FilesTyped
        BY Zenon DEF RecoveryInit, FilesTyped, SessionVerdicts
    <2> QED
        BY <2>2, <2>3
<1>4. PlanClaimed
    BY <1>2 DEF PlanClaimed, HoldsPlan
<1>5. SymbolsClaimed
    BY <1>1 DEF SymbolsClaimed, Recovering, RecoveryInit
<1> QED
    BY <1>1, <1>2, <1>3, <1>4, <1>5, PlanTypes DEF RecoveryInv, ProcessesTyped

LEMMA HeldGoesOn ==
    ASSUME RecoveryInv, NEW p \in Executors, NEW step \in ExecutorSteps, ExecutorAt(p, step),
           UNCHANGED <<recoverer, recoveryClaims, results>>, AccountTyped',
           record' \in {"planned", "executing", "recovery_uncertain"} \union SessionVerdicts,
           claimFile' \in BOOLEAN,
           record' # record => \A r \in Recoverers : ~Recovering(r),
           PlanClaimed'
    PROVE  RecoveryInv'
<1>1. FilesTyped /\ ProcessesTyped
    BY PlanTypes DEF RecoveryInv
<1>2. ProcessesTyped'
    BY <1>1 DEF ExecutorAt, ProcessesTyped
<1>3. FilesTyped'
    BY <1>1, Zenon DEF FilesTyped
<1>4. SymbolsClaimed'
    BY DEF RecoveryInv, SymbolsClaimed, Recovering
<1> QED
    BY <1>2, <1>3, <1>4, PlanTypesNext DEF RecoveryInv

LEMMA ExecutorIs ==
    ASSUME RecoveryInv, NEW p \in Executors, NEW step \in ExecutorSteps, ExecutorAt(p, step)
    PROVE  \A q \in Executors : executor'[q] = IF q = p THEN step ELSE executor[q]
    BY PlanTypes DEF RecoveryInv, ProcessesTyped, ExecutorAt

LEMMA AccountSameIs == ASSUME RecoveryInv, AccountSame PROVE AccountTyped'
    BY PlanTypes DEF RecoveryInv, AccountSame, AccountTyped

LEMMA ExecutorsKeep ==
    ASSUME RecoveryInv, NEW p \in Executors,
           LoadPlanned(p) \/ ClaimPlan(p) \/ SavePlanExecuting(p) \/ SessionTrades(p) \/ SessionSaves(p)
           \/ SessionDies(p)
    PROVE  RecoveryInv'
<1>1. FilesTyped /\ AccountTyped /\ ProcessesTyped /\ PlanClaimed /\ SymbolsClaimed
    BY PlanTypes DEF RecoveryInv
<1>2. CASE LoadPlanned(p)
    <2>1. PICK step \in ExecutorSteps : ExecutorAt(p, step) /\ step \in {"claim", "ended"}
        BY <1>2 DEF LoadPlanned, ExecutorSteps
    <2>2. UNCHANGED <<record, claimFile, recoveryClaims, results, recoverer>> /\ AccountSame
        BY <1>2 DEF LoadPlanned
    <2>3. PlanClaimed'
        BY <1>1, <2>1, <2>2, ExecutorIs DEF PlanClaimed, HoldsPlan
    <2> QED
        BY <1>1, <2>1, <2>2, <2>3, AccountSameIs, HeldGoesOn DEF FilesTyped
<1>3. CASE ClaimPlan(p)
    <2>1. UNCHANGED <<record, recoveryClaims, results, recoverer>> /\ AccountSame /\ executor[p] = "claim"
        BY <1>3 DEF ClaimPlan
    <2>2. CASE claimFile /\ ExecutorAt(p, "ended") /\ UNCHANGED claimFile
        <3>1. "ended" \in ExecutorSteps
            BY DEF ExecutorSteps
        <3>2. PlanClaimed'
            BY <1>1, <2>1, <2>2, <3>1, ExecutorIs DEF PlanClaimed, HoldsPlan
        <3> QED
            BY <1>1, <2>1, <2>2, <3>1, <3>2, AccountSameIs, HeldGoesOn DEF FilesTyped
    <2>3. CASE ~claimFile /\ claimFile' = TRUE /\ ExecutorAt(p, "saving")
        <3>1. "saving" \in ExecutorSteps
            BY DEF ExecutorSteps
        <3>2. \A q \in Executors : ~HoldsPlan(q)
            BY <1>1, <2>3 DEF PlanClaimed
        <3>3. PlanClaimed'
            BY <1>1, <2>1, <2>3, <3>1, <3>2, ExecutorIs DEF PlanClaimed, HoldsPlan
        <3> QED
            BY <1>1, <2>1, <2>3, <3>1, <3>3, AccountSameIs, HeldGoesOn DEF FilesTyped
    <2> QED
        BY <1>3, <2>2, <2>3 DEF ClaimPlan
<1>4. CASE SavePlanExecuting(p)
    <2>1. UNCHANGED <<recoveryClaims, results, recoverer>> /\ AccountSame /\ executor[p] = "saving"
        BY <1>4 DEF SavePlanExecuting
    <2>2. claimFile /\ \A q \in Executors : HoldsPlan(q) => q = p
        BY <1>1, <2>1 DEF PlanClaimed, HoldsPlan
    <2>3. CASE record = "planned" /\ record' = "executing" /\ ExecutorAt(p, "session") /\ UNCHANGED claimFile
        <3>1. "session" \in ExecutorSteps
            BY DEF ExecutorSteps
        <3>2. PlanClaimed'
            BY <1>1, <2>2, <2>3, <3>1, ExecutorIs DEF PlanClaimed, HoldsPlan
        <3>3. \A r \in Recoverers : ~Recovering(r)
            BY <1>1, <2>3 DEF SymbolsClaimed, Recoverable
        <3> QED
            BY <1>1, <2>1, <2>3, <3>1, <3>2, <3>3, AccountSameIs, HeldGoesOn DEF FilesTyped
    <2>4. CASE claimFile' = FALSE /\ ExecutorAt(p, "ended") /\ UNCHANGED record
        <3>1. "ended" \in ExecutorSteps
            BY DEF ExecutorSteps
        <3>2. PlanClaimed'
            BY <1>1, <2>2, <2>4, <3>1, ExecutorIs DEF PlanClaimed, HoldsPlan
        <3> QED
            BY <1>1, <2>1, <2>4, <3>1, <3>2, AccountSameIs, HeldGoesOn DEF FilesTyped
    <2> QED
        BY <1>4, <2>3, <2>4 DEF SavePlanExecuting
<1>5. CASE SessionTrades(p)
    <2>1. AccountTyped' /\ UNCHANGED <<record, claimFile, recoveryClaims, results, executor, recoverer>>
        BY <1>5 DEF SessionTrades, AccountTyped
    <2>2. FilesTyped' /\ ProcessesTyped'
        BY <1>1, <2>1 DEF FilesTyped, ProcessesTyped
    <2>3. PlanClaimed' /\ SymbolsClaimed'
        BY <1>1, <2>1 DEF PlanClaimed, HoldsPlan, SymbolsClaimed, Recovering
    <2> QED
        BY <2>1, <2>2, <2>3, PlanTypesNext DEF RecoveryInv
<1>6. CASE SessionSaves(p)
    <2>1. UNCHANGED <<claimFile, recoveryClaims, results, recoverer>> /\ AccountSame /\ executor[p] = "session"
          /\ ExecutorAt(p, "ended") /\ record' \in SessionVerdicts
        BY <1>6 DEF SessionSaves
    <2>2. record = "executing" /\ \A q \in Executors : HoldsPlan(q) => q = p
        BY <1>1, <2>1 DEF PlanClaimed, HoldsPlan
    <2>3. \A r \in Recoverers : ~Recovering(r)
        BY <1>1, <2>2 DEF SymbolsClaimed, Recoverable
    <2>4. "ended" \in ExecutorSteps
        BY DEF ExecutorSteps
    <2>5. PlanClaimed'
        BY <1>1, <2>1, <2>2, <2>4, ExecutorIs DEF PlanClaimed, HoldsPlan
    <2> QED
        BY <1>1, <2>1, <2>3, <2>4, <2>5, AccountSameIs, HeldGoesOn DEF FilesTyped
<1>7. CASE SessionDies(p)
    <2>1. UNCHANGED <<record, claimFile, recoveryClaims, results, recoverer>> /\ AccountSame
          /\ ExecutorAt(p, "ended")
        BY <1>7 DEF SessionDies
    <2>2. "ended" \in ExecutorSteps
        BY DEF ExecutorSteps
    <2>3. PlanClaimed'
        BY <1>1, <2>1, <2>2, ExecutorIs DEF PlanClaimed, HoldsPlan
    <2> QED
        BY <1>1, <2>1, <2>2, <2>3, AccountSameIs, HeldGoesOn DEF FilesTyped
<1> QED
    BY <1>2, <1>3, <1>4, <1>5, <1>6, <1>7

\* A step of a recoverer that leaves the files alone and claims nothing.
LEMMA RecovererGoesOn ==
    ASSUME RecoveryInv, NEW r \in Recoverers, NEW new \in RecovererRecords,
           recoverer' = [recoverer EXCEPT ![r] = new], new.symbol = recoverer[r].symbol,
           new.at \in RecoveringSteps => Recovering(r), FilesStay, AccountTyped'
    PROVE  RecoveryInv'
<1>1. FilesTyped /\ ProcessesTyped /\ PlanClaimed /\ SymbolsClaimed
    BY PlanTypes DEF RecoveryInv
<1>2. FilesTyped' /\ PlanClaimed'
    BY <1>1 DEF FilesTyped, PlanClaimed, HoldsPlan, FilesStay
<1>3. /\ ProcessesTyped' /\ recoverer'[r] = new
      /\ \A q \in Recoverers : q # r => recoverer'[q] = recoverer[q]
    BY <1>1 DEF ProcessesTyped, FilesStay
<1>4. \A q \in Recoverers : /\ recoverer'[q].symbol = recoverer[q].symbol
                            /\ Recovering(q)' => Recovering(q)
    BY <1>3 DEF Recovering, RecoveringSteps
<1>5. record' = record /\ recoveryClaims' = recoveryClaims /\ results' = results
    BY DEF FilesStay
<1>6. SymbolsClaimed'
    <2>1. \A q \in Recoverers : Recovering(q)' => /\ record' \in Recoverable
                                                  /\ recoverer'[q].symbol \in recoveryClaims'
                                                  /\ results'[recoverer'[q].symbol] = "none"
        BY <1>1, <1>4, <1>5 DEF SymbolsClaimed
    <2>2. \A p, q \in Recoverers : Recovering(p)' /\ Recovering(q)' /\ recoverer'[q].symbol = recoverer'[p].symbol
                                   => q = p
        BY <1>1, <1>4 DEF SymbolsClaimed
    <2>3. \A s \in Symbols : s \notin recoveryClaims' => results'[s] = "none"
        BY <1>1, <1>5 DEF SymbolsClaimed
    <2> QED
        BY <2>1, <2>2, <2>3 DEF SymbolsClaimed
<1> QED
    BY <1>2, <1>3, <1>6, PlanTypesNext DEF RecoveryInv

LEMMA MovesIs ==
    ASSUME RecoveryInv, NEW r \in Recoverers, NEW step \in RecovererSteps, Moves(r, step)
    PROVE  \E new \in RecovererRecords : /\ recoverer' = [recoverer EXCEPT ![r] = new]
                                         /\ new.symbol = recoverer[r].symbol /\ new.at = step
<1>1. recoverer \in [Recoverers -> RecovererRecords]
    BY PlanTypes DEF RecoveryInv, ProcessesTyped
<1>2. recoverer[r] \in RecovererRecords
    BY <1>1
<1>3. [recoverer[r] EXCEPT !.at = step] \in RecovererRecords
    BY <1>2 DEF RecovererRecords
<1>4. [recoverer[r] EXCEPT !.at = step].symbol = recoverer[r].symbol /\ [recoverer[r] EXCEPT !.at = step].at = step
    BY <1>2 DEF RecovererRecords
<1>5. recoverer' = [recoverer EXCEPT ![r] = [recoverer[r] EXCEPT !.at = step]]
    BY DEF Moves
<1> QED
    BY <1>3, <1>4, <1>5

LEMMA MovesKeep ==
    ASSUME RecoveryInv, NEW r \in Recoverers, NEW step \in RecovererSteps, Moves(r, step),
           step \in RecoveringSteps => Recovering(r), FilesStay, AccountTyped'
    PROVE  RecoveryInv'
<1>1. PICK new \in RecovererRecords : /\ recoverer' = [recoverer EXCEPT ![r] = new]
                                      /\ new.symbol = recoverer[r].symbol /\ new.at = step
    BY MovesIs
<1> QED
    BY <1>1, RecovererGoesOn

LEMMA RecoverersKeep ==
    ASSUME RecoveryInv, NEW r \in Recoverers,
           RecoveryDryRun(r) \/ ConfirmRecovery(r) \/ StartRecovery(r) \/ LookAtLane(r) \/ CloseLeg(r)
           \/ AfterCloseLeg(r) \/ RecovererDies(r)
    PROVE  RecoveryInv'
<1>1. /\ FilesStay
      /\ recoverer[r] \in RecovererRecords /\ recoverer \in [Recoverers -> RecovererRecords]
      /\ AccountTyped
    BY PlanTypes DEF RecoveryDryRun, ConfirmRecovery, StartRecovery, LookAtLane, CloseLeg, AfterCloseLeg,
                     RecovererDies, RecoveryInv, ProcessesTyped
<1>2. AccountSame => AccountTyped'
    BY AccountSameIs
<1>3. recoverer[r].symbol \in Symbols /\ held[recoverer[r].symbol] \in 0..MaxHeld
    BY <1>1 DEF RecovererRecords, AccountTyped
<1>4. ASSUME NEW step \in {"confirmed", "claim", "ended"}, Moves(r, step), AccountSame PROVE RecoveryInv'
    BY <1>1, <1>2, <1>4, MovesKeep DEF RecovererSteps, RecoveringSteps
<1>5. ASSUME NEW step \in {"lane", "closing", "closed", "final"}, Moves(r, step), AccountSame, Recovering(r)
      PROVE  RecoveryInv'
    BY <1>1, <1>2, <1>5, MovesKeep DEF RecovererSteps
<1>6. CASE RecoveryDryRun(r)
    <2>1. CASE recoverer' = [recoverer EXCEPT ![r].at = "confirmed", ![r].quantity = held[recoverer[r].symbol]]
        <3>1. PICK n : n = held[recoverer[r].symbol]
            OBVIOUS
        <3>2. PICK new : new = [recoverer[r] EXCEPT !.at = "confirmed", !.quantity = n]
            OBVIOUS
        <3>3. new \in RecovererRecords /\ new.symbol = recoverer[r].symbol /\ new.at = "confirmed"
            BY <1>1, <1>3, <3>1, <3>2 DEF RecovererRecords, RecovererSteps
        <3>4. recoverer' = [recoverer EXCEPT ![r] = new]
            BY <2>1, <3>1, <3>2
        <3> QED
            BY <1>1, <1>2, <1>6, <3>3, <3>4, RecovererGoesOn DEF RecoveryDryRun, RecoveringSteps
    <2>2. CASE recoverer' = recoverer
        <3>1. recoverer' = [recoverer EXCEPT ![r] = recoverer[r]]
            BY <1>1, <2>2
        <3> QED
            BY <1>1, <1>2, <1>6, <3>1, RecovererGoesOn DEF RecoveryDryRun, Recovering, RecoveringSteps
    <2> QED
        BY <1>6, <2>1, <2>2 DEF RecoveryDryRun
<1>7. CASE ConfirmRecovery(r)
    BY <1>4, <1>7 DEF ConfirmRecovery
<1>8. CASE StartRecovery(r)
    BY <1>4, <1>5, <1>8 DEF StartRecovery, Recovering
<1>9. ASSUME recoverer' = [recoverer EXCEPT ![r].at = "final", ![r].sound = FALSE], AccountSame, Recovering(r)
      PROVE  RecoveryInv'
    <2>1. PICK new : new = [recoverer[r] EXCEPT !.at = "final", !.sound = FALSE]
        OBVIOUS
    <2>2. new \in RecovererRecords /\ new.symbol = recoverer[r].symbol
        BY <1>1, <2>1 DEF RecovererRecords, RecovererSteps
    <2>3. recoverer' = [recoverer EXCEPT ![r] = new]
        BY <1>9, <2>1
    <2> QED
        BY <1>1, <1>2, <1>9, <2>2, <2>3, RecovererGoesOn
<1>10. CASE LookAtLane(r)
    BY <1>5, <1>9, <1>10 DEF LookAtLane, Recovering
<1>11. CASE CloseLeg(r)
    <2>1. PICK f \in 0..held[recoverer[r].symbol], clean \in BOOLEAN :
             /\ held' = [held EXCEPT ![recoverer[r].symbol] = @ - f]
             /\ \/ resting' = resting
                \/ ~clean /\ resting' = resting \union {recoverer[r].symbol}
             /\ recoverer' = [recoverer EXCEPT ![r].at = "closed", ![r].sound = clean]
        BY <1>11 DEF CloseLeg
    <2>2. PICK new : new = [recoverer[r] EXCEPT !.at = "closed", !.sound = clean]
        OBVIOUS
    <2>3. new \in RecovererRecords /\ new.symbol = recoverer[r].symbol
        BY <1>1, <2>2 DEF RecovererRecords, RecovererSteps
    <2>4. recoverer' = [recoverer EXCEPT ![r] = new]
        BY <2>1, <2>2
    <2>5. PICK n : n = held[recoverer[r].symbol] - f
        OBVIOUS
    <2>6. n \in 0..MaxHeld
        BY <1>3, <2>5 DEF MaxHeld
    <2>7. held' = [held EXCEPT ![recoverer[r].symbol] = n]
        BY <2>1, <2>5
    <2>8. AccountTyped'
        BY <1>1, <1>3, <2>1, <2>6, <2>7 DEF AccountTyped
    <2>9. Recovering(r)
        BY <1>11 DEF CloseLeg, Recovering
    <2> QED
        BY <1>1, <2>3, <2>4, <2>8, <2>9, RecovererGoesOn
<1>12. CASE AfterCloseLeg(r)
    <2>1. Recovering(r) /\ AccountSame
        BY <1>12 DEF AfterCloseLeg, Recovering
    <2>2. CASE /\ recoverer[r].attempt # ClosingAttempts
               /\ recoverer' = [recoverer EXCEPT ![r].at = "lane", ![r].attempt = @ + 1]
        <3>1. PICK n : n = recoverer[r].attempt + 1
            OBVIOUS
        <3>2. n \in 1..ClosingAttempts
            BY <1>1, <2>2, <3>1, RecoveryAssumption DEF RecovererRecords
        <3>3. PICK new : new = [recoverer[r] EXCEPT !.at = "lane", !.attempt = n]
            OBVIOUS
        <3>4. new \in RecovererRecords /\ new.symbol = recoverer[r].symbol
            BY <1>1, <3>2, <3>3 DEF RecovererRecords, RecovererSteps
        <3>5. recoverer' = [recoverer EXCEPT ![r] = new]
            BY <2>2, <3>1, <3>3
        <3> QED
            BY <1>1, <1>2, <2>1, <3>4, <3>5, RecovererGoesOn
    <2>3. CASE Moves(r, "final")
        BY <1>5, <2>1, <2>3
    <2>4. CASE recoverer' = [recoverer EXCEPT ![r].at = "final", ![r].sound = FALSE]
        BY <1>9, <2>1, <2>4
    <2> QED
        BY <1>12, <2>2, <2>3, <2>4 DEF AfterCloseLeg
<1>13. CASE RecovererDies(r)
    BY <1>4, <1>13 DEF RecovererDies
<1> QED
    BY <1>6, <1>7, <1>8, <1>10, <1>11, <1>12, <1>13

\* The claim of a symbol is given once; a result is saved by who holds it.
LEMMA ClaimKeeps == ASSUME RecoveryInv, NEW r \in Recoverers, ClaimRecovery(r) PROVE RecoveryInv'
<1>1. FilesTyped /\ AccountTyped /\ ProcessesTyped /\ PlanClaimed /\ SymbolsClaimed
    BY PlanTypes DEF RecoveryInv
<1>2. /\ UNCHANGED <<record, claimFile, results, executor>> /\ AccountSame /\ recoverer[r].at = "claim"
      /\ recoverer[r].symbol \in Symbols
    BY <1>1 DEF ClaimRecovery, ProcessesTyped, RecovererRecords
<1>3. CASE Moves(r, "ended") /\ UNCHANGED recoveryClaims
    BY <1>2, <1>3, AccountSameIs, MovesKeep DEF FilesStay, RecovererSteps, RecoveringSteps
<1>4. CASE /\ record \in Recoverable /\ recoverer[r].symbol \notin recoveryClaims
           /\ recoveryClaims' = recoveryClaims \union {recoverer[r].symbol} /\ Moves(r, "recover")
    <2>1. PICK new \in RecovererRecords : /\ recoverer' = [recoverer EXCEPT ![r] = new]
                                          /\ new.symbol = recoverer[r].symbol /\ new.at = "recover"
        BY <1>4, MovesIs DEF RecovererSteps
    <2>2. FilesTyped' /\ PlanClaimed'
        BY <1>1, <1>2, <1>4 DEF FilesTyped, PlanClaimed, HoldsPlan
    <2>3. /\ ProcessesTyped' /\ recoverer'[r] = new
          /\ \A q \in Recoverers : q # r => recoverer'[q] = recoverer[q]
        BY <1>1, <1>2, <2>1 DEF ProcessesTyped
    <2>4. \A q \in Recoverers : /\ recoverer'[q].symbol = recoverer[q].symbol
                                /\ Recovering(q)' => q = r \/ Recovering(q)
        BY <2>1, <2>3 DEF Recovering
    <2>5. \A q \in Recoverers : Recovering(q) => recoverer[q].symbol # recoverer[r].symbol
        BY <1>1, <1>4 DEF SymbolsClaimed
    <2>6. results[recoverer[r].symbol] = "none"
        BY <1>1, <1>2, <1>4 DEF SymbolsClaimed
    <2>7. \A q \in Recoverers : Recovering(q)' => /\ record' \in Recoverable
                                                  /\ recoverer'[q].symbol \in recoveryClaims'
                                                  /\ results'[recoverer'[q].symbol] = "none"
        BY <1>1, <1>2, <1>4, <2>4, <2>6 DEF SymbolsClaimed
    <2>8. \A p, q \in Recoverers : Recovering(p)' /\ Recovering(q)' /\ recoverer'[q].symbol = recoverer'[p].symbol
                                   => q = p
        BY <1>1, <2>4, <2>5 DEF SymbolsClaimed
    <2>9. \A s \in Symbols : s \notin recoveryClaims' => results'[s] = "none"
        BY <1>1, <1>2, <1>4 DEF SymbolsClaimed
    <2>10. SymbolsClaimed'
        BY <2>7, <2>8, <2>9 DEF SymbolsClaimed
    <2> QED
        BY <1>2, <2>2, <2>3, <2>10, AccountSameIs, PlanTypesNext DEF RecoveryInv
<1> QED
    BY <1>3, <1>4 DEF ClaimRecovery, MayRecover, ClaimTaken

LEMMA FinishKeeps == ASSUME RecoveryInv, NEW r \in Recoverers, FinishRecovery(r) PROVE RecoveryInv'
<1>1. FilesTyped /\ AccountTyped /\ ProcessesTyped /\ PlanClaimed /\ SymbolsClaimed
    BY PlanTypes DEF RecoveryInv
<1>2. /\ UNCHANGED <<record, claimFile, recoveryClaims, executor>> /\ AccountSame /\ Recovering(r)
      /\ Moves(r, "ended") /\ recoverer[r].symbol \in Symbols
    BY <1>1 DEF FinishRecovery, Recovering, ProcessesTyped, RecovererRecords
<1>3. PICK status \in {"none"} \union SessionVerdicts :
         results' = [results EXCEPT ![recoverer[r].symbol] = status]
    <2>1. results = [results EXCEPT ![recoverer[r].symbol] = results[recoverer[r].symbol]]
          /\ results[recoverer[r].symbol] \in {"none"} \union SessionVerdicts
        BY <1>1, <1>2 DEF FilesTyped
    <2> QED
        BY <2>1 DEF FinishRecovery, SessionVerdicts
<1>4. PICK new \in RecovererRecords : /\ recoverer' = [recoverer EXCEPT ![r] = new]
                                      /\ new.symbol = recoverer[r].symbol /\ new.at = "ended"
    BY <1>2, MovesIs DEF RecovererSteps
<1>5. FilesTyped'
    BY <1>1, <1>2, <1>3 DEF FilesTyped
<1>6. /\ ProcessesTyped' /\ recoverer'[r] = new
      /\ \A q \in Recoverers : q # r => recoverer'[q] = recoverer[q]
    BY <1>1, <1>2, <1>4 DEF ProcessesTyped
<1>7. \A q \in Recoverers : /\ recoverer'[q].symbol = recoverer[q].symbol
                            /\ Recovering(q)' => q # r /\ Recovering(q)
    BY <1>4, <1>6 DEF Recovering
<1>8. \A q \in Recoverers : Recovering(q)' => recoverer[q].symbol # recoverer[r].symbol
    BY <1>1, <1>2, <1>7 DEF SymbolsClaimed
<1>9. \A s \in Symbols : s # recoverer[r].symbol => results'[s] = results[s]
    BY <1>1, <1>3 DEF FilesTyped
<1>10. recoverer[r].symbol \in recoveryClaims /\ \A q \in Recoverers : recoverer[q].symbol \in Symbols
    BY <1>1, <1>2 DEF SymbolsClaimed, ProcessesTyped, RecovererRecords
<1>11. \A q \in Recoverers : Recovering(q)' => /\ record' \in Recoverable
                                               /\ recoverer'[q].symbol \in recoveryClaims'
                                               /\ results'[recoverer'[q].symbol] = "none"
    BY <1>1, <1>2, <1>7, <1>8, <1>9, <1>10 DEF SymbolsClaimed
<1>12. \A p, q \in Recoverers : Recovering(p)' /\ Recovering(q)' /\ recoverer'[q].symbol = recoverer'[p].symbol
                                => q = p
    BY <1>1, <1>7 DEF SymbolsClaimed
<1>13. \A s \in Symbols : s \notin recoveryClaims' => results'[s] = "none"
    BY <1>1, <1>2, <1>9, <1>10 DEF SymbolsClaimed
<1>14. SymbolsClaimed'
    BY <1>11, <1>12, <1>13 DEF SymbolsClaimed
<1>15. PlanClaimed'
    BY <1>1, <1>2 DEF PlanClaimed, HoldsPlan
<1> QED
    BY <1>2, <1>5, <1>6, <1>14, <1>15, AccountSameIs, PlanTypesNext DEF RecoveryInv

LEMMA RestingKeeps == ASSUME RecoveryInv, RestingEnds PROVE RecoveryInv'
<1>1. FilesTyped /\ AccountTyped /\ ProcessesTyped /\ PlanClaimed /\ SymbolsClaimed
    BY PlanTypes DEF RecoveryInv
<1>2. UNCHANGED <<record, claimFile, recoveryClaims, results, executor, recoverer>>
    BY DEF RestingEnds
<1>3. PICK s \in resting :
         /\ resting' = resting \ {s}
         /\ held' \in {held, [held EXCEPT ![s] = IF @ = 0 THEN 0 ELSE @ - 1],
                       [held EXCEPT ![s] = IF @ = MaxHeld THEN @ ELSE @ + 1]}
    BY DEF RestingEnds
<1>4. PICK down, up : /\ down = (IF held[s] = 0 THEN 0 ELSE held[s] - 1)
                      /\ up = (IF held[s] = MaxHeld THEN held[s] ELSE held[s] + 1)
    OBVIOUS
<1>5. s \in Symbols /\ down \in 0..MaxHeld /\ up \in 0..MaxHeld
    BY <1>1, <1>3, <1>4 DEF AccountTyped, MaxHeld
<1>6. held' \in {held, [held EXCEPT ![s] = down], [held EXCEPT ![s] = up]}
    BY <1>3, <1>4
<1>7. AccountTyped'
    BY <1>1, <1>3, <1>5, <1>6 DEF AccountTyped
<1>8. FilesTyped' /\ ProcessesTyped' /\ PlanClaimed' /\ SymbolsClaimed'
    BY <1>1, <1>2 DEF FilesTyped, ProcessesTyped, PlanClaimed, HoldsPlan, SymbolsClaimed, Recovering
<1> QED
    BY <1>7, <1>8, PlanTypesNext DEF RecoveryInv

LEMMA PlanSteps == ASSUME RecoveryInv, RecoveryNext \/ UNCHANGED planVars PROVE RecoveryInv'
<1>1. CASE UNCHANGED planVars
    <2>1. RecoveryTypeOK'
        BY <1>1 DEF RecoveryInv, planVars, RecoveryTypeOK
    <2>2. PlanClaimed' /\ SymbolsClaimed'
        BY <1>1 DEF RecoveryInv, planVars, PlanClaimed, HoldsPlan, SymbolsClaimed, Recovering
    <2> QED
        BY <2>1, <2>2 DEF RecoveryInv
<1>2. CASE \E p \in Executors : LoadPlanned(p) \/ ClaimPlan(p) \/ SavePlanExecuting(p)
                                \/ SessionTrades(p) \/ SessionSaves(p) \/ SessionDies(p)
    BY <1>2, ExecutorsKeep
<1>3. CASE \E r \in Recoverers : RecoveryDryRun(r) \/ RecoveryStep(r) \/ RecovererDies(r)
    BY <1>3, RecoverersKeep, ClaimKeeps, FinishKeeps DEF RecoveryStep
<1> QED
    BY <1>1, <1>2, <1>3, RestingKeeps DEF RecoveryNext

LEMMA RecoveriesAreAlone == ASSUME RecoveryInv PROVE RecoveryTypeOK /\ RecoveryIsAlone
<1>1. \A r \in Recoverers : Recovering(r) => \A p \in Executors : executor[p] # "session"
    BY DEF RecoveryInv, PlanClaimed, SymbolsClaimed, Recoverable
<1> QED
    BY <1>1 DEF RecoveryInv, SymbolsClaimed, RecoveryIsAlone

(***************************************************************************)
(* The console.  Only the terminal with the lease has a worker and writes  *)
(* the files; a campaign whose end is in doubt is uncertain in its file    *)
(* from the next lease on, and past its validation a worker has seen that  *)
(* there is none.                                                          *)
(***************************************************************************)
SavedStates == {"absent", "planned", "executing", "stopping"} \union Verdict
Screens == {"accounts", "overview", "preview", "result"}
WorkerPlaces == {"idle", "validate", "boundary", "claim", "running", "failed", "finished"}
Workers == [at : WorkerPlaces, campaign : Previews \union {NoCampaign}]
Endings == {"never", "lost"} \union Verdict

ConsoleFilesTyped ==
    /\ saved \in [Previews -> SavedStates] /\ reconciled \subseteq Previews
    /\ ended \in [Previews -> Endings] /\ overlaid \subseteq Previews
TerminalsTyped ==
    /\ lease \subseteq Terminals /\ screen \in [Terminals -> Screens]
    /\ worker \in [Terminals -> Workers] /\ stopRead \in [Terminals -> SUBSET Previews]

\* A campaign whose end is in doubt.
InDoubt(c) == ended[c] \in {"uncertain", "lost"} /\ c \notin overlaid /\ c \notin reconciled
DoubtKept ==
    /\ \A c \in Previews : ended[c] # "never" => saved[c] # "absent"
    /\ \A c \in Previews : InDoubt(c) => \/ saved[c] = "uncertain"
                                         \/ lease = {} /\ saved[c] \in {"executing", "stopping"}

\* What a terminal with such a screen and such a worker knows of the files.
Knows(s, w) ==
    /\ s = "preview" \/ w.at # "idle" => w.campaign \in Previews
    /\ (s = "preview" /\ w.at = "idle") \/ w.at \in {"validate", "boundary", "claim", "running", "failed"}
         => ended[w.campaign] = "never" /\ saved[w.campaign] # "absent"
    /\ w.at = "running" => saved[w.campaign] \in {"executing", "stopping"}
    /\ w.at \in {"boundary", "claim", "running"} => \A c \in Previews : ~InDoubt(c)

Away(t) == screen[t] = "accounts" /\ worker[t].at = "idle" /\ stopRead[t] = {}
LeaseKept ==
    /\ \A t, u \in lease : t = u
    /\ \A t \in Terminals : t \notin lease => Away(t)
ConsoleInv ==
    /\ ConsoleFilesTyped /\ TerminalsTyped /\ atRest \in BOOLEAN
    /\ LeaseKept /\ DoubtKept /\ \A t \in Terminals : Knows(screen[t], worker[t])

LEMMA ConsoleHolds == ASSUME ConsoleInv PROVE ConsoleTypeOK /\ UncertainBlocks
<1>1. ConsoleTypeOK
    BY Zenon DEF ConsoleInv, ConsoleFilesTyped, TerminalsTyped, ConsoleTypeOK, SavedStates,
                 Screens, WorkerPlaces, Workers, Endings
<1>2. ASSUME NEW t \in Terminals, worker[t].at = "running"
      PROVE  /\ \A u \in Terminals : worker[u].at = "running" => u = t
             /\ \A c \in Previews \ overlaid : ended[c] \in {"uncertain", "lost"} => c \in reconciled
    <2>1. \A u \in Terminals : worker[u].at = "running" => u \in lease
        BY DEF ConsoleInv, LeaseKept, Away
    <2>2. \A c \in Previews : ~InDoubt(c)
        BY <1>2 DEF ConsoleInv, Knows
    <2> QED
        BY <1>2, <2>1, <2>2 DEF ConsoleInv, LeaseKept, InDoubt
<1> QED
    BY <1>1, <1>2 DEF UncertainBlocks

LEMMA ConsoleBegins == ASSUME ConsoleInit PROVE ConsoleInv
<1>1. ConsoleFilesTyped
    BY DEF ConsoleInit, ConsoleFilesTyped, SavedStates, Endings
<1>2. TerminalsTyped
    BY DEF ConsoleInit, TerminalsTyped, Screens, Workers, WorkerPlaces, IdleWorker, NoCampaign
<1>3. \A t \in Terminals : screen[t] = "accounts" /\ worker[t].at = "idle" /\ stopRead[t] = {}
    BY DEF ConsoleInit, IdleWorker
<1>4. LeaseKept
    BY <1>3 DEF ConsoleInit, LeaseKept, Away
<1>5. \A t \in Terminals : Knows(screen[t], worker[t])
    BY <1>3 DEF Knows
<1>6. DoubtKept
    BY <1>3 DEF ConsoleInit, DoubtKept, InDoubt
<1>7. atRest \in BOOLEAN
    BY DEF ConsoleInit
<1> QED
    BY <1>1, <1>2, <1>4, <1>5, <1>6, <1>7 DEF ConsoleInv

\* A step of one terminal, the one with the lease or the one that takes it.
Becomes(t, s, w, stop) ==
    /\ screen' = [screen EXCEPT ![t] = s] /\ worker' = [worker EXCEPT ![t] = w]
    /\ stopRead' = [stopRead EXCEPT ![t] = stop]

LEMMA TerminalGoesOn ==
    ASSUME ConsoleInv, NEW t \in Terminals, t \in lease \/ lease = {},
           NEW s \in Screens, NEW w \in Workers, NEW stop \in SUBSET Previews, Becomes(t, s, w, stop),
           lease' \subseteq {t}, t \notin lease' => s = "accounts" /\ w.at = "idle" /\ stop = {},
           ConsoleFilesTyped', atRest' \in BOOLEAN, DoubtKept', Knows(s, w)'
    PROVE  ConsoleInv'
<1>1. /\ screen \in [Terminals -> Screens] /\ worker \in [Terminals -> Workers]
      /\ stopRead \in [Terminals -> SUBSET Previews]
    BY DEF ConsoleInv, TerminalsTyped
<1>2. /\ screen'[t] = s /\ worker'[t] = w /\ stopRead'[t] = stop
      /\ \A u \in Terminals : u # t => /\ screen'[u] = screen[u] /\ worker'[u] = worker[u]
                                       /\ stopRead'[u] = stopRead[u]
    BY <1>1 DEF Becomes
<1>3. TerminalsTyped'
    BY <1>1 DEF Becomes, TerminalsTyped
<1>4. \A u \in Terminals : u # t => u \notin lease /\ Away(u)
    BY DEF ConsoleInv, LeaseKept
<1>5. \A u \in Terminals : u # t => screen'[u] = "accounts" /\ worker'[u].at = "idle" /\ stopRead'[u] = {}
    BY <1>2, <1>4 DEF Away
<1>6. LeaseKept'
    BY <1>2, <1>5 DEF LeaseKept, Away
<1>7. \A u \in Terminals : Knows(screen[u], worker[u])'
    <2>1. ASSUME NEW u \in Terminals, u # t PROVE Knows(screen[u], worker[u])'
        BY <1>5, <2>1 DEF Knows
    <2>2. Knows(screen[t], worker[t])'
        BY <1>2 DEF Knows
    <2> QED
        BY <2>1, <2>2
<1> QED
    BY <1>3, <1>6, <1>7 DEF ConsoleInv

\* One that leaves the files as they are, but for an acknowledgement.
LEMMA FilesStaySame ==
    ASSUME ConsoleInv, UNCHANGED <<saved, ended, overlaid>>, reconciled \subseteq reconciled',
           reconciled' \subseteq Previews, lease' = {} \/ lease # {}
    PROVE  ConsoleFilesTyped' /\ DoubtKept' /\ \A c \in Previews : InDoubt(c)' => InDoubt(c)
<1>1. ConsoleFilesTyped'
    BY DEF ConsoleInv, ConsoleFilesTyped
<1>2. \A c \in Previews : InDoubt(c)' => InDoubt(c)
    BY DEF InDoubt
<1>3. DoubtKept'
    BY <1>2 DEF ConsoleInv, DoubtKept
<1> QED
    BY <1>1, <1>2, <1>3

LEMMA TerminalStays ==
    ASSUME ConsoleInv, NEW t \in lease,
           NEW s \in Screens, NEW w \in Workers, NEW stop \in SUBSET Previews, Becomes(t, s, w, stop),
           lease' = lease, UNCHANGED <<saved, ended, overlaid, reconciled, atRest>>, Knows(s, w)
    PROVE  ConsoleInv'
<1>1. ConsoleFilesTyped' /\ DoubtKept' /\ \A c \in Previews : InDoubt(c)' => InDoubt(c)
    BY FilesStaySame DEF ConsoleInv, ConsoleFilesTyped
<1>2. Knows(s, w)'
    BY <1>1 DEF Knows
<1>3. lease' \subseteq {t} /\ t \in Terminals /\ t \in lease' /\ atRest' \in BOOLEAN
    BY DEF ConsoleInv, LeaseKept, TerminalsTyped
<1> QED
    BY <1>1, <1>2, <1>3, TerminalGoesOn

\* Who has left the accounts' screen has the lease.
LEMMA HasLease ==
    ASSUME ConsoleInv, NEW t \in Terminals, screen[t] # "accounts" \/ worker[t].at # "idle" \/ stopRead[t] # {}
    PROVE  t \in lease /\ lease = {t}
BY DEF ConsoleInv, LeaseKept, Away

LEMMA TerminalNow ==
    ASSUME ConsoleInv, NEW t \in Terminals
    PROVE  /\ screen[t] \in Screens /\ worker[t] \in Workers /\ stopRead[t] \in SUBSET Previews
           /\ Knows(screen[t], worker[t])
           /\ screen = [screen EXCEPT ![t] = screen[t]] /\ worker = [worker EXCEPT ![t] = worker[t]]
           /\ stopRead = [stopRead EXCEPT ![t] = stopRead[t]]
<1>1. /\ screen \in [Terminals -> Screens] /\ worker \in [Terminals -> Workers]
      /\ stopRead \in [Terminals -> SUBSET Previews]
    BY DEF ConsoleInv, TerminalsTyped
<1> QED
    BY <1>1 DEF ConsoleInv

LEMMA WorkerAtIs ==
    ASSUME ConsoleInv, NEW t \in Terminals, NEW place \in WorkerPlaces, WorkerAt(t, place)
    PROVE  \E w \in Workers : /\ worker' = [worker EXCEPT ![t] = w]
                              /\ w.at = place /\ w.campaign = worker[t].campaign
<1>1. PICK w : w = [worker[t] EXCEPT !.at = place]
    OBVIOUS
<1>2. w \in Workers /\ w.at = place /\ w.campaign = worker[t].campaign
    BY <1>1, TerminalNow DEF Workers
<1>3. worker' = [worker EXCEPT ![t] = w]
    BY <1>1 DEF WorkerAt
<1> QED
    BY <1>2, <1>3

\* The accounts' screens.
LEMMA SelectKeeps == ASSUME ConsoleInv, NEW t \in Terminals, SelectAccount(t) PROVE ConsoleInv'
<1>1. /\ screen[t] = "accounts" /\ lease = {} /\ lease' = {t} /\ saved' = MarkedUncertain
      /\ screen' = [screen EXCEPT ![t] = "overview"]
      /\ UNCHANGED <<reconciled, worker, stopRead, atRest, ended, overlaid>>
    BY DEF SelectAccount, Shows
<1>2. worker[t].at = "idle" /\ stopRead[t] = {}
    BY <1>1 DEF ConsoleInv, LeaseKept, Away
<1>3. saved \in [Previews -> SavedStates]
    BY DEF ConsoleInv, ConsoleFilesTyped
<1>4. /\ saved' \in [Previews -> SavedStates]
      /\ \A c \in Previews : saved'[c] = IF saved[c] \in {"executing", "stopping"} THEN "uncertain" ELSE saved[c]
    BY <1>1, <1>3 DEF MarkedUncertain, SavedStates, Verdict
<1>5. ConsoleFilesTyped'
    BY <1>1, <1>4 DEF ConsoleInv, ConsoleFilesTyped
<1>6. \A c \in Previews : InDoubt(c)' => InDoubt(c)
    BY <1>1 DEF InDoubt
<1>7. DoubtKept'
    BY <1>1, <1>4, <1>6 DEF ConsoleInv, DoubtKept
<1>8. Knows("overview", worker[t])'
    BY <1>1, <1>2 DEF Knows
<1>9. /\ "overview" \in Screens /\ atRest' \in BOOLEAN /\ worker[t] \in Workers /\ stopRead[t] \in SUBSET Previews
      /\ Becomes(t, "overview", worker[t], stopRead[t])
    BY <1>1, TerminalNow DEF Screens, Becomes, ConsoleInv
<1>10. PICK w, stop : w = worker[t] /\ stop = stopRead[t]
    OBVIOUS
<1>11. Knows("overview", w)'
    BY <1>1, <1>2, <1>10 DEF Knows
<1> QED
    BY <1>1, <1>5, <1>7, <1>9, <1>10, <1>11, TerminalGoesOn

LEMMA LeaveKeeps == ASSUME ConsoleInv, NEW t \in Terminals, LeaveAccount(t) PROVE ConsoleInv'
<1>1. /\ screen[t] # "accounts" /\ worker[t].at = "idle" /\ stopRead[t] = {}
      /\ lease' = lease \ {t} /\ screen' = [screen EXCEPT ![t] = "accounts"]
      /\ UNCHANGED <<saved, reconciled, worker, stopRead, atRest, ended, overlaid>>
    BY DEF LeaveAccount, Shows, Active, Listens
<1>2. t \in lease /\ lease = {t}
    BY <1>1, HasLease
<1>3. ConsoleFilesTyped' /\ DoubtKept'
    BY <1>1, <1>2, FilesStaySame DEF ConsoleInv, ConsoleFilesTyped
<1>4. PICK w, stop : w = worker[t] /\ stop = stopRead[t]
    OBVIOUS
<1>5. Knows("accounts", w)'
    BY <1>1, <1>4 DEF Knows
<1>6. /\ "accounts" \in Screens /\ atRest' \in BOOLEAN /\ w \in Workers /\ stop \in SUBSET Previews
      /\ Becomes(t, "accounts", w, stop)
    BY <1>1, <1>4, TerminalNow DEF Screens, Becomes, ConsoleInv
<1> QED
    BY <1>1, <1>2, <1>3, <1>4, <1>5, <1>6, TerminalGoesOn

LEMMA PreviewKeeps == ASSUME ConsoleInv, NEW t \in Terminals, Preview(t) PROVE ConsoleInv'
<1>1. /\ screen[t] = "overview" /\ worker[t].at = "idle"
      /\ screen' = [screen EXCEPT ![t] = "preview"]
      /\ UNCHANGED <<reconciled, lease, stopRead, atRest, ended, overlaid>>
    BY DEF Preview, Shows, Active
<1>2. PICK c \in Previews : /\ saved[c] = "absent" /\ saved' = [saved EXCEPT ![c] = "planned"]
                            /\ worker' = [worker EXCEPT ![t].campaign = c]
    BY DEF Preview, Saves
<1>3. t \in lease /\ lease = {t}
    BY <1>1, HasLease
<1>4. PICK w : w = [worker[t] EXCEPT !.campaign = c]
    OBVIOUS
<1>5. w \in Workers /\ w.at = "idle" /\ w.campaign = c /\ worker' = [worker EXCEPT ![t] = w]
    BY <1>1, <1>2, <1>4, TerminalNow DEF Workers
<1>6. saved \in [Previews -> SavedStates] /\ ended[c] = "never"
    BY <1>2 DEF ConsoleInv, ConsoleFilesTyped, DoubtKept
<1>7. /\ saved' \in [Previews -> SavedStates] /\ saved'[c] = "planned"
      /\ \A d \in Previews : d # c => saved'[d] = saved[d]
    BY <1>2, <1>6 DEF SavedStates
<1>8. ConsoleFilesTyped'
    BY <1>1, <1>7 DEF ConsoleInv, ConsoleFilesTyped
<1>9. \A d \in Previews : InDoubt(d)' => InDoubt(d) /\ d # c
    BY <1>1, <1>6 DEF InDoubt
<1>10. DoubtKept'
    BY <1>1, <1>7, <1>9 DEF ConsoleInv, DoubtKept
<1>11. Knows("preview", w)'
    BY <1>1, <1>5, <1>6, <1>7 DEF Knows
<1>12. PICK stop : stop = stopRead[t]
    OBVIOUS
<1>13. /\ "preview" \in Screens /\ atRest' \in BOOLEAN /\ stop \in SUBSET Previews
       /\ Becomes(t, "preview", w, stop)
    BY <1>1, <1>5, <1>12, TerminalNow DEF Screens, Becomes, ConsoleInv
<1> QED
    BY <1>1, <1>3, <1>5, <1>8, <1>10, <1>11, <1>13, TerminalGoesOn

LEMMA ReconcileKeeps == ASSUME ConsoleInv, NEW t \in Terminals, Reconcile(t) PROVE ConsoleInv'
<1>1. /\ screen[t] # "accounts" /\ UNCHANGED <<saved, lease, screen, worker, stopRead, atRest, ended, overlaid>>
      /\ reconciled \subseteq reconciled' /\ reconciled' \subseteq Previews
    BY DEF Reconcile, Unresolved, ConsoleInv, ConsoleFilesTyped
<1>2. ConsoleFilesTyped' /\ DoubtKept' /\ \A c \in Previews : InDoubt(c)' => InDoubt(c)
    BY <1>1, FilesStaySame
<1>3. TerminalsTyped' /\ LeaseKept' /\ atRest' \in BOOLEAN
    BY <1>1 DEF ConsoleInv, TerminalsTyped, LeaseKept, Away
<1>4. ASSUME NEW u \in Terminals PROVE Knows(screen[u], worker[u])'
    <2>1. Knows(screen[u], worker[u])
        BY DEF ConsoleInv
    <2> QED
        BY <1>1, <1>2, <2>1 DEF Knows
<1> QED
    BY <1>2, <1>3, <1>4 DEF ConsoleInv

\* The worker, up to its claim.
LEMMA StartingKeeps ==
    ASSUME ConsoleInv, NEW t \in Terminals, StartCampaign(t) \/ ValidatePreview(t) \/ ReadBoundary(t)
    PROVE  ConsoleInv'
<1>1. /\ screen[t] = "preview" \/ worker[t].at # "idle"
      /\ UNCHANGED <<saved, reconciled, lease, screen, stopRead, atRest, ended, overlaid>>
    BY DEF StartCampaign, ValidatePreview, ReadBoundary
<1>2. t \in lease /\ lease = {t}
    BY <1>1, HasLease
<1>3. Knows(screen[t], worker[t])
    BY TerminalNow
<1>4. PICK s, stop : s = screen[t] /\ stop = stopRead[t]
    OBVIOUS
<1>5. /\ s \in Screens /\ stop \in SUBSET Previews
      /\ \A w \in Workers : worker' = [worker EXCEPT ![t] = w] => Becomes(t, s, w, stop)
    BY <1>1, <1>4, TerminalNow DEF Becomes
<1>6. PICK place \in {"validate", "boundary", "claim", "failed"} :
         /\ WorkerAt(t, place)
         /\ \/ screen[t] = "preview" /\ worker[t].at = "idle"
            \/ worker[t].at \in {"validate", "boundary"}
         /\ place = "boundary" => Unresolved = {}
         /\ place = "claim" => worker[t].at = "boundary"
    BY DEF StartCampaign, ValidatePreview, ReadBoundary, Active
<1>7. PICK w \in Workers : /\ worker' = [worker EXCEPT ![t] = w]
                           /\ w.at = place /\ w.campaign = worker[t].campaign
    BY <1>6, WorkerAtIs DEF WorkerPlaces
<1>8. Unresolved = {} => \A c \in Previews : ~InDoubt(c)
    BY <1>2 DEF ConsoleInv, DoubtKept, Unresolved, InDoubt
<1>9. place \in {"boundary", "claim"} => \A c \in Previews : ~InDoubt(c)
    BY <1>3, <1>6, <1>8 DEF Knows
<1>10. /\ worker[t].campaign \in Previews /\ ended[worker[t].campaign] = "never"
       /\ saved[worker[t].campaign] # "absent"
    BY <1>3, <1>6 DEF Knows
<1>11. Knows(s, w)
    BY <1>6, <1>7, <1>9, <1>10 DEF Knows
<1> QED
    BY <1>1, <1>2, <1>5, <1>7, <1>11, TerminalStays

\* A save of the worker's own campaign, and what its end is in history.
LEMMA OwnSave ==
    ASSUME ConsoleInv, NEW c \in Previews, NEW status \in SavedStates \ {"absent"}, Saves(c, status),
           UNCHANGED <<reconciled, overlaid>>, NEW end \in Endings, ended' = [ended EXCEPT ![c] = end],
           end \in {"uncertain", "lost"} => status = "uncertain", lease' = lease
    PROVE  /\ ConsoleFilesTyped' /\ DoubtKept' /\ saved'[c] = status /\ ended'[c] = end
           /\ \A d \in Previews : InDoubt(d)' => InDoubt(d) \/ (d = c /\ end \in {"uncertain", "lost"})
<1>1. saved \in [Previews -> SavedStates] /\ ended \in [Previews -> Endings]
    BY DEF ConsoleInv, ConsoleFilesTyped
<1>2. /\ saved' \in [Previews -> SavedStates] /\ saved'[c] = status
      /\ ended' \in [Previews -> Endings] /\ ended'[c] = end
      /\ \A d \in Previews : d # c => saved'[d] = saved[d] /\ ended'[d] = ended[d]
    BY <1>1 DEF Saves
<1>3. ConsoleFilesTyped'
    BY <1>2 DEF ConsoleInv, ConsoleFilesTyped
<1>4. \A d \in Previews : InDoubt(d)' => (d # c /\ InDoubt(d)) \/ (d = c /\ end \in {"uncertain", "lost"})
    BY <1>2 DEF InDoubt
<1>5. DoubtKept'
    BY <1>2, <1>4 DEF ConsoleInv, DoubtKept
<1> QED
    BY <1>2, <1>3, <1>4, <1>5

LEMMA WorkingKeeps ==
    ASSUME ConsoleInv, NEW t \in Terminals, NotStarted(t) \/ ClaimCampaign(t) \/ Trades(t) \/ Concluded(t)
    PROVE  ConsoleInv'
<1>1. worker[t].at \in {"failed", "claim", "running"}
      /\ UNCHANGED <<reconciled, lease, screen, stopRead, overlaid>> /\ atRest' \in BOOLEAN
    BY DEF NotStarted, ClaimCampaign, Trades, Concluded, ConsoleInv
<1>2. t \in lease /\ lease = {t} /\ lease' = lease
    BY <1>1, HasLease
<1>3. Knows(screen[t], worker[t])
    BY TerminalNow
<1>4. PICK c, s, stop : c = worker[t].campaign /\ s = screen[t] /\ stop = stopRead[t]
    OBVIOUS
<1>5. /\ c \in Previews /\ ended[c] = "never" /\ saved[c] # "absent"
      /\ worker[t].at = "running" => saved[c] \in {"executing", "stopping"}
      /\ worker[t].at # "failed" => \A d \in Previews : ~InDoubt(d)
    BY <1>1, <1>3, <1>4 DEF Knows
<1>6. saved \in [Previews -> SavedStates] /\ ended \in [Previews -> Endings]
    BY DEF ConsoleInv, ConsoleFilesTyped
<1>7. PICK place \in {"finished", "running"}, status \in SavedStates \ {"absent"}, end \in Endings :
         /\ Saves(c, status) /\ ended' = [ended EXCEPT ![c] = end] /\ WorkerAt(t, place)
         /\ end \in {"uncertain", "lost"} => status = "uncertain"
         /\ place = "running" => /\ status \in {"executing", "stopping"} /\ end = "never"
                                 /\ worker[t].at # "failed"
    <2>1. CASE NotStarted(t)
        <3>1. Saves(c, "stopped") /\ WorkerAt(t, "finished") /\ ended' = [ended EXCEPT ![c] = "never"]
            BY <1>4, <1>5, <1>6, <2>1 DEF NotStarted
        <3> QED
            BY <3>1 DEF SavedStates, Endings, Verdict
    <2>2. CASE ClaimCampaign(t)
        <3>1. ended' = [ended EXCEPT ![c] = "never"] /\ worker[t].at = "claim"
            BY <1>5, <1>6, <2>2 DEF ClaimCampaign
        <3>2. \/ Saves(c, "executing") /\ WorkerAt(t, "running")
              \/ Saves(c, "uncertain") /\ WorkerAt(t, "finished")
            BY <1>4, <2>2 DEF ClaimCampaign
        <3> QED
            BY <3>1, <3>2 DEF SavedStates, Endings, Verdict
    <2>3. CASE Trades(t)
        <3>1. ended' = [ended EXCEPT ![c] = "never"] /\ worker[t].at = "running"
            BY <1>5, <1>6, <2>3 DEF Trades
        <3>2. WorkerAt(t, "running")
            <4>1. worker[t] = [worker[t] EXCEPT !.at = "running"]
                BY <3>1, TerminalNow DEF Workers
            <4>2. worker' = worker /\ worker = [worker EXCEPT ![t] = worker[t]]
                BY <2>3, TerminalNow DEF Trades
            <4> QED
                BY <4>1, <4>2 DEF WorkerAt
        <3>3. saved' = saved => Saves(c, saved[c]) /\ saved[c] \in {"executing", "stopping"}
            BY <1>5, <1>6, <3>1 DEF Saves
        <3>4. Saves(c, "executing") \/ saved' = saved
            BY <1>4, <2>3 DEF Trades
        <3> QED
            BY <3>1, <3>2, <3>3, <3>4 DEF SavedStates, Endings, Verdict
    <2>4. CASE Concluded(t)
        <3>1. PICK v \in Verdict : Saves(c, v) /\ ended' = [ended EXCEPT ![c] = v]
            BY <1>4, <2>4 DEF Concluded
        <3>2. WorkerAt(t, "finished")
            BY <2>4 DEF Concluded
        <3> QED
            BY <3>1, <3>2 DEF SavedStates, Endings, Verdict
    <2> QED
        BY <2>1, <2>2, <2>3, <2>4
<1>8. PICK w \in Workers : /\ worker' = [worker EXCEPT ![t] = w]
                           /\ w.at = place /\ w.campaign = worker[t].campaign
    BY <1>7, WorkerAtIs DEF WorkerPlaces
<1>9. /\ ConsoleFilesTyped' /\ DoubtKept' /\ saved'[c] = status /\ ended'[c] = end
      /\ \A d \in Previews : InDoubt(d)' => InDoubt(d) \/ (d = c /\ end \in {"uncertain", "lost"})
    BY <1>1, <1>2, <1>5, <1>7, OwnSave
<1>10. Knows(s, w)'
    <2>1. place = "running" => \A d \in Previews : ~InDoubt(d)'
        BY <1>5, <1>7, <1>9
    <2> QED
        BY <1>4, <1>5, <1>7, <1>8, <1>9, <2>1 DEF Knows
<1>11. /\ s \in Screens /\ stop \in SUBSET Previews /\ Becomes(t, s, w, stop)
    BY <1>1, <1>4, <1>8, TerminalNow DEF Becomes
<1> QED
    BY <1>1, <1>2, <1>9, <1>10, <1>11, TerminalGoesOn

\* What the screens' thread does beside it.
LEMMA ThreadKeeps ==
    ASSUME ConsoleInv, NEW t \in Terminals, FinishCampaign(t) \/ LoadForStop(t) \/ ShowOverview(t)
    PROVE  ConsoleInv'
<1>1. UNCHANGED <<saved, reconciled, lease, atRest, ended, overlaid>>
      /\ (screen[t] # "accounts" \/ worker[t].at # "idle")
    BY DEF FinishCampaign, LoadForStop, ShowOverview, Active
<1>2. t \in lease /\ lease' = lease
    BY <1>1, HasLease
<1>3. Knows(screen[t], worker[t])
    BY TerminalNow
<1>4. CASE FinishCampaign(t)
    <2>1. PICK w, stop : w = IdleWorker /\ stop = stopRead[t]
        OBVIOUS
    <2>2. w \in Workers /\ stop \in SUBSET Previews /\ "result" \in Screens /\ Knows("result", w)
        BY <2>1, TerminalNow DEF IdleWorker, Workers, WorkerPlaces, Screens, Knows
    <2>3. Becomes(t, "result", w, stop)
        BY <1>4, <2>1, TerminalNow DEF FinishCampaign, Shows, Becomes
    <2> QED
        BY <1>1, <1>2, <2>2, <2>3, TerminalStays
<1>5. CASE LoadForStop(t)
    <2>1. PICK s, w, stop : s = screen[t] /\ w = worker[t] /\ stop = {worker[t].campaign}
        OBVIOUS
    <2>2. worker[t].campaign \in Previews
        BY <1>3, <1>5 DEF LoadForStop, Active, Knows
    <2>3. s \in Screens /\ w \in Workers /\ stop \in SUBSET Previews /\ Knows(s, w)
        BY <1>3, <2>1, <2>2, TerminalNow
    <2>4. Becomes(t, s, w, stop)
        BY <1>5, <2>1, TerminalNow DEF LoadForStop, Becomes
    <2> QED
        BY <1>1, <1>2, <2>3, <2>4, TerminalStays
<1>6. CASE ShowOverview(t)
    <2>1. PICK w, stop : w = worker[t] /\ stop = stopRead[t]
        OBVIOUS
    <2>2. worker[t].at = "idle"
        BY <1>6 DEF ShowOverview, Active
    <2>3. w \in Workers /\ stop \in SUBSET Previews /\ "overview" \in Screens /\ Knows("overview", w)
        BY <2>1, <2>2, TerminalNow DEF Screens, Knows
    <2>4. Becomes(t, "overview", w, stop)
        BY <1>6, <2>1, TerminalNow DEF ShowOverview, Shows, Becomes
    <2> QED
        BY <1>1, <1>2, <2>3, <2>4, TerminalStays
<1> QED
    BY <1>4, <1>5, <1>6

LEMMA StopKeeps == ASSUME ConsoleInv, NEW t \in Terminals, SaveStopping(t) PROVE ConsoleInv'
<1>1. PICK c \in stopRead[t] :
         /\ Saves(c, "stopping")
         /\ overlaid' = IF ended[c] = "never" THEN overlaid ELSE overlaid \union {c}
    BY DEF SaveStopping
<1>2. stopRead' = [stopRead EXCEPT ![t] = {}] /\ UNCHANGED <<reconciled, lease, screen, worker, atRest, ended>>
    BY DEF SaveStopping
<1>3. t \in lease /\ lease = {t} /\ c \in Previews
    BY <1>1, HasLease, TerminalNow
<1>4. saved \in [Previews -> SavedStates] /\ overlaid \subseteq Previews
    BY DEF ConsoleInv, ConsoleFilesTyped
<1>5. /\ saved' \in [Previews -> SavedStates] /\ saved'[c] = "stopping"
      /\ \A d \in Previews : d # c => saved'[d] = saved[d]
    BY <1>1, <1>3, <1>4 DEF Saves, SavedStates
<1>6. ConsoleFilesTyped'
    BY <1>1, <1>2, <1>3, <1>4, <1>5 DEF ConsoleInv, ConsoleFilesTyped
<1>7. \A d \in Previews : InDoubt(d)' => InDoubt(d) /\ d # c
    BY <1>1, <1>2 DEF InDoubt
<1>8. DoubtKept'
    BY <1>2, <1>5, <1>7 DEF ConsoleInv, DoubtKept
<1>9. PICK s, w : s = screen[t] /\ w = worker[t]
    OBVIOUS
<1>10. Knows(s, w)
    BY <1>9, TerminalNow
<1>11. Knows(s, w)'
    BY <1>2, <1>5, <1>7, <1>10 DEF Knows
<1>12. s \in Screens /\ w \in Workers /\ {} \in SUBSET Previews /\ Becomes(t, s, w, {}) /\ atRest' \in BOOLEAN
    BY <1>2, <1>9, TerminalNow DEF Becomes, ConsoleInv
<1> QED
    BY <1>2, <1>3, <1>6, <1>8, <1>11, <1>12, TerminalGoesOn

LEMMA DiesKeeps == ASSUME ConsoleInv, NEW t \in Terminals, ConsoleDies(t) PROVE ConsoleInv'
<1>1. /\ t \in lease /\ lease' = lease \ {t} /\ UNCHANGED <<saved, reconciled, atRest, overlaid>>
      /\ ended' = IF worker[t].at = "running" THEN [ended EXCEPT ![worker[t].campaign] = "lost"] ELSE ended
    BY DEF ConsoleDies
<1>2. lease = {t} /\ lease' = {}
    BY <1>1 DEF ConsoleInv, LeaseKept
<1>3. Knows(screen[t], worker[t])
    BY TerminalNow
<1>4. PICK w : w = IdleWorker
    OBVIOUS
<1>5. /\ w \in Workers /\ w.at = "idle" /\ "accounts" \in Screens /\ {} \in SUBSET Previews
      /\ Becomes(t, "accounts", w, {}) /\ atRest' \in BOOLEAN
    BY <1>1, <1>4 DEF IdleWorker, Workers, WorkerPlaces, Screens, ConsoleDies, Shows, Becomes, ConsoleInv
<1>6. Knows("accounts", w)'
    BY <1>5 DEF Knows
<1>7. ended \in [Previews -> Endings]
    BY DEF ConsoleInv, ConsoleFilesTyped
<1>8. ended' \in [Previews -> Endings] /\ \A d \in Previews : \/ ended'[d] = ended[d]
                                                           \/ saved[d] \in {"executing", "stopping"}
    <2>1. CASE worker[t].at = "running"
        <3>1. worker[t].campaign \in Previews /\ saved[worker[t].campaign] \in {"executing", "stopping"}
            BY <1>3, <2>1 DEF Knows
        <3> QED
            BY <1>1, <1>7, <2>1, <3>1 DEF Endings
    <2>2. CASE worker[t].at # "running"
        BY <1>1, <1>7, <2>2
    <2> QED
        BY <2>1, <2>2
<1>9. ConsoleFilesTyped'
    BY <1>1, <1>8 DEF ConsoleInv, ConsoleFilesTyped
<1>10. \A d \in Previews : InDoubt(d)' => InDoubt(d) \/ saved[d] \in {"executing", "stopping"}
    BY <1>1, <1>8 DEF InDoubt
<1>11. DoubtKept'
    BY <1>1, <1>2, <1>8, <1>10 DEF ConsoleInv, DoubtKept
<1> QED
    BY <1>1, <1>2, <1>5, <1>6, <1>9, <1>11, TerminalGoesOn

LEMMA ConsoleStays ==
    ASSUME ConsoleInv, UNCHANGED <<saved, reconciled, lease, screen, worker, stopRead, ended, overlaid>>,
           atRest' \in BOOLEAN
    PROVE  ConsoleInv'
<1>1. ConsoleFilesTyped' /\ TerminalsTyped' /\ LeaseKept' /\ DoubtKept'
    BY DEF ConsoleInv, ConsoleFilesTyped, TerminalsTyped, LeaseKept, Away, DoubtKept, InDoubt
<1>2. ASSUME NEW u \in Terminals PROVE Knows(screen[u], worker[u])'
    BY DEF ConsoleInv, Knows, InDoubt
<1> QED
    BY <1>1, <1>2 DEF ConsoleInv

LEMMA ConsoleSteps == ASSUME ConsoleInv, ConsoleNext \/ UNCHANGED consoleVars PROVE ConsoleInv'
<1>1. CASE UNCHANGED consoleVars
    BY <1>1, ConsoleStays DEF consoleVars, ConsoleInv
<1>2. CASE TradeByHand
    <2>1. atRest' \in BOOLEAN
        BY <1>2, Zenon DEF TradeByHand
    <2> QED
        BY <1>2, <2>1, ConsoleStays DEF TradeByHand
<1>3. ASSUME NEW t \in Terminals,
             \/ SelectAccount(t) \/ LeaveAccount(t) \/ Preview(t) \/ Reconcile(t) \/ StartCampaign(t)
             \/ WorkerStep(t) \/ Trades(t) \/ LoadForStop(t) \/ SaveStopping(t) \/ ConsoleDies(t)
             \/ ShowOverview(t)
      PROVE  ConsoleInv'
    BY <1>3, SelectKeeps, LeaveKeeps, PreviewKeeps, ReconcileKeeps, StartingKeeps, WorkingKeeps, ThreadKeeps,
       StopKeeps, DiesKeeps, Zenon DEF WorkerStep
<1> QED
    BY <1>1, <1>2, <1>3, Zenon DEF ConsoleNext

(***************************************************************************)
(* The commands side by side.                                              *)
(***************************************************************************)
CommandInv == OutcomeInv /\ LiveInv /\ DemoInv /\ RecoveryInv /\ ConsoleInv

LEMMA CommandBegins == CommandInit => CommandInv
<1>1. CommandInit => Init /\ LiveInit /\ DemoInit /\ RecoveryInit /\ ConsoleInit
    BY Zenon DEF CommandInit, LiveRests, DemoRests, PlanRests
<1> QED
    BY <1>1, InitOutcome, LiveBegins, DemoBegins, PlanBegins, ConsoleBegins, Zenon DEF CommandInv

LEMMA CommandSteps == CommandInv /\ [CommandNext]_allVars => CommandInv'
<1> SUFFICES ASSUME CommandInv, [CommandNext]_allVars PROVE CommandInv'
    OBVIOUS
<1>1. /\ [Next]_vars
      /\ LiveNext \/ UNCHANGED liveVars
      /\ DemoNext \/ UNCHANGED demoVars
      /\ RecoveryNext \/ UNCHANGED planVars
      /\ ConsoleNext \/ UNCHANGED consoleVars
    <2>1. CASE CommandNext
        BY <2>1, Zenon DEF CommandNext
    <2>2. CASE UNCHANGED allVars
        BY <2>2 DEF allVars
    <2> QED
        BY <2>1, <2>2
<1>2. OutcomeInv' /\ LiveInv' /\ DemoInv'
    BY <1>1, NextOutcome, LiveSteps, DemoSteps, Zenon DEF CommandInv
<1>3. RecoveryInv' /\ ConsoleInv'
    BY <1>1, PlanSteps, ConsoleSteps, Zenon DEF CommandInv
<1> QED
    BY <1>2, <1>3, Zenon DEF CommandInv

LEMMA CommandAlways == CommandSpec => []CommandInv
<1>1. CommandInv /\ [CommandNext]_allVars => CommandInv'
    BY CommandSteps
<1> QED
    BY <1>1, CommandBegins, PTL DEF CommandSpec

\* What a campaign, a live run and a demo run save or report at their end is
\* true of the account and of the volume that traded, wherever a process died
\* and whatever a leg left behind.
THEOREM VerdictsHold == CommandSpec => []VerdictsAreTrue
<1>1. CommandInv => VerdictsAreTrue
    BY Zenon DEF CommandInv, OutcomeInv, LiveInv, DemoInv, VerdictsAreTrue
<1> QED
    BY <1>1, CommandAlways, PTL

\* No live round starts over an open position, no recovery over a session or
\* over another recovery of its symbol, no campaign of the console over one
\* that ended in doubt and was not reconciled.
THEOREM StartsHold == CommandSpec => []StartsAreSafe
<1>1. LiveInv => LiveTypeOK /\ RoundsOpenAtRest
    BY DEF LiveInv, RestInv, RoundsOpenAtRest
<1>2. DemoInv => DemoTypeOK
    BY DEF DemoInv
<1>3. CommandInv => StartsAreSafe
    BY <1>1, <1>2, RecoveriesAreAlone, ConsoleHolds, Zenon DEF CommandInv, StartsAreSafe, CommandsTyped
<1> QED
    BY <1>3, CommandAlways, PTL
=============================================================================
