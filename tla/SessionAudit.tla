---------------------------- MODULE SessionAudit ----------------------------
(***************************************************************************)
(* The volume sessions of one live account: what each run of its strategy  *)
(* is counted with (fleet_api/volume, fleet_api/strategy).                 *)
(*                                                                         *)
(* A run has a record in the campaigns' journal and a session in the       *)
(* ledger.  The end of a run only changes the record; a task per session   *)
(* then reads the account's trades and settles the session, and the next   *)
(* preparation of a launch may be doing the same.  Both keep the record    *)
(* and the session they had read across every call to the venue.  The      *)
(* campaign is FleetCampaigns' in outline: a record that changes by itself.*)
(*                                                                         *)
(* A session counts the trades of the ledger in a window of time, both     *)
(* ends included; nothing in a trade says which run it was made for.       *)
(***************************************************************************)
EXTENDS Naturals, FiniteSets

CONSTANTS
    Runs,           \* the runs of the account, 1 .. n, in the order of their records
    Horizon,        \* bound: the clock
    MaxDeaths,      \* bound: restarts of the control plane
    Nothing

ASSUME AuditAssumption == Runs = 1 .. Cardinality(Runs) /\ Horizon \in Nat /\ MaxDeaths \in Nat

VARIABLES
    clock,
    fills,      \* the account's trades: <<time, run>>
    ledger,     \* those in the ledger
    record,     \* of each run: [status, finished, submitted, aborted, worker]
    session,    \* the session of each run, Nothing before it was claimed
    exposed,    \* the account holds a position or an order
    news,       \* a change of a record is still to be looked at
    work,       \* the task of each session, and of the preparation (0)
    missed,     \* runs whose end their task did not know of
    astray,     \* runs closed over a later one, for another run, or under a worker
    deaths

auditVars == <<clock, fills, ledger, record, session, exposed, news, work, missed, astray, deaths>>

Never == Horizon + 1
NoRecord == [status |-> "none", finished |-> Never, submitted |-> FALSE, aborted |-> FALSE,
             worker |-> FALSE]
Ended == {"completed", "stopped"}
Live == {"active", "recovering"}
AtWork(e) == record[e].worker

\* latest_bound_record
Latest == IF \A e \in Runs : record[e].status = "none" THEN 0
          ELSE CHOOSE e \in Runs : /\ record[e].status # "none"
                                   /\ \A f \in Runs : f > e => record[f].status = "none"

\* active_for_instance, or else the latest.
Current == LET active == {e \in Runs : record[e].status \notin Ended \cup {"none"}}
           IN  IF active = {} THEN Latest ELSE CHOOSE e \in active : \A f \in active : f <= e

\* active_session: the youngest that is live; 0 when there is none.
ActiveSession ==
    LET live == {e \in Runs : session[e] # Nothing /\ session[e].status \in Live}
    IN  IF live = {} THEN 0 ELSE CHOOSE e \in live : \A f \in live : f <= e

\* Mutant: a session counts whatever came after it began.
OpenWindow(s, x) == s.started <= x[1]
InWindow(s, x) == s.started <= x[1] /\ x[1] <= s.finished
InLedger(s, some) == {x \in some : InWindow(s, x)}

\* What the projection of a session shows as its verified volume.
Shown(e) ==
    IF session[e].source /\ ~session[e].stale /\ ~session[e].disputed
    THEN InLedger(session[e], ledger) ELSE session[e].stored

-----------------------------------------------------------------------------
(* The run                                                                 *)

\* The loop comes to what it was told, and to a new task, before it serves a request
\* made afterwards.
Beginning == news \/ \E e \in Runs : work[e] # Nothing /\ work[e].at = "begin"

AuditTick ==
    /\ clock < Horizon /\ ~Beginning /\ clock' = clock + 1
    /\ UNCHANGED <<fills, ledger, record, session, exposed, news, work, missed, astray, deaths>>

NewSession == [status |-> "active", audit |-> "pending", started |-> clock, finished |-> Never,
               stored |-> {}, source |-> FALSE, stale |-> TRUE, disputed |-> FALSE, unsure |-> FALSE]
\* establish_session
Established(e) == [session EXCEPT ![e] = NewSession]
Stopped(r) == [r EXCEPT !.status = "stopped", !.finished = clock]

\* claim_execution and its callback: the session of another run forbids it.  A worker
\* that cannot be started leaves the session to the next preparation.  (No millisecond
\* holds the end of one session and the beginning of another.)
Claim(e) ==
    /\ record[e].status = "planned" /\ ~exposed /\ ~Beginning
    /\ \A f \in Runs : ~AtWork(f)
    /\ \A f \in Runs : session[f] # Nothing => clock \notin {session[f].finished, record[f].finished}
    /\ \A c \in {0} \cup Runs : work[c] # Nothing => clock \notin {work[c].upto, work[c].read.finished}
    /\ \/ /\ ActiveSession = 0
          /\ session' = Established(e)
          /\ record' = [record EXCEPT ![e].status = "executing", ![e].worker = TRUE]
          /\ news' = TRUE
       \/ /\ session' = IF ActiveSession = 0 THEN Established(e) ELSE session
          /\ record' = [record EXCEPT ![e] = [Stopped(@) EXCEPT !.aborted = TRUE]]
          /\ UNCHANGED news
    /\ UNCHANGED <<clock, fills, ledger, exposed, work, missed, astray, deaths>>

\* An order is sent, and fills or not; what is left of it is exposure.  A stop only
\* closes what it finds.
Trades(e) ==
    /\ AtWork(e) /\ (record[e].status = "executing" \/ exposed)
    /\ record' = [record EXCEPT ![e].submitted = TRUE]
    /\ \E filled \in SUBSET {<<clock, e>>} : fills' = fills \cup filled
    /\ exposed' \in BOOLEAN
    /\ UNCHANGED <<clock, ledger, session, news, work, missed, astray, deaths>>

\* What a run left behind goes on trading, or is closed by hand.
ExposureTrades(e) ==
    /\ record[e].status = "recovering" /\ ~AtWork(e) /\ exposed /\ e = Latest
    /\ fills' = fills \cup {<<clock, e>>}
    /\ exposed' \in BOOLEAN
    /\ UNCHANGED <<clock, ledger, record, session, news, work, missed, astray, deaths>>

\* The outcome is saved: in doubt only once an order may have been sent.
RunSaved(e, status) ==
    /\ AtWork(e)
    /\ status = "recovering" => record[e].submitted
    /\ status \in Ended => ~exposed
    /\ status = "completed" => \E x \in fills : x[2] = e
    /\ record' = [record EXCEPT ![e].status = status, ![e].finished = clock, ![e].worker = FALSE]
    /\ news' = TRUE
    /\ UNCHANGED <<clock, fills, ledger, session, exposed, work, missed, astray, deaths>>

\* The operator stops a run in doubt whose exposure is its own.
SafeStop(e) ==
    /\ record[e].status = "recovering" /\ ~AtWork(e) /\ exposed /\ ~Beginning
    /\ record' = [record EXCEPT ![e].status = "stopping", ![e].worker = TRUE]
    /\ news' = TRUE
    /\ UNCHANGED <<clock, fills, ledger, session, exposed, work, missed, astray, deaths>>

-----------------------------------------------------------------------------
(* The history of the account's trades                                     *)

\* Mutant: the sessions that have ended are refreshed with the others.
AllSessions == {e \in Runs : session[e] # Nothing}
LiveSessions == {e \in Runs : session[e] # Nothing /\ session[e].status \notin Ended}

\* A step of HistorySync, whole or not, and the refresh of the live sessions: the
\* verified volume of such a session is what came after it began.
HistoryReads(whole) ==
    /\ ledger' = IF whole THEN fills ELSE ledger
    /\ session' = [e \in Runs |->
         IF e \in LiveSessions
         THEN [session[e] EXCEPT !.stored = {x \in ledger' : session[e].started <= x[1]},
                                 !.source = whole, !.stale = ~whole]
         ELSE session[e]]
    /\ UNCHANGED <<clock, fills, record, exposed, news, work, missed, astray, deaths>>

-----------------------------------------------------------------------------
(* Who is told                                                             *)

Begun(e) == [at |-> "begin", run |-> e, read |-> record[e], session |-> 0, upto |-> 0]
Settled(e) == record[e].status \in Ended \cup {"recovering"}

\* notify_campaign_change: of the latest record only, and not while the session
\* has a task.
Schedule ==
    /\ news /\ news' = FALSE
    /\ IF Latest # 0 /\ Settled(Latest)
       THEN IF work[Latest] = Nothing
            THEN work' = [work EXCEPT ![Latest] = Begun(Latest)] /\ missed' = missed \ {Latest}
            ELSE /\ missed' = IF work[Latest].read = record[Latest] THEN missed
                              ELSE missed \cup {Latest}
                 /\ UNCHANGED work
       ELSE UNCHANGED <<work, missed>>
    /\ UNCHANGED <<clock, fills, ledger, record, session, exposed, astray, deaths>>

\* recovery_loop
RecoveryDue(e) ==
    /\ record[e].status = "recovering" /\ ~AtWork(e) /\ work[e] = Nothing
    /\ work' = [work EXCEPT ![e] = Begun(e)] /\ missed' = missed \ {e}
    /\ UNCHANGED <<clock, fills, ledger, record, session, exposed, news, astray, deaths>>

-----------------------------------------------------------------------------
(* Settling a session                                                      *)

FinishedAt(r) == IF r.finished = Never THEN clock ELSE r.finished
Marked(s, r) == [s EXCEPT !.status = "recovering", !.audit = "pending", !.finished = FinishedAt(r),
                          !.unsure = TRUE, !.source = FALSE, !.stale = TRUE, !.disputed = TRUE]
Aborted(s) == [s EXCEPT !.status = "stopped", !.audit = "verified", !.finished = clock,
                        !.source = TRUE, !.stale = FALSE, !.disputed = FALSE, !.unsure = FALSE]
Concluded(s, r) == [s EXCEPT !.status = r.status, !.audit = "pending", !.finished = FinishedAt(r),
                             !.source = FALSE, !.stale = TRUE]

\* A run is closed at a time at which a later one had begun.
Overtaken(s, at) == \E f \in Runs : f > s /\ session[f] # Nothing /\ session[f].started <= at

\* finalize_record, up to its first call.  Recovery takes the session that is live
\* after the one of this record was marked.
Finalize(e) ==
    LET r == work[e].read
        s == session[e]
    IN  /\ work[e] # Nothing /\ work[e].at = "begin"
        /\ \/ s = Nothing /\ work' = [work EXCEPT ![e] = Nothing] /\ UNCHANGED session
           \/ /\ s # Nothing /\ r.status = "recovering"
              /\ session' = [session EXCEPT ![e] = Marked(s, r)]
              /\ work' = [work EXCEPT ![e].at = "boundary", ![e].session = ActiveSession']
           \/ /\ s # Nothing /\ r.status # "recovering" /\ ~r.submitted
              /\ session' = [session EXCEPT ![e] = Aborted(s)]
              /\ work' = [work EXCEPT ![e] = Nothing]
           \/ /\ s # Nothing /\ r.status # "recovering" /\ r.submitted
              /\ session' = [session EXCEPT ![e] = Concluded(s, r)]
              /\ work' = [work EXCEPT ![e].at = "audit"]
        /\ missed' = IF r.status = record[e].status THEN missed ELSE missed \cup {e}
        /\ astray' = IF work'[e] = Nothing /\ session' # session /\ Overtaken(e, clock)
                     THEN astray \cup {e} ELSE astray
        /\ UNCHANGED <<clock, fills, ledger, record, exposed, news, deaths>>

\* The trades the venue shows between two moments.
Between(from, to) == {x \in fills : from <= x[1] /\ x[1] <= to}

\* record_account_fills
Recorded(how, read) == IF how = "whole" THEN ledger \cup read ELSE ledger

\* reconcile: the session's window of the ledger has to be what was read.
Reconciled(s, read, kept) ==
    IF InLedger(s, read) = InLedger(s, kept)
    THEN [s EXCEPT !.disputed = FALSE, !.audit = "verified", !.stale = FALSE, !.source = TRUE]
    ELSE [s EXCEPT !.disputed = TRUE, !.audit = "discrepant", !.stale = TRUE]

\* finalize: what was in doubt stays pending, and what is completed has its volume.
AuditVerdict(s, status) ==
    IF ~s.unsure /\ (status = "completed" => InLedger(s, ledger') # {}) THEN "verified" ELSE "pending"

\* The trades of the run: read whole, read in part, or the read or the ledger fails.
Audit(e, how) ==
    LET r == work[e].read
        s == session[e]
        read == Between(s.started, FinishedAt(r))
        t == Reconciled(s, read, ledger')
    IN  /\ work[e] # Nothing /\ work[e].at = "audit"
        /\ ledger' = Recorded(how, read)
        /\ session' = [session EXCEPT ![e] =
              IF how = "partial" THEN [s EXCEPT !.audit = "pending"]
              ELSE IF how = "failed" THEN [s EXCEPT !.status = r.status, !.audit = "pending"]
              ELSE [t EXCEPT !.status = r.status, !.finished = FinishedAt(r),
                             !.audit = IF t.disputed THEN "discrepant" ELSE AuditVerdict(t, r.status)]]
        /\ work' = [work EXCEPT ![e] = Nothing]
        /\ UNCHANGED <<clock, fills, record, exposed, news, missed, astray, deaths>>

-----------------------------------------------------------------------------
(* Preparing a launch, and recovering: coroutine 0 is the request          *)

Finished(c) == [work EXCEPT ![c] = IF c = 0 THEN [work[c] EXCEPT !.at = "ready"] ELSE Nothing]

\* prepare, up to its first call.  The preview of before has expired, or it would be
\* what the request is answered with.
PrepareBegins ==
    LET e == Current
        planned == e # 0 /\ record[e].status = "planned"
        r == IF e = 0 \/ planned THEN NoRecord ELSE record[e]
        s == ActiveSession
        recovering == r.status = "recovering" \/ (s # 0 /\ session[s].status = "recovering")
    IN  /\ work[0] = Nothing /\ ~Beginning
        /\ \A f \in Runs : ~AtWork(f)
        /\ record' = IF planned THEN [record EXCEPT ![e] = Stopped(@)] ELSE record
        /\ session' = IF ~recovering /\ r.status = "stopped" /\ r.aborted /\ s # 0
                      THEN [session EXCEPT ![s] = Aborted(@)] ELSE session
        /\ work' = [work EXCEPT ![0] = [at |-> IF recovering THEN "boundary" ELSE "check",
                                        run |-> e, read |-> r, session |-> s, upto |-> 0]]
        /\ astray' = IF session' = session THEN astray ELSE astray \cup ({s} \ {e})
        /\ UNCHANGED <<clock, fills, ledger, exposed, news, missed, deaths>>

\* The boundary of an account in order is read: flat, or not, or not at all.
PrepareChecks(flat) ==
    /\ work[0] # Nothing /\ work[0].at = "check"
    /\ flat => ~exposed
    /\ work' = IF flat THEN Finished(0) ELSE [work EXCEPT ![0] = Nothing]
    /\ UNCHANGED <<clock, fills, ledger, record, session, exposed, news, missed, astray, deaths>>

\* preview_bound_strategy, over which there is to be no other.
PreviewCreated ==
    /\ work[0] # Nothing /\ work[0].at = "ready" /\ ~Beginning
    /\ work' = [work EXCEPT ![0] = Nothing]
    /\ record' = IF Current \in {0} \cup {e \in Runs : record[e].status \in Ended} /\ Latest + 1 \in Runs
                 THEN [record EXCEPT ![Latest + 1].status = "planned"] ELSE record
    /\ UNCHANGED <<clock, fills, ledger, session, exposed, news, missed, astray, deaths>>

Closed(s, how) == [s EXCEPT !.status = "stopped", !.audit = how, !.finished = clock, !.unsure = FALSE]

\* What goes wrong besides: what was to settle another run closes it, or the stop of a
\* run in doubt is still at work.
Wrongly(w, at) ==
    {s \in {w.session} \ {0} : s # w.run \/ Overtaken(s, at)} \cup {e \in {w.run} \ {0} : AtWork(e)}

\* _recover: with nothing sent there is nothing to read; otherwise the trades up to now.
BoundaryRead(c, flat) ==
    LET w == work[c]
        r == w.read
        s == w.session
    IN  /\ w # Nothing /\ w.at = "boundary"
        /\ flat => ~exposed
        /\ IF ~flat THEN work' = [work EXCEPT ![c] = Nothing] /\ UNCHANGED <<record, session, news, astray>>
           ELSE IF r.submitted /\ s # 0
           THEN /\ work' = [work EXCEPT ![c].at = "recover", ![c].upto = clock]
                /\ UNCHANGED <<record, session, news, astray>>
           ELSE /\ work' = Finished(c)
                /\ astray' = astray \cup Wrongly(w, clock)
                /\ session' = IF s = 0 THEN session
                              ELSE [session EXCEPT ![s] = IF r.status = "none" THEN Closed(@, "pending")
                                                          ELSE Aborted(@)]
                /\ record' = IF r.status = "recovering" THEN [record EXCEPT ![w.run] = Stopped(@)]
                             ELSE record
                /\ news' = (news \/ (r.submitted /\ s = 0))
        /\ UNCHANGED <<clock, fills, ledger, exposed, missed, deaths>>

\* _recover_flat: what cannot be told apart by now is left to the operator.
RecoverAnswers(c, how) ==
    LET w == work[c]
        s == session[w.session]
        read == Between(s.started, w.upto)
        t == Reconciled(s, read, ledger')
        sure == [t EXCEPT !.unsure = FALSE, !.status = "stopped", !.finished = w.upto]
    IN  /\ w # Nothing /\ w.at = "recover"
        /\ ledger' = Recorded(how, read)
        /\ session' = [session EXCEPT ![w.session] =
              IF how = "partial" THEN Closed(s, "pending")
              ELSE IF how = "failed" THEN s
              ELSE IF t.disputed THEN Closed(t, "discrepant") ELSE sure]
        /\ astray' = IF how = "failed" THEN astray
                     ELSE astray \cup Wrongly(w, session'[w.session].finished)
        /\ record' = IF how # "failed" /\ w.read.status = "recovering"
                     THEN [record EXCEPT ![w.run].status = "stopped", ![w.run].finished = w.upto] ELSE record
        /\ news' = (news \/ how # "failed")
        /\ work' = IF how = "failed" THEN [work EXCEPT ![c] = Nothing] ELSE Finished(c)
        /\ UNCHANGED <<clock, fills, exposed, missed, deaths>>

-----------------------------------------------------------------------------
(* A restart, and the whole                                                *)

\* recover and lifespan: what was under way is in doubt, or goes on; the session of
\* every record that has settled is settled again.
AuditReboot ==
    /\ deaths < MaxDeaths /\ deaths' = deaths + 1
    /\ \E resumed \in SUBSET {e \in Runs : record[e].status = "executing" /\ ~exposed} :
          record' = [e \in Runs |-> IF AtWork(e) /\ e \notin resumed
                                   THEN [record[e] EXCEPT !.status = "recovering", !.worker = FALSE]
                                   ELSE record[e]]
    /\ work' = [c \in Runs \cup {0} |->
          IF c # 0 /\ record'[c].status \in Ended \cup {"recovering"}
          THEN [at |-> "begin", run |-> c, read |-> record'[c], session |-> 0, upto |-> 0]
          ELSE Nothing]
    /\ news' = FALSE /\ missed' = {}
    /\ UNCHANGED <<clock, fills, ledger, session, exposed, astray>>

Hows == {"whole", "partial", "failed"}
\* What becomes of an account of which a run has gone astray is not followed.
AuditNext ==
    /\ astray = {}
    /\ \/ AuditTick \/ Schedule \/ PrepareBegins \/ PreviewCreated \/ AuditReboot
       \/ \E e \in Runs :
             \/ Claim(e) \/ Trades(e) \/ ExposureTrades(e) \/ SafeStop(e) \/ RecoveryDue(e) \/ Finalize(e)
             \/ \E status \in Ended \cup {"recovering"} : RunSaved(e, status)
             \/ \E how \in Hows : Audit(e, how)
       \/ \E c \in Runs \cup {0} :
             \/ \E flat \in BOOLEAN : BoundaryRead(c, flat)
             \/ \E how \in Hows : RecoverAnswers(c, how)
       \/ \E flag \in BOOLEAN : PrepareChecks(flag) \/ HistoryReads(flag)

AuditInit ==
    /\ clock = 0 /\ fills = {} /\ ledger = {} /\ exposed = FALSE /\ news = FALSE /\ deaths = 0
    /\ record = [e \in Runs |-> NoRecord] /\ session = [e \in Runs |-> Nothing]
    /\ work = [c \in Runs \cup {0} |-> Nothing]
    /\ missed = {} /\ astray = {}

AuditSpec == AuditInit /\ [][AuditNext]_auditVars

-----------------------------------------------------------------------------
(* Properties                                                              *)

Trade == (0 .. Horizon) \X Runs
Record == [status : {"none", "planned", "executing", "stopping", "recovering"} \cup Ended,
           finished : 0 .. Never, submitted : BOOLEAN, aborted : BOOLEAN,
           worker : BOOLEAN]
AuditTypeOK ==
    /\ clock \in 0 .. Horizon /\ ledger \subseteq fills /\ fills \subseteq Trade
    /\ record \in [Runs -> Record]
    /\ \A e \in Runs : session[e] # Nothing =>
          session[e] \in [status : Live \cup Ended, audit : {"pending", "verified", "discrepant"},
                          started : 0 .. Horizon, finished : 0 .. Never, stored : SUBSET Trade,
                          source : BOOLEAN, stale : BOOLEAN, disputed : BOOLEAN, unsure : BOOLEAN]
    /\ \A c \in Runs \cup {0} : work[c] # Nothing =>
          work[c] \in [at : {"begin", "boundary", "audit", "recover", "check", "ready"}, run : Runs \cup {0},
                       read : Record, session : Runs \cup {0}, upto : 0 .. Horizon]

Own(e) == {x \in fills : x[2] = e}
Over(e) == session[e] # Nothing /\ session[e].status \in Ended /\ e \notin astray

\* A session that has ended and is shown as verified shows the trades of its run, all
\* of them and no other's.
VerifiedIsOwn == \A e \in Runs : Over(e) /\ session[e].audit = "verified" => Shown(e) = Own(e)

\* No trade is counted by two runs that have ended.
CountedOnce == \A e, f \in Runs : Over(e) /\ Over(f) /\ e # f => Shown(e) \cap Shown(f) = {}

\* Only one session of an account is open.
OneOpen == \A e, f \in Runs \ astray : session[e] # Nothing /\ session[f] # Nothing /\ e # f
              => ~(session[e].status \in Live /\ session[f].status \in Live)

\* The end of a run is never lost: whoever was told of it is still to settle its
\* session, unless its task was under way or no worker was ever started.
NoRunForgotten == \A e \in Runs :
    /\ record[e].status \in Ended /\ ~record[e].aborted /\ e \notin missed \cup astray
    /\ session[e] # Nothing /\ session[e].status \in Live
    => work[e] # Nothing \/ news

\* What volume_helpers.py says of the window: the accounting of a session that has
\* ended is isolated from the runs that come after it.
IsolatedFromLaterRuns == \A e \in Runs :
    session[e] # Nothing /\ session[e].status \in Ended /\ session[e].audit = "verified"
    => \A x \in Shown(e) : x[2] <= e
=============================================================================
