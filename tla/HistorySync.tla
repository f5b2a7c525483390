------------------------------ MODULE HistorySync ------------------------------
(* The trade history of one live account: the scheduler that keeps at most    *)
(* one request for it, the scanner that reads the account's trades window by  *)
(* window, oldest first, and splits a window that comes back full, and the    *)
(* ledger and the checkpoint in which a step of the scan is saved.            *)
(*                                                                            *)
(* A request is served by the scheduler's loop or by a manual refresh; the    *)
(* account's lock lets one of them read at a time.  The venue may time out or *)
(* fail, it shows a trade late, and the executor may die anywhere, also       *)
(* between the ledger and the checkpoint.                                     *)
EXTENDS Integers, Sequences, FiniteSets

CONSTANTS MaxTime,     \* bound: the clock
          Burst,       \* trades in one millisecond
          PageSize,    \* rows the venue returns at most
          MaxWindow,   \* MAX_HISTORY_WINDOW_MS
          Overlap,     \* HISTORY_OVERLAP_MS: a trade shows up this late at most
          Occasions,   \* bound: why, besides its age, the checkpoint is refreshed
          Servers      \* who serves requests: the loop, and manual refreshes

ASSUME HistoryAssumption ==
    /\ MaxTime \in Nat /\ MaxWindow \in Nat \ {0} /\ Overlap \in Nat
    /\ PageSize \in Nat \ {0} /\ Burst \in 1..PageSize
    /\ Occasions \subseteq {"active_event", "final_session"}
    /\ Servers \subseteq {"loop", "manual"} /\ "loop" \in Servers

VARIABLES now,        \* the clock
          trades,     \* trades the venue shows: <<time, number>>
          recorded,   \* trades in the ledger
          check,      \* the persisted checkpoint
          request,    \* the scheduler's request for the account (in memory)
          serving,       \* who serves a request: the loop, a manual refresh
          scan,       \* the scan of the step in progress
          active      \* the account is being traded

historyVars == <<now, trades, recorded, check, request, serving, scan, active>>

Reasons == {"initial_baseline", "manual_audit", "active_event", "active_fallback", "final_session"}
\* _priority
Priority == [r \in Reasons \union {"none"} |->
    CASE r = "none" -> 0 [] r = "initial_baseline" -> 1 [] r = "active_fallback" -> 10
      [] r = "manual_audit" -> 20 [] r = "active_event" -> 30 [] r = "final_session" -> 35]

Clock    == 0..MaxTime
NoTurn   == [at |-> "none", reason |-> "none"]
\* The source's snapshot: windows to read (the first one is next), whether
\* the scan covers the account's whole history, and whether rows were cut.
NoScan   == [windows |-> <<>>, covers |-> FALSE, truncated |-> FALSE]
Windows  == Clock \X Clock

HistoryTypeOK ==
    /\ now \in Clock /\ trades \subseteq Clock \X (1..Burst) /\ recorded \subseteq trades
    /\ active \in BOOLEAN /\ check.succeeded \in BOOLEAN
    /\ check.mark \in {-1} \union Clock /\ check.coverage \in BOOLEAN
    /\ check.baseline \in {"not_requested", "queued", "running", "complete", "pending"}
    /\ request \in Reasons \union {"none"}
    /\ serving \in [Servers -> [at : {"none", "locking", "reading"}, reason : Reasons \union {"none"}]]
    /\ \A s \in {scan, check.scan} :
         s.windows \in Seq(Windows) /\ s.covers \in BOOLEAN /\ s.truncated \in BOOLEAN

HistoryInit ==
    /\ now = 0 /\ trades = {} /\ recorded = {}
    /\ check = [mark |-> -1, coverage |-> FALSE, scan |-> NoScan, succeeded |-> FALSE,
                baseline |-> "not_requested"]
    /\ request = "none" /\ serving = [s \in Servers |-> NoTurn] /\ scan = NoScan /\ active = FALSE

----------------------------------------------------------------------------
(* The venue and the account.                                                *)

Tick == now < MaxTime /\ now' = now + 1
        /\ UNCHANGED <<trades, recorded, check, request, serving, scan, active>>

\* A trade of the last Overlap milliseconds shows up.
Trade(t, n) ==
    /\ t <= now /\ now - t <= Overlap /\ n = Cardinality({x \in trades : x[1] = t}) + 1
    /\ trades' = trades \union {<<t, n>>}
    /\ UNCHANGED <<now, recorded, check, request, serving, scan, active>>

Activity ==
    /\ active' = ~active
    /\ UNCHANGED <<now, trades, recorded, check, request, serving, scan>>

----------------------------------------------------------------------------
(* The scheduler.                                                            *)

\* request: only one with a higher priority replaces what is there.
Asked(reason) == Priority[reason] > Priority[request]
Ask(reason) == request' = IF Asked(reason) THEN reason ELSE request

\* queue_initial_baseline of a new account
QueueBaseline ==
    /\ check.baseline = "not_requested" /\ check.mark = -1 /\ Ask("initial_baseline")
    /\ check' = [check EXCEPT !.baseline = "queued", !.mark = -1, !.coverage = FALSE,
                             !.scan = NoScan]
    /\ UNCHANGED <<now, trades, recorded, serving, scan, active>>

\* resume_initial_baseline, when a run of the account is prepared
ResumeBaseline ==
    /\ check.baseline # "complete" /\ ~active /\ Ask("initial_baseline")
    /\ check' = IF check.succeeded THEN [check EXCEPT !.baseline = "queued"]
                ELSE [check EXCEPT !.baseline = "queued", !.mark = -1, !.coverage = FALSE,
                                   !.scan = NoScan]
    /\ UNCHANGED <<now, trades, recorded, serving, scan, active>>

\* A change of the campaign, the end of a session, the fallback of an active
\* account whose checkpoint is old.
Event(reason) ==
    /\ Asked(reason) /\ Ask(reason) /\ (reason = "active_fallback" => active)
    /\ UNCHANGED <<now, trades, recorded, check, serving, scan, active>>

\* run_due: an active-only request of a quiet account is dropped.
NeverForActive == request \in {"initial_baseline", "manual_audit", "final_session"}
MayRun == request \in {"initial_baseline", "manual_audit", "final_session"} \/ active
RunDue ==
    /\ request # "none" /\ serving["loop"].at = "none"
    /\ serving' = IF MayRun
               THEN [serving EXCEPT !["loop"] = [at |-> "locking", reason |-> request]] ELSE serving
    /\ request' = "none"
    /\ UNCHANGED <<now, trades, recorded, check, scan, active>>

\* refresh_now takes whatever request the account has after its own.
RefreshNow ==
    /\ "manual" \in Servers /\ serving["manual"].at = "none"
    /\ serving' = [serving EXCEPT !["manual"] =
                   [at |-> "locking", reason |-> IF Asked("manual_audit") THEN "manual_audit" ELSE request]]
    /\ request' = "none"
    /\ UNCHANGED <<now, trades, recorded, check, scan, active>>

----------------------------------------------------------------------------
(* One step of the scan.                                                     *)

\* begin: windows of at most MaxWindow, the oldest one first.
NewScan(start, end, covers) ==
    LET n == (end - start) \div MaxWindow + 1
        last(i) == start + i * MaxWindow - 1 IN
    [windows |-> [i \in 1..n |-> <<start + (i - 1) * MaxWindow, IF last(i) < end THEN last(i) ELSE end>>],
     covers |-> covers, truncated |-> FALSE]

\* _history_scan_start: from the watermark, a little earlier; without one
\* from the configured start of the account's history.
ScanStart == IF check.mark > Overlap THEN check.mark - Overlap ELSE 0
Covers    == check.mark <= 0 \/ check.coverage

\* The lock is taken, _mark_running; the source is restored or begun.
BeginStep(s) ==
    /\ serving[s].at = "locking" /\ \A o \in Servers : serving[o].at # "reading"
    /\ serving' = [serving EXCEPT ![s].at = "reading"]
    /\ scan' = IF check.scan.windows # <<>> THEN check.scan ELSE NewScan(ScanStart, now, Covers)
    /\ check' = [check EXCEPT !.baseline =
                   IF serving[s].reason = "initial_baseline" THEN "running" ELSE @]
    /\ UNCHANGED <<now, trades, recorded, request, active>>

\* fetch_page on rows that fill the page or not.
Window  == Head(scan.windows)
Rows    == {x \in trades : Window[1] <= x[1] /\ x[1] <= Window[2]}
Full    == Cardinality(Rows) >= PageSize
Splits  == Full /\ Window[1] < Window[2]
Halves  == LET middle == (Window[1] + Window[2]) \div 2 IN
           << <<Window[1], middle>>, <<middle + 1, Window[2]>> >>
Rest    == Tail(scan.windows)
Scanned == [scan EXCEPT !.windows = IF Splits THEN Halves \o Rest ELSE Rest,
                        !.truncated = @ \/ (Full /\ ~Splits)]
Fills   == IF Splits THEN {} ELSE Rows
Mark    == IF ~Splits /\ Window[2] > check.mark THEN Window[2] ELSE check.mark
More    == Scanned.windows # <<>>
Whole   == ~More /\ Scanned.covers /\ ~Scanned.truncated

\* step: fills and checkpoint, then _after_step of the scheduler.
Saved == [check EXCEPT !.mark = Mark, !.coverage = Whole, !.scan = Scanned]
AfterStep(reason) ==
    [Saved EXCEPT !.succeeded = TRUE, !.baseline =
        IF ~More /\ (reason = "initial_baseline" \/ @ = "running")
        THEN IF Whole THEN "complete" ELSE "pending" ELSE @]

StepSucceeds(s) ==
    /\ serving[s].at = "reading"
    /\ recorded' = recorded \union Fills
    /\ check' = AfterStep(serving[s].reason)
    /\ IF More THEN Ask(serving[s].reason) ELSE request' = request
    /\ serving' = [serving EXCEPT ![s] = NoTurn] /\ scan' = NoScan
    /\ UNCHANGED <<now, trades, active>>

\* A window stays in the scan until it was read.
WindowLost == [scan EXCEPT !.windows = Tail(@)]   \* taken out before it was read
Unread == scan

\* The request raises, and the step saves the scan before it raises too; or
\* the poll timeout cancels the step, which saves nothing.  Then _mark_failure.
StepFails(s, cancelled) ==
    /\ serving[s].at = "reading"
    /\ check' = [check EXCEPT
                   !.scan = IF cancelled THEN @ ELSE Unread,
                   !.baseline = IF serving[s].reason = "initial_baseline" THEN "pending" ELSE @]
    /\ serving' = [serving EXCEPT ![s] = NoTurn] /\ scan' = NoScan
    /\ UNCHANGED <<now, trades, recorded, request, active>>

\* The executor dies; of a step in progress nothing, the fills, or the fills
\* and the checkpoint are saved.  bootstrap asks for what is unfinished.
Die ==
    /\ LET reading == \E s \in Servers : serving[s].at = "reading" IN
       \E ledger, point \in BOOLEAN :
         /\ (point => ledger) /\ (ledger => reading)
         /\ recorded' = IF ledger THEN recorded \union Fills ELSE recorded
         /\ check' = IF point THEN Saved ELSE check
    /\ request' = CASE check'.baseline \in {"queued", "running"} -> "initial_baseline"
                    [] check'.baseline \notin {"queued", "running"} /\ active -> "active_fallback"
                    [] OTHER -> "none"
    /\ serving' = [s \in Servers |-> NoTurn] /\ scan' = NoScan
    /\ UNCHANGED <<now, trades, active>>

Reads == \E s \in Servers : BeginStep(s) \/ StepSucceeds(s) \/ \E cancelled \in BOOLEAN : StepFails(s, cancelled)

HistoryNext ==
    \/ Tick \/ Activity \/ QueueBaseline \/ ResumeBaseline \/ RunDue \/ RefreshNow \/ Die \/ Reads
    \/ \E t \in Clock, n \in 1..Burst : Trade(t, n)
    \/ \E r \in Occasions \union {"active_fallback"} : Event(r)

\* The loop runs, a step begins, and the venue answers now and then.
HistoryFairness ==
    /\ WF_historyVars(RunDue) /\ WF_historyVars(Event("active_fallback"))
    /\ SF_historyVars(\E s \in Servers : BeginStep(s))
    /\ SF_historyVars(\E s \in Servers : StepSucceeds(s))

HistorySpec == HistoryInit /\ [][HistoryNext]_historyVars /\ HistoryFairness

----------------------------------------------------------------------------
(* Properties.                                                               *)

\* The watermark is contiguous: every trade up to it that the venue shows is
\* in the ledger, but for the last Overlap milliseconds, over timeouts,
\* windows that are split, concurrent refreshes and restarts; the next scan
\* may begin there.
WatermarkIsContiguous ==
    \A x \in trades : x[1] + Overlap < check.mark => x \in recorded

\* The trades of an account that is active are counted.
Counted == trades = recorded \/ ~active
=============================================================================
