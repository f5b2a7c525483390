---------------------------- MODULE MCBetaCycle ----------------------------
(***************************************************************************)
(* A small instance of a beta session that has to end, and beside it what  *)
(* is read of the venue: the depth of a symbol, the rows of an order, the  *)
(* hub every actor shares, the collector of prices, and the history of an  *)
(* account's trades.  They share no state: the initial state picks the one *)
(* that runs, and the others rest.  The history has three milliseconds, of *)
(* which a window holds two, one row to a page, so that every window with  *)
(* a trade comes back full and is split, and a trade that shows up one     *)
(* millisecond late.                                                       *)
(***************************************************************************)
EXTENDS BetaCycle, DepthStream, OrderStream, MarketHub, TickCollector, HistorySync

VARIABLE part

streamVars == <<depthVars, rowVars, hubVars, collectorVars>>

PartsInit ==
    /\ part \in {"session", "depth", "orders", "hub", "ticks", "history"}
    /\ Init /\ DepthInit /\ OrderInit /\ HubInit /\ CollectorInit /\ HistoryInit

PartsNext ==
    /\ part' = part
    /\ \/ part = "session" /\ Next /\ UNCHANGED <<streamVars, historyVars>>
       \/ part = "depth" /\ DepthNext /\ UNCHANGED <<vars, rowVars, hubVars, collectorVars, historyVars>>
       \/ part = "orders" /\ OrderNext /\ UNCHANGED <<vars, depthVars, hubVars, collectorVars, historyVars>>
       \/ part = "hub" /\ HubNext /\ UNCHANGED <<vars, depthVars, rowVars, collectorVars, historyVars>>
       \/ part = "ticks" /\ CollectorNext /\ UNCHANGED <<vars, depthVars, rowVars, hubVars, historyVars>>
       \/ part = "history" /\ HistoryNext /\ UNCHANGED <<vars, streamVars>>

\* The fairness of the session and of the history; nothing is assumed of the streams.
PartsSpec ==
    /\ PartsInit /\ [][PartsNext]_<<part, vars, streamVars, historyVars>>
    /\ WF_historyVars(part = "history" /\ RunDue)
    /\ WF_historyVars(part = "history" /\ Event("active_fallback"))
    /\ SF_historyVars(part = "history" /\ \E s \in Servers : BeginStep(s))
    /\ SF_historyVars(part = "history" /\ \E s \in Servers : StepSucceeds(s))
    /\ WF_vars(part = "session" /\ Coordinator)
    /\ \A l \in Lanes : WF_vars(part = "session" /\ LaneEnds(l))

\* A session that runs comes to its end, whatever the legs report and whatever
\* fails (the waits of coordinator and pool in pair.py).  The trades of an account
\* that stays active are counted in the end, whatever fails or restarts on the
\* way, if the venue answers now and then (trade_history_scheduler.py).
SettlesInTheEnd ==
    []<>((part = "session" => pc = "done") /\ (part = "history" => Counted))

\* Every stream has its types.  What is served is true and recent: the book of
\* a moment the exchange had, an order's row of this connection, a copy no
\* older than its two ages, a sample of prices that were heard.
StreamsAreTrue ==
    /\ DepthTypeOK /\ BookIsTrue /\ ClosedServesNothing
    /\ OrderTypeOK /\ RowIsOfThisConnection /\ AnswerIsRecent
    /\ HubTypeOK /\ ServedIsRecent
    /\ CollectorTypeOK /\ SamplesAreWhole /\ SamplesAreFresh

\* The checkpoint is typed and its watermark is contiguous.
TypedAndContiguous == HistoryTypeOK /\ WatermarkIsContiguous
=============================================================================
