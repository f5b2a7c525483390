------------------------------ MODULE OrderStream ------------------------------
(* WeexPrivateOrderStream of src/src/weex_cli/live_websocket and the read of an *)
(* order of the live venue that uses it: what was pushed for an order on this   *)
(* connection, and REST when nothing was.                                       *)
(*                                                                              *)
(* An order is the number of changes it has gone through.  Its row is kept      *)
(* under the exchange's id and, when the push has it, under the client's.       *)
EXTENDS Integers, Sequences

CONSTANTS MaxChanges,        \* bound: changes of the order
          MaxLag             \* how many changes a REST answer may be behind

ASSUME OrderAssumption == MaxChanges \in Nat /\ MaxLag \in Nat

VARIABLES changes,           \* the exchange: changes of the order so far
          frames,            \* pushes on their way, [ids, row]
          byId, byClient,    \* _orders_by_id, _orders_by_client_id: a row or none
          online,            \* _connected
          since,             \* changes there were when the connection was made
          missed,            \* a push of this connection was lost
          answer             \* what fetch_order last answered: how many changes it is
                             \* behind, how many pushes were on their way

rowVars == <<changes, frames, byId, byClient, online, since, missed, answer>>

NoRow == -1
Ids == {"id", "client"}

Change ==
    /\ changes < MaxChanges /\ changes' = changes + 1
    \* a connection pushes it, with one id or both, or loses the push
    /\ \/ /\ online
          /\ \E ids \in {{"id"}, Ids} :
               frames' = Append(frames, [ids |-> ids, row |-> changes'])
          /\ UNCHANGED missed
       \/ missed' = online /\ UNCHANGED frames
    /\ UNCHANGED <<byId, byClient, online, since, answer>>

\* _run
GoOnline ==
    /\ ~online /\ online' = TRUE /\ since' = changes /\ missed' = FALSE
    /\ UNCHANGED <<changes, frames, byId, byClient, answer>>

\* Mutant: the rows outlive their connection.
RowsKept == UNCHANGED <<byId, byClient>>
RowsCleared == byId' = NoRow /\ byClient' = NoRow

\* _mark_disconnected, after an exception and by close()
GoOffline ==
    /\ online /\ online' = FALSE /\ frames' = <<>> /\ RowsCleared
    /\ UNCHANGED <<changes, since, missed, answer>>

\* handle_message
TakeFrame ==
    /\ online /\ frames # <<>>
    /\ byId' = IF "id" \in Head(frames).ids THEN Head(frames).row ELSE byId
    /\ byClient' = IF "client" \in Head(frames).ids THEN Head(frames).row ELSE byClient
    /\ frames' = Tail(frames)
    /\ UNCHANGED <<changes, online, since, missed, answer>>

\* order_update
Pushed == IF byId # NoRow THEN byId ELSE byClient

\* fetch_order: what was pushed, else what REST says
FetchOrder ==
    /\ \/ /\ online /\ Pushed # NoRow
          /\ answer' = [behind |-> changes - Pushed, waiting |-> Len(frames), lost |-> missed]
       \/ /\ ~(online /\ Pushed # NoRow)
          /\ \E lag \in 0..MaxLag :
               /\ lag <= changes
               /\ answer' = [behind |-> lag, waiting |-> 0, lost |-> FALSE]
    /\ UNCHANGED <<changes, frames, byId, byClient, online, since, missed>>

OrderInit ==
    /\ changes = 0 /\ frames = <<>> /\ byId = NoRow /\ byClient = NoRow
    /\ online = FALSE /\ since = 0 /\ missed = FALSE
    /\ answer = [behind |-> 0, waiting |-> 0, lost |-> FALSE]

OrderNext == Change \/ GoOnline \/ GoOffline \/ TakeFrame \/ FetchOrder

OrderSpec == OrderInit /\ [][OrderNext]_rowVars

----------------------------------------------------------------------------
(* Properties.                                                                *)

OrderTypeOK ==
    /\ changes \in 0..MaxChanges /\ byId \in -1..MaxChanges /\ byClient \in -1..MaxChanges
    /\ online \in BOOLEAN /\ missed \in BOOLEAN /\ answer.behind \in 0..MaxChanges
    /\ \A i \in DOMAIN frames : frames[i].row \in 1..changes

\* A pushed row is never from before its connection: what changed while there
\* was none is asked of REST.
RowIsOfThisConnection == online /\ Pushed # NoRow => Pushed > since

\* An answer is behind the order by the pushes that were on their way, or by
\* what REST is behind.  Only a push that a connection lost without breaking
\* makes it stay behind, as REST is not asked while there is a row.
AnswerIsRecent ==
    ~answer.lost => answer.behind <= MaxLag \/ answer.behind <= answer.waiting
=============================================================================
