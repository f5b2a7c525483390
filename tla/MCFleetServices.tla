---------------------------- MODULE MCFleetServices ----------------------------
(***************************************************************************)
(* Small instances of three services of the control centre, side by side   *)
(* in one model: the paired runtime of one account, the pool of private    *)
(* streams and the journal's writer.  They share no state: the initial     *)
(* state picks the one that runs, and the others rest.                     *)
(***************************************************************************)
EXTENDS PairedRuntime, LeasedPool, WriteCoordinator, TLC

CONSTANTS t1, t2, k1, k2, p1, p2, m1

VARIABLE service

vars == <<service, pairedVars, poolVars, writerVars>>

\* A round has a turnover of 64: four legs of 16.
OneRound == {64}

\* Both legs of a campaign publish.
OneMonitored == p1 :> m1 @@ p2 :> m1

Init == service \in {"paired", "pool", "writer"} /\ PairedInit /\ PoolInit /\ WriterInit

Next ==
    /\ service' = service
    /\ \/ service = "paired" /\ PairedNext /\ UNCHANGED <<poolVars, writerVars>>
       \/ service = "pool" /\ PoolNext /\ UNCHANGED <<pairedVars, writerVars>>
       \/ service = "writer" /\ WriterNext /\ UNCHANGED <<pairedVars, poolVars>>

\* The fairness of each service, for the one that runs.
Fairness ==
    /\ WF_pairedVars(service = "paired" /\ PollStep)
    /\ SF_pairedVars(service = "paired" /\ Poll("poll"))
    /\ SF_pairedVars(service = "paired" /\ CloseDue)
    /\ WF_pairedVars(service = "paired" /\ RoundPauseOver)
    /\ \A t \in Leasers : /\ WF_poolVars(service = "pool" /\ Served(t))
                          /\ SF_poolVars(service = "pool" /\ Retry(t) /\ ~Waiting(t)')
    /\ WF_writerVars(service = "writer" /\ WriterStep)

Spec == Init /\ [][Next]_vars /\ Fairness

\* The states of the pool and of the writer have their types, the users of a
\* key share one open stream, and the journal of the paired cycles is sound: no
\* cycle stands on one whose outcome is in doubt, and it claims the fills that
\* are made.
ServicesAreSound ==
    /\ PoolTypeOK /\ WriterTypeOK
    /\ UsersShareOneOpen /\ JournalIsSound

\* The state of the paired runtime has its type, and no cycle is planned that
\* would trade beyond the target.
TypedAndWithinTarget == []PairedTypeOK /\ NeverPastTarget

\* Nobody who waits for a service waits for ever: a pair that is held for its
\* close, a thread for another's opening of a stream, a publisher for the
\* commit of a critical write.  The threads are alike, and so are the
\* publishers: one of each stands for all.
NobodyIsStuck == HoldingEnds /\ WaiterReturns(t1) /\ CriticalReturns(p1)
=============================================================================
