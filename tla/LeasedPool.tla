------------------------------ MODULE LeasedPool ------------------------------
(* The keyed pool of leased resources (private order streams, one for each    *)
(* account): one caller opens the resource of a key, outside of the lock, and  *)
(* the others wait for what comes of it and share it; a lease that nobody      *)
(* uses is discarded by whoever comes next, by the collector, or with the      *)
(* pool.                                                                       *)
(*                                                                             *)
(* Callers are threads.  What happens under the condition's lock is one step;  *)
(* opening and closing a resource are outside of it, and either may raise.     *)
EXTENDS Naturals, FiniteSets

CONSTANTS Leasers,     \* threads that take leases
          LeaseKeys,   \* account keys
          MaxOpens     \* bound: resources that are ever opened

ASSUME PoolAssumption ==
    /\ IsFiniteSet(Leasers) /\ LeaseKeys # {} /\ MaxOpens \in Nat

VARIABLES leases,      \* key -> its entry; resource 0: there is none
          opening,     \* keys somebody is opening a resource for
          poolClosed,
          leaser,      \* thread -> where it is
          alive,       \* resources that are open
          opened,      \* resources opened so far
          abandoned    \* history: keys whose opener raised before opening

poolVars == <<leases, opening, poolClosed, leaser, alive, opened, abandoned>>

Resources == 1..MaxOpens
NoLease   == [resource |-> 0, references |-> 0]
Outside   == [at |-> "out", key |-> CHOOSE k \in LeaseKeys : TRUE, mine |-> 0, stale |-> {}]
Waiting(t) == leaser[t].at \in {"asleep", "woken"}

PoolTypeOK ==
    /\ leases \in [LeaseKeys -> [resource : {0} \union Resources, references : Nat]]
    /\ opening \subseteq LeaseKeys /\ abandoned \subseteq LeaseKeys
    /\ poolClosed \in BOOLEAN /\ alive \subseteq Resources /\ opened \in 0..MaxOpens
    /\ leaser \in [Leasers -> [at : {"out", "asleep", "woken", "sweep", "open", "use"},
                               key : LeaseKeys, mine : {0} \union Resources,
                               stale : SUBSET Resources]]

PoolInit ==
    /\ leases = [k \in LeaseKeys |-> NoLease] /\ opening = {} /\ poolClosed = FALSE
    /\ leaser = [t \in Leasers |-> Outside] /\ alive = {} /\ opened = 0 /\ abandoned = {}

\* The leases _discard_idle_locked may find old enough, and their removal.
DiscardableInUse == {k \in LeaseKeys : leases[k].resource # 0}   \* references forgotten
Discardable == {k \in LeaseKeys : leases[k].resource # 0 /\ leases[k].references = 0}
Without(keys) == [k \in LeaseKeys |-> IF k \in keys THEN NoLease ELSE leases[k]]
ResourcesOf(keys) == {leases[k].resource : k \in keys} \ {0}

\* The condition is not notified.
NotNotified(threads) == threads

\* notify_all
Notified(threads) ==
    [t \in Leasers |-> IF threads[t].at = "asleep" THEN [threads[t] EXCEPT !.at = "woken"]
                       ELSE threads[t]]

\* One turn of the loop of _acquire, on the pool's entries `entries'.  When
\* the pool is closed it raises, and what it had to close is forgotten.
Turn(t, key, entries, stale) ==
    LET goes(at, mine) == leaser' = [leaser EXCEPT ![t] = [at |-> at, key |-> key, mine |-> mine,
                                                           stale |-> stale]] IN
    \/ /\ poolClosed /\ leaser' = [leaser EXCEPT ![t] = Outside]
       /\ leases' = entries /\ opening' = opening
    \/ /\ ~poolClosed /\ entries[key].resource # 0
       /\ leases' = [entries EXCEPT ![key].references = @ + 1]
       /\ goes("sweep", entries[key].resource) /\ opening' = opening
    \/ /\ ~poolClosed /\ entries[key].resource = 0 /\ key \notin opening
       /\ opening' = opening \union {key} /\ goes("sweep", 0) /\ leases' = entries
    \/ /\ ~poolClosed /\ entries[key].resource = 0 /\ key \in opening
       /\ goes("asleep", 0) /\ opening' = opening /\ leases' = entries

Lease(t, key) ==
    /\ leaser[t].at = "out" /\ ~poolClosed
    /\ \E old \in SUBSET Discardable : Turn(t, key, Without(old), ResourcesOf(old))
    /\ UNCHANGED <<poolClosed, alive, opened, abandoned>>

Retry(t) ==
    /\ leaser[t].at = "woken" /\ Turn(t, leaser[t].key, leases, leaser[t].stale)
    /\ UNCHANGED <<poolClosed, alive, opened, abandoned>>

\* The stale resources it took out are closed before its own is used.
Sweep(t) ==
    /\ leaser[t].at = "sweep"
    /\ alive' = alive \ leaser[t].stale
    /\ leaser' = [leaser EXCEPT ![t].stale = {},
                                ![t].at = IF leaser[t].mine = 0 THEN "open" ELSE "use"]
    /\ UNCHANGED <<leases, opening, poolClosed, opened, abandoned>>

\* The close of a stale resource raises out of _acquire: the others it took
\* out stay open, its own lease stays counted, and a key it was to open stays
\* marked as being opened.
SweepRaises(t) ==
    /\ leaser[t].at = "sweep" /\ leaser[t].stale # {}
    /\ \E done \in SUBSET leaser[t].stale : alive' = alive \ done
    /\ abandoned' = IF leaser[t].mine = 0 THEN abandoned \union {leaser[t].key} ELSE abandoned
    /\ leaser' = [leaser EXCEPT ![t] = Outside]
    /\ UNCHANGED <<leases, opening, poolClosed, opened>>

\* The resource is there; a pool that closed meanwhile does not take it.
OpenSucceeds(t) ==
    /\ leaser[t].at = "open" /\ opened < MaxOpens
    /\ opened' = opened + 1 /\ opening' = opening \ {leaser[t].key}
    /\ IF poolClosed
       THEN /\ UNCHANGED <<leases, alive>>
            /\ leaser' = Notified([leaser EXCEPT ![t] = Outside])
       ELSE /\ leases' = [leases EXCEPT ![leaser[t].key] = [resource |-> opened', references |-> 1]]
            /\ alive' = alive \union {opened'}
            /\ leaser' = Notified([leaser EXCEPT ![t] =
                   [at |-> "use", key |-> leaser[t].key, mine |-> opened', stale |-> {}]])
    /\ UNCHANGED <<poolClosed, abandoned>>

OpenFails(t) ==
    /\ leaser[t].at = "open"
    /\ opening' = opening \ {leaser[t].key}
    /\ leaser' = Notified([leaser EXCEPT ![t] = Outside])
    /\ UNCHANGED <<leases, poolClosed, alive, opened, abandoned>>

\* _release: the key's entry, if it is still there, has one user less.
Release(t) ==
    LET key == leaser[t].key IN
    /\ leaser[t].at = "use"
    /\ leases' = IF leases[key].resource = 0 THEN leases
                 ELSE [leases EXCEPT ![key].references = IF @ = 0 THEN 0 ELSE @ - 1]
    /\ leaser' = [leaser EXCEPT ![t] = Outside]
    /\ UNCHANGED <<opening, poolClosed, alive, opened, abandoned>>

Collect ==
    /\ \E old \in SUBSET Discardable \ {{}} :
         leases' = Without(old) /\ alive' = alive \ ResourcesOf(old)
    /\ UNCHANGED <<opening, poolClosed, leaser, opened, abandoned>>

ClosePool ==
    /\ ~poolClosed /\ poolClosed' = TRUE
    /\ leases' = Without(LeaseKeys) /\ alive' = alive \ ResourcesOf(LeaseKeys)
    /\ leaser' = Notified(leaser)
    /\ UNCHANGED <<opening, opened, abandoned>>

Served(t) == Sweep(t) \/ OpenSucceeds(t) \/ OpenFails(t) \/ Release(t)

PoolNext ==
    \/ \E t \in Leasers : Served(t) \/ Retry(t) \/ SweepRaises(t)
    \/ \E t \in Leasers, key \in LeaseKeys : Lease(t, key)
    \/ Collect \/ ClosePool

\* Opens and closes return, users finish, and a woken thread gets the lock in
\* its turn and not always after somebody else.
PoolFairness ==
    \A t \in Leasers :
        WF_poolVars(Served(t)) /\ SF_poolVars(Retry(t) /\ ~Waiting(t)')

PoolSpec == PoolInit /\ [][PoolNext]_poolVars /\ PoolFairness

----------------------------------------------------------------------------
(* Properties.                                                               *)

\* Until the pool is closed, whoever uses a key's resource uses one that is
\* open, and the same one as everybody else who uses that key: no sweep, no
\* collector and no release of another user takes it away, and no second
\* stream is started beside it.
UsersShareOneOpen ==
    ~poolClosed =>
        \A t, u \in Leasers :
            /\ leaser[t].at = "use" => leaser[t].mine \in alive
            /\ leaser[t].at = "use" /\ leaser[u].at = "use" /\ leaser[t].key = leaser[u].key
                  => leaser[t].mine = leaser[u].mine

\* Who waits for another's open gets its outcome: the resource, the chance to
\* open it, or the closing of the pool.  The one exception is a key whose
\* opener raised while it closed stale resources: nobody will ever open it.
WaiterReturns(t) == Waiting(t) ~> (~Waiting(t) \/ leaser[t].key \in abandoned)
=============================================================================
