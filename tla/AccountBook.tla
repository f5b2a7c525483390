---------------------------- MODULE AccountBook ----------------------------
(***************************************************************************)
(* The accounts of the control plane, the strategies they are bound to and *)
(* the vault of their keys (fleet_api/services, fleet_api/accounts,        *)
(* fleet_api/auth), with the launch previews a binding authorizes.         *)
(*                                                                         *)
(* An account is one row, and every handler writes it whole: it reads the  *)
(* row, computes a new one and replaces it.  Handlers of the event loop    *)
(* follow one another; changes of a binding run in a thread under the      *)
(* campaign manager's lock; log readers and strategy deletion run in the   *)
(* thread pool, and a launch in a thread of its own.  A handler is the     *)
(* read that starts it and the writes that end it.  A row keeps a copy of  *)
(* its strategy, here that copy's version.                                 *)
(***************************************************************************)
EXTENDS Naturals, FiniteSets, TLC

CONSTANTS
    Holders, HolderOf,      \* account instances, and the user each belongs to
    Strategies, MakerOf,    \* strategies, and the user who makes each
    Later,                  \* those not made yet at first
    Secrets,                \* credentials an account may be given
    MaxVersion,             \* bound: versions of a strategy
    MaxReboots,             \* bound: restarts of the control plane
    MaxCalls,               \* bound: calls that are begun
    MaxBusy,                \* bound: calls under way at a time
    Stormy,                 \* bound: accounts whose state moves by itself
    Nothing

ASSUME BookAssumption == {MaxVersion, MaxReboots, MaxCalls, MaxBusy} \subseteq Nat

VARIABLES
    rows,       \* the accounts: [strategy, version, state, tail]
    catalog,    \* the version of each strategy there is
    vault,      \* the credentials of each account that has some
    preview,    \* the launch of an account: [strategy, version, state]
    desk,       \* what the event loop is in the middle of
    binder,     \* what the thread that changes bindings is in the middle of
    reader,     \* what a thread of the pool is in the middle of
    launch,     \* what the launch thread is in the middle of
    unused,     \* ids not given yet; they are random, none comes back
    outdated,   \* accounts last written by a call that overlapped another
    torn,       \* accounts whose change of credentials was cut short or undone
    patched,    \* accounts bound anew, since the last start was asked for, by
                \* what retires no preview
    calls, reboots

bookVars == <<rows, catalog, vault, preview, desk, binder, reader, launch, unused,
              outdated, torn, patched, calls, reboots>>

Having(f, k, v) == (k :> v) @@ f
Without(f, k)   == [x \in DOMAIN f \ {k} |-> f[x]]

\* Mutant: a strategy is looked up by its id alone.
MayBindAny(a, s) == s \in DOMAIN catalog
\* What a user sees: the rows and strategies that carry his name.
MayBind(a, s) == s \in DOMAIN catalog /\ MakerOf[s] = HolderOf[a]

BoundTo(s) == {a \in DOMAIN rows : rows[a].strategy = s}
\* A binding changes only at rest, and so does a key unless it mends an error.
AtRest(a) == rows[a].state = "stopped"
Current(a) == rows[a].strategy \in DOMAIN catalog /\ rows[a].version = catalog[rows[a].strategy]

\* A row written back over what another call made of it, or with a strategy
\* that has changed since it was looked up.
Noted(a, read, new) ==
    IF a \in DOMAIN rows /\ rows[a] = read
       /\ (new.strategy # read.strategy =>
             new.strategy \in DOMAIN catalog /\ new.version = catalog[new.strategy])
    THEN outdated ELSE outdated \cup {a}

\* Accounts a write gives back credentials they no longer had.
GivenBack(read) == {a \in DOMAIN read \cap DOMAIN rows : rows[a].tail # read[a].tail}

\* A call begins; how many do, and how many are under way, is bounded.
Begins ==
    /\ calls < MaxCalls /\ calls' = calls + 1
    /\ Cardinality({who \in 1 .. 4 : <<desk, binder, reader, launch>>[who] # Nothing}) < MaxBusy

-----------------------------------------------------------------------------
(* The event loop                                                          *)

Secret(a) == IF a \in DOMAIN vault THEN vault[a] ELSE Nothing
Bound(a, s, state, k) == [strategy |-> s, version |-> catalog[s], state |-> state, tail |-> k]

\* What update_instance makes of a row.
Reconfigured(a, s, k) ==
    IF s = rows[a].strategy THEN [rows[a] EXCEPT !.tail = k]
    ELSE Bound(a, s, rows[a].state, k)

ConfigureReads(a, s, k) ==
    /\ Begins
    /\ desk = Nothing /\ a \in DOMAIN rows
    /\ \/ AtRest(a) /\ (s = rows[a].strategy \/ MayBind(a, s))
       \/ rows[a].state = "error" /\ s = rows[a].strategy
    /\ desk' = [do |-> IF k = rows[a].tail THEN "write" ELSE "store", account |-> a,
                read |-> rows[a], new |-> Reconfigured(a, s, k), was |-> Secret(a)]
    /\ UNCHANGED <<rows, catalog, vault, preview, binder, reader, launch, unused,
                   outdated, torn, patched, reboots>>

\* Telemetry, actions, failures and refreshes: a row read and replaced within one
\* turn of the event loop, while the threads run on.
StateReads(a, state) ==
    /\ Begins
    /\ desk = Nothing /\ a \in DOMAIN rows \cap Stormy /\ state # rows[a].state
    /\ desk' = [do |-> "write", account |-> a, read |-> rows[a],
                new |-> [rows[a] EXCEPT !.state = state], was |-> Secret(a)]
    /\ UNCHANGED <<rows, catalog, vault, preview, binder, reader, launch, unused,
                   outdated, torn, patched, reboots>>

\* The vault before the row.
DeskStores ==
    /\ desk # Nothing /\ desk.do = "store"
    /\ vault' = Having(vault, desk.account, desk.new.tail)
    /\ desk' = [desk EXCEPT !.do = "write"]
    /\ UNCHANGED <<rows, catalog, preview, binder, reader, launch, unused,
                   outdated, torn, patched, calls, reboots>>

DeskWrites ==
    /\ desk # Nothing /\ desk.do = "write"
    /\ rows' = [rows EXCEPT ![desk.account] = desk.new]
    /\ outdated' = Noted(desk.account, desk.read, desk.new)
    /\ torn' = torn \cup GivenBack(desk.account :> desk.read)
    /\ patched' = IF desk.new.strategy # desk.read.strategy
                  THEN patched \cup {desk.account} ELSE patched
    /\ desk' = Nothing
    /\ UNCHANGED <<catalog, vault, preview, binder, reader, launch, unused, calls, reboots>>

\* Mutant: the credentials stay as they were stored.
KeptSecrets == vault
Restored ==
    IF desk.was = Nothing THEN Without(vault, desk.account)
    ELSE Having(vault, desk.account, desk.was)

\* The row cannot be replaced: the credentials are put back.
DeskFails ==
    /\ desk # Nothing /\ desk.do = "write"
    /\ vault' = Restored
    /\ desk' = Nothing
    /\ UNCHANGED <<rows, catalog, preview, binder, reader, launch, unused,
                   outdated, torn, patched, calls, reboots>>

CreateReads(a, s, k) ==
    /\ Begins
    /\ desk = Nothing /\ a \in unused /\ MayBind(a, s)
    /\ desk' = [do |-> "insert", account |-> a, new |-> Bound(a, s, "stopped", k)]
    /\ unused' = unused \ {a}
    /\ UNCHANGED <<rows, catalog, vault, preview, binder, reader, launch,
                   outdated, torn, patched, reboots>>

CreateInserts ==
    /\ desk # Nothing /\ desk.do = "insert"
    /\ rows' = Having(rows, desk.account, desk.new)
    /\ outdated' = IF catalog \in [{desk.new.strategy} \cup DOMAIN catalog -> Nat]
                      /\ catalog[desk.new.strategy] = desk.new.version
                   THEN outdated ELSE outdated \cup {desk.account}
    /\ desk' = [desk EXCEPT !.do = "keep"]
    /\ UNCHANGED <<catalog, vault, preview, binder, reader, launch, unused, torn, patched, calls, reboots>>

\* Its credentials are kept, or the account is taken back.
CreateKeeps ==
    /\ desk # Nothing /\ desk.do = "keep"
    /\ \/ vault' = Having(vault, desk.account, desk.new.tail) /\ UNCHANGED rows
       \/ rows' = Without(rows, desk.account) /\ UNCHANGED vault
    /\ desk' = Nothing
    /\ UNCHANGED <<catalog, preview, binder, reader, launch, unused, outdated, torn,
                   patched, calls, reboots>>

\* No account goes while it has a launch, previewed or under way.
Deletable(a) == a \in DOMAIN rows /\ a \notin DOMAIN preview

\* The row takes its credentials with it.
Delete(a) ==
    /\ Begins
    /\ desk = Nothing /\ Deletable(a) /\ AtRest(a)
    /\ rows' = Without(rows, a) /\ vault' = Without(vault, a)
    /\ UNCHANGED <<catalog, preview, desk, binder, reader, launch, unused, outdated,
                   torn, patched, reboots>>

-----------------------------------------------------------------------------
(* The thread pool                                                         *)

\* A reader of the log marks it as read: it writes back the row it had.
LogReads(a) ==
    /\ Begins
    /\ reader = Nothing /\ a \in DOMAIN rows
    /\ reader' = [do |-> "mark", account |-> a, read |-> rows[a]]
    /\ UNCHANGED <<rows, catalog, vault, preview, desk, binder, launch, unused,
                   outdated, torn, patched, reboots>>

LogMarks ==
    /\ reader # Nothing /\ reader.do = "mark"
    /\ IF reader.account \in DOMAIN rows
       THEN /\ rows' = [rows EXCEPT ![reader.account] = reader.read]
            /\ outdated' = Noted(reader.account, reader.read, reader.read)
            /\ torn' = torn \cup GivenBack(reader.account :> reader.read)
       ELSE UNCHANGED <<rows, outdated, torn>>
    /\ reader' = Nothing
    /\ UNCHANGED <<catalog, vault, preview, desk, binder, launch, unused, patched, calls, reboots>>

\* A strategy is made from nothing or as the copy of another, with a random id.
Inserted(s) == Having(catalog, s, 1)

MakeStrategy(s) ==
    /\ Begins
    /\ s \in unused
    /\ catalog' = Inserted(s)
    /\ unused' = unused \ {s}
    /\ UNCHANGED <<rows, vault, preview, desk, binder, reader, launch, outdated, torn,
                   patched, reboots>>

\* Mutant: a strategy may go whatever is bound to it.
DroppableAnyway(s) == s \in DOMAIN catalog
Droppable(s) == s \in DOMAIN catalog /\ BoundTo(s) = {}

DropReads(s) ==
    /\ Begins
    /\ reader = Nothing /\ Droppable(s)
    /\ reader' = [do |-> "drop", strategy |-> s, bound |-> BoundTo(s)]
    /\ UNCHANGED <<rows, catalog, vault, preview, desk, binder, launch, unused,
                   outdated, torn, patched, reboots>>

DropWrites ==
    /\ reader # Nothing /\ reader.do = "drop"
    /\ catalog' = Without(catalog, reader.strategy)
    /\ outdated' = outdated \cup (BoundTo(reader.strategy) \ reader.bound)
    /\ reader' = Nothing
    /\ UNCHANGED <<rows, vault, preview, desk, binder, launch, unused, torn, patched, calls, reboots>>

-----------------------------------------------------------------------------
(* Changes of a binding, under the lock of the campaign manager            *)

Planned(a) == a \in DOMAIN preview /\ preview[a].state = "planned"
UnderWay(a) == a \in DOMAIN preview /\ preview[a].state = "executing"

\* The route lists the accounts of the strategy before the thread has the lock.
UpdateAsks(s) ==
    /\ Begins
    /\ binder = Nothing /\ s \in DOMAIN catalog /\ catalog[s] < MaxVersion
    /\ binder' = [do |-> "update", strategy |-> s, affected |-> BoundTo(s)]
    /\ UNCHANGED <<rows, catalog, vault, preview, desk, reader, launch, unused,
                   outdated, torn, patched, reboots>>

AssignAsks(s, a) ==
    /\ Begins
    /\ binder = Nothing /\ a \in DOMAIN rows /\ MayBind(a, s)
    /\ binder' = [do |-> "assign", strategy |-> s, affected |-> {a}]
    /\ UNCHANGED <<rows, catalog, vault, preview, desk, reader, launch, unused,
                   outdated, torn, patched, reboots>>

\* Whose rows a change writes: those it finds, or those it is for.
Whose == IF binder.do = "update" THEN BoundTo(binder.strategy) ELSE binder.affected

\* Refused while one of the executions is under way, or an account not at rest;
\* else the rows to write, as they are read now.
BinderReads ==
    LET s == binder.strategy
        fits == /\ \A a \in binder.affected : ~UnderWay(a)
                /\ s \in DOMAIN catalog /\ Whose \subseteq DOMAIN rows
                /\ \A a \in Whose : AtRest(a)
    IN  /\ binder # Nothing /\ binder.do # "commit"
        /\ binder' = IF fits
                     THEN [do |-> "commit", strategy |-> s, affected |-> binder.affected,
                           version |-> IF binder.do = "update" THEN catalog[s] + 1 ELSE catalog[s],
                           read |-> [a \in Whose |-> rows[a]]]
                     ELSE Nothing
        /\ UNCHANGED <<rows, catalog, vault, preview, desk, reader, launch, unused,
                       outdated, torn, patched, calls, reboots>>

\* Mutant: the strategy alone is written.
WithoutRows(new) == rows
Projected(new) == new @@ rows

\* One transaction, which fails when a row is gone; then the launches that were
\* previewed for the old binding are retired.
BinderCommits ==
    LET s == binder.strategy
        new == [a \in DOMAIN binder.read |->
                  [binder.read[a] EXCEPT !.strategy = s, !.version = binder.version]]
        fits == DOMAIN new \subseteq DOMAIN rows
        updated == s \in DOMAIN catalog /\ catalog[s] # binder.version
    IN  /\ binder # Nothing /\ binder.do = "commit"
        /\ IF fits
           THEN /\ rows' = Projected(new)
                /\ catalog' = IF updated THEN [catalog EXCEPT ![s] = binder.version] ELSE catalog
                /\ outdated' = (outdated \ DOMAIN new)
                               \cup {a \in DOMAIN new : rows[a] # binder.read[a]}
                               \cup (IF updated THEN BoundTo(s) \ DOMAIN new ELSE {})
                               \cup (IF s \notin DOMAIN catalog THEN DOMAIN new ELSE {})
                /\ torn' = torn \cup GivenBack(binder.read)
                /\ patched' = patched \cup (DOMAIN new \ binder.affected)
                /\ preview' = [a \in {b \in DOMAIN preview : ~(b \in binder.affected /\ Planned(b))}
                                 |-> preview[a]]
           ELSE UNCHANGED <<rows, catalog, outdated, torn, patched, preview>>
        /\ binder' = Nothing
        /\ UNCHANGED <<vault, desk, reader, launch, unused, calls, reboots>>

-----------------------------------------------------------------------------
(* Launches                                                                *)

Matches(p, row) == p.strategy = row.strategy /\ p.version = row.version

\* A preview that no longer matches its account is retired; any other stands.
PreviewReads(a) ==
    /\ Begins
    /\ launch = Nothing /\ a \in DOMAIN rows /\ ~UnderWay(a)
    /\ Planned(a) => ~Matches(preview[a], rows[a])
    /\ preview' = Without(preview, a)
    /\ launch' = [do |-> "prepared", account |-> a]
    /\ UNCHANGED <<rows, catalog, vault, desk, binder, reader, unused, outdated, torn,
                   patched, reboots>>

\* The exchange holds nothing for the account: the row is read again and planned for.
PreviewPlans ==
    /\ launch # Nothing /\ launch.do = "prepared"
    /\ launch' = IF launch.account \in DOMAIN rows
                 THEN [do |-> "preview", account |-> launch.account, read |-> rows[launch.account]]
                 ELSE Nothing
    /\ UNCHANGED <<rows, catalog, vault, preview, desk, binder, reader, unused, outdated,
                   torn, patched, calls, reboots>>

\* The thread has looked at the account; the preview is for the row read before.
PreviewCreates ==
    /\ launch # Nothing /\ launch.do = "preview"
    /\ preview' = Having(preview, launch.account,
                         [strategy |-> launch.read.strategy, version |-> launch.read.version,
                          state |-> "planned"])
    /\ launch' = Nothing
    /\ UNCHANGED <<rows, catalog, vault, desk, binder, reader, unused, outdated, torn,
                   patched, calls, reboots>>

LaunchReads(a) ==
    /\ Begins
    /\ launch = Nothing /\ a \in DOMAIN rows /\ Planned(a)
    /\ launch' = [do |-> "start", account |-> a, read |-> rows[a]]
    /\ patched' = patched \ {a}
    /\ UNCHANGED <<rows, catalog, vault, preview, desk, binder, reader, unused,
                   outdated, torn, reboots>>

\* Mutant: whatever was previewed may start.
StartableAnyway(p, row) == TRUE
Startable(p, row) == Matches(p, row)

\* The preview has to be the one of the account as it was read.
StartChecks ==
    LET a == launch.account
    IN  /\ launch # Nothing /\ launch.do = "start"
        /\ launch' = IF Planned(a) /\ Startable(preview[a], launch.read)
                     THEN [launch EXCEPT !.do = "claim"] ELSE Nothing
        /\ UNCHANGED <<rows, catalog, vault, preview, desk, binder, reader, unused,
                       outdated, torn, patched, calls, reboots>>

LockFree == binder # Nothing => binder.do # "commit"

\* claim_execution, under the manager's lock.
StartClaims ==
    LET a == launch.account
    IN  /\ launch # Nothing /\ launch.do = "claim" /\ LockFree
        /\ preview' = IF Planned(a) THEN [preview EXCEPT ![a].state = "executing"] ELSE preview
        /\ launch' = Nothing
        /\ UNCHANGED <<rows, catalog, vault, desk, binder, reader, unused, outdated, torn,
                       patched, calls, reboots>>

RunEnds(a) ==
    /\ UnderWay(a)
    /\ preview' = Without(preview, a)
    /\ UNCHANGED <<rows, catalog, vault, desk, binder, reader, launch, unused, outdated,
                   torn, patched, calls, reboots>>

-----------------------------------------------------------------------------
(* A restart                                                               *)

Missing == {rows[a].strategy : a \in DOMAIN rows} \ DOMAIN catalog
\* Mutant: a strategy that is missing stays so.
NotRecovered == {[s \in {} |-> 0]}
\* A strategy some account has lost is made again from the copy of one of them.
Recovered == {[s \in Missing |-> rows[w[s]].version] :
                w \in {v \in [Missing -> DOMAIN rows] : \A s \in Missing : v[s] \in BoundTo(s)}}

\* Every account gets the strategy as it is now, and stale previews are retired.
Reboot ==
    /\ reboots < MaxReboots
    /\ reboots' = reboots + 1
    /\ desk' = Nothing /\ binder' = Nothing /\ reader' = Nothing /\ launch' = Nothing
    /\ torn' = IF desk = Nothing \/ desk.do \notin {"write", "keep"} THEN torn
               ELSE torn \cup {desk.account}
    /\ outdated' = {} /\ patched' = {}
    /\ \E again \in Recovered :
          /\ catalog' = again @@ catalog
          /\ rows' = [a \in DOMAIN rows |->
                        IF rows[a].strategy \in DOMAIN catalog'
                        THEN [rows[a] EXCEPT !.version = catalog'[rows[a].strategy]]
                        ELSE rows[a]]
    /\ preview' = [a \in {b \in DOMAIN preview :
                            Planned(b) /\ b \in DOMAIN rows' => Matches(preview[b], rows'[b])}
                     |-> preview[a]]
    /\ UNCHANGED <<vault, unused, calls>>

-----------------------------------------------------------------------------

States == {"stopped", "running", "error"}

BookNext ==
    \/ \E a \in Holders :
          \/ \E s \in Strategies, k \in Secrets : ConfigureReads(a, s, k) \/ CreateReads(a, s, k)
          \/ \E state \in States : StateReads(a, state)
          \/ \E s \in Strategies : AssignAsks(s, a)
          \/ Delete(a) \/ LogReads(a) \/ PreviewReads(a) \/ LaunchReads(a) \/ RunEnds(a)
    \/ \E s \in Strategies : MakeStrategy(s) \/ DropReads(s) \/ UpdateAsks(s)
    \/ DeskStores \/ DeskWrites \/ DeskFails \/ CreateInserts \/ CreateKeeps
    \/ LogMarks \/ DropWrites \/ BinderReads \/ BinderCommits
    \/ PreviewPlans \/ PreviewCreates \/ StartChecks \/ StartClaims \/ Reboot

BookInit ==
    /\ \E first \in Holders, s \in Strategies \ Later, k \in Secrets :
          /\ MakerOf[s] = HolderOf[first]
          /\ rows = (first :> [strategy |-> s, version |-> 1, state |-> "stopped", tail |-> k])
          /\ vault = (first :> k)
          /\ unused = (Holders \ {first}) \cup Later
    /\ catalog = [s \in Strategies \ Later |-> 1]
    /\ preview = [a \in {} |-> 0]
    /\ desk = Nothing /\ binder = Nothing /\ reader = Nothing /\ launch = Nothing
    /\ outdated = {} /\ torn = {} /\ patched = {}
    /\ calls = 0 /\ reboots = 0

-----------------------------------------------------------------------------

BookTypeOK ==
    /\ \A a \in DOMAIN rows :
          /\ rows[a].strategy \in Strategies /\ rows[a].version \in 1 .. MaxVersion
          /\ rows[a].state \in States /\ rows[a].tail \in Secrets
    /\ DOMAIN rows \subseteq Holders \ unused /\ DOMAIN vault \subseteq DOMAIN rows
    /\ \A s \in DOMAIN catalog : catalog[s] \in 1 .. MaxVersion /\ s \notin unused
    /\ \A a \in DOMAIN preview : preview[a].state \in {"planned", "executing"}

\* No account is bound to the strategy of another user, whichever way it was
\* bound (auth/ownership.py and the owner clauses of the repository).
OwnStrategies == \A a \in DOMAIN rows : MakerOf[rows[a].strategy] = HolderOf[a]

\* An account is bound to a strategy there is and carries it as it is now, unless
\* the last write of its row overlapped another; a restart mends even that
\* (update_strategy, delete_strategy, assign_strategy, _reconcile_strategy_catalog).
BindingIsCurrent == \A a \in DOMAIN rows \ outdated : Current(a)

\* The key an account shows is the key its orders are signed with, except while
\* it is being changed, after a process died in between, and after an overlap
\* (the order of vault and repository in update_instance).
ShownKeyIsUsed ==
    \A a \in DOMAIN rows \ torn :
        (desk = Nothing \/ desk.account # a) => Secret(a) = rows[a].tail

\* What is about to be claimed is what the account is bound to at that moment:
\* a binding changed in between has retired the preview, unless it was changed
\* by an update of the account, which retires nothing, or the account came to the
\* strategy after the route had listed those the strategy's change is for
\* (start_run, apply_bound_strategy_change).
ClaimsAreCurrent ==
    launch # Nothing /\ launch.do = "claim" /\ LockFree /\ Planned(launch.account)
       /\ launch.account \in DOMAIN rows \ (outdated \cup patched)
    => Matches(preview[launch.account], rows[launch.account])
=============================================================================
