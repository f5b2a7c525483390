--------------------------- MODULE MCFleetBooks ---------------------------
(***************************************************************************)
(* A small instance of one campaign with every fault, and beside it what   *)
(* the fleet keeps and shows of its accounts: the accounts with their      *)
(* strategies and keys, the log of an account and its monitor.  They share *)
(* no state: the initial state picks the one that runs, and the others     *)
(* rest.                                                                   *)
(***************************************************************************)
EXTENDS FleetCampaigns, AccountBook, AccountLog, MonitorFeed

CONSTANTS c1, a1, a2, k1, h1, h2, s1, s2, s3, k2, k3

VARIABLE part

\* One campaign; the key of its account has another account too.
OneCampaign == c1 :> a1
OneKey      == a1 :> k1 @@ a2 :> k1

\* Two users, each with an account; the first made two strategies.
Users  == h1 :> "u" @@ h2 :> "v"
Makers == s1 :> "u" @@ s2 :> "u" @@ s3 :> "v"

\* Users, strategies and keys are alike, so one account to begin with is enough.
PartsInit ==
    /\ part \in {"fleet", "book", "log", "monitor"}
    /\ Init /\ LogInit /\ FeedInit
    /\ BookInit /\ rows = (h1 :> [strategy |-> s1, version |-> 1, state |-> "stopped", tail |-> k2])

PartsNext ==
    /\ part' = part
    /\ \/ part = "fleet" /\ Next /\ UNCHANGED <<bookVars, logVars, feedVars>>
       \/ part = "book" /\ BookNext /\ UNCHANGED <<vars, logVars, feedVars>>
       \/ part = "log" /\ LogNext /\ UNCHANGED <<vars, bookVars, feedVars>>
       \/ part = "monitor" /\ FeedNext /\ UNCHANGED <<vars, bookVars, logVars>>

\* The fairness of the fleet; nothing is assumed of the others.
PartsSpec ==
    /\ PartsInit /\ [][PartsNext]_<<part, vars, bookVars, logVars, feedVars>>
    /\ \A r \in Requests : WF_vars(part = "fleet" /\ RequestStep(r))
    /\ WF_vars(part = "fleet" /\ RuntimeCloses)
    /\ \A c \in Campaigns :
          /\ WF_vars(part = "fleet" /\ ActorStep(c))
          /\ SF_vars(part = "fleet" /\ CheckReads(c))
          /\ WF_vars(part = "fleet" /\ CheckWrites(c))
          /\ WF_vars(part = "fleet" /\ CheckArchives(c))

\* An account in recovery comes out of it, and a shutdown drains.
FleetSettles == RecoveryConverges /\ ShutdownDrains

\* An account is bound to what is its user's and current, shows the key it uses
\* and starts what it is bound to (main_routes_accounts.py, service_strategies.py).
BooksAreKept ==
    BookTypeOK /\ OwnStrategies /\ BindingIsCurrent /\ ShownKeyIsUsed /\ ClaimsAreCurrent

\* What a page shows of an account's log and of its executions has no hole, does
\* not go back and is of that account and that execution (main_support.py,
\* strategy_monitor.py, useMonitorReconciliation.ts).
PagesAreTrue ==
    /\ LogTypeOK /\ NoHole /\ ClearedStaysAway
    /\ FeedTypeOK /\ FoldIsWhole /\ NeverBehind /\ NewestAreShown /\ EntriesAreItsOwn

\* The books are kept, and the pages show them.
AccountsAreTrue == BooksAreKept /\ PagesAreTrue
=============================================================================
