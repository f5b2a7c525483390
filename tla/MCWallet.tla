------------------------------- MODULE MCWallet -------------------------------
(***************************************************************************)
(* Small instances of the Aptos wallet's parts around the jobs, side by    *)
(* side in one model: the plans of the jobs, the wallets, the log of one   *)
(* wallet, the vault and its session, and the limiter of the chain's       *)
(* reads.  They share no state: the initial state picks the one that runs, *)
(* and the others rest.  Of the wallets, the balances are looked at apart  *)
(* from the other operations, for one account.                             *)
(***************************************************************************)
EXTENDS TransferPlan, WalletBook, TransferHistory, VaultSession, ReadLimiter, TLC

CONSTANTS A, B, g, c1, c2, c3

ASSUME WalletAssumption == g \in Groups   \* the one whose balances are read

VARIABLE part

walletVars == <<part, planVars, bookVars, historyVars, vaultVars, limiterVars>>

\* One wallet with some of both assets, and one that can at most pay gas.
Funds == {[w \in {A, B} |->
             IF w = A THEN [APT |-> apt, USDT |-> usdt] ELSE [APT |-> gas, USDT |-> 0]] :
          apt \in {1, 3, 4}, usdt \in {0, 3}, gas \in 0..1}
ModesOf(from, to, asset) ==
    {Transfer(from, to, asset, "fixed", 1, 1), Transfer(from, to, asset, "random", 1, 2),
     Transfer(from, to, asset, "max", 0, 0)}
FirstOf == UNION {ModesOf(A, to, asset) : to \in {B, Outside}, asset \in Assets}
OthersOf ==
    {t \in UNION {ModesOf(from, to, asset) :
                    from \in {A, B}, to \in {A, B, Outside}, asset \in Assets} : t.from # t.to}

\* Reads of both kinds, previews and submissions, and a wait for a transaction.
AsksOf == c1 :> {"normal", "history"} @@ c2 :> {"urgent", "submit"} @@ c3 :> {"await"}

WalletInit ==
    /\ part \in {"plan", "book", "balances", "log", "vault", "reads"}
    /\ PlanInit /\ BookInit /\ HistoryInit /\ VaultInit /\ LimiterInit
    /\ part # "plan" =>
          /\ payer = Outside
          /\ balance = CHOOSE funds \in Starting : TRUE
          /\ transfers = CHOOSE two \in FirstTransfers \X OtherTransfers : TRUE
    /\ part # "book" => Migrated

WalletNext ==
    /\ part' = part
    /\ \/ /\ part = "plan" /\ PlanNext
          /\ UNCHANGED <<bookVars, historyVars, vaultVars, limiterVars>>
       \/ /\ \/ part = "book" /\ (GroupStep \/ EntryStep)
             \/ part = "balances" /\ (BalanceStep \/ CreateGroup(g, {0}))
          /\ UNCHANGED <<planVars, historyVars, vaultVars, limiterVars>>
       \/ /\ part = "log" /\ HistoryNext
          /\ UNCHANGED <<planVars, bookVars, vaultVars, limiterVars>>
       \/ /\ part = "vault" /\ VaultNext
          /\ UNCHANGED <<planVars, bookVars, historyVars, limiterVars>>
       \/ /\ part = "reads" /\ LimiterNext
          /\ UNCHANGED <<planVars, bookVars, historyVars, vaultVars>>

\* The fairness of the parts that have some, for the one that runs.
WalletFairness ==
    /\ WF_vaultVars(part = "vault" /\ SweepSession)
    /\ \A c \in Callers : WF_vaultVars(part = "vault" /\ DerivationEnds(c))
    /\ WF_limiterVars(part = "reads" /\ Wake) /\ WF_limiterVars(part = "reads" /\ Tick)
    /\ \A c \in Readers : /\ WF_limiterVars(part = "reads" /\ AskAgain(c))
                          /\ WF_limiterVars(part = "reads" /\ CallEnds(c))

WalletSpec == WalletInit /\ [][WalletNext]_walletVars /\ WalletFairness

\* What is said of money before it is moved holds when it is moved: a preview
\* that was accepted is paid to its end, inside the budget of every wallet.
PlansHold == PlanTypeOK /\ PreviewedIsPayable /\ FitsBudget

\* What the wallet keeps of accounts, balances and past transfers is whole: no
\* number given twice, no account lost with its group, no balance that goes
\* back by itself, no transfer shown twice or skipped by the log's own fault.
BooksAreWhole ==
    /\ BookTypeOK /\ NumbersAreSpent /\ ComesBackAsItLeft /\ NewestIsShown
    /\ HistoryTypeOK /\ ShownOnce /\ NothingSkipped

\* The key is in memory only for a session; and whatever is asked of the chain
\* stays, jobs and screens together, inside one budget, and is served.
KeyAndBudget ==
    VaultTypeOK /\ LimiterTypeOK /\ KeyHasSession /\ WithinBudget /\ QueueIsServed

\* An idle session loses its key, and every read that was queued ends.
WalletServes == IdleIsLocked /\ ReadsEnd
=============================================================================
