------------------------------ MODULE WalletBook ------------------------------
(***************************************************************************)
(* The wallets of the Aptos wallet: WalletService                          *)
(* (src/aptos-wallet/server/wallets.ts) and AddressBookService             *)
(* (address-book.ts), over the tables of database.ts.  A group holds one   *)
(* mnemonic; its accounts are derived by their number.  An address is a    *)
(* group and a number: a private key imported alone may be one of a        *)
(* group's.  Nothing is deleted but entries of the address book.           *)
(*                                                                         *)
(* Balances are abstracted to how new they are: the chain's count goes up  *)
(* with every change of an asset.  A refresh awaits the chain, and runs    *)
(* beside the reads of one asset (refreshAsset) that the jobs make.        *)
(* Labels, envelopes, summaries and the CSV are left out.                  *)
(***************************************************************************)
EXTENDS Naturals, FiniteSets, FiniteSetsExt

CONSTANTS
    Groups,     \* mnemonics
    MaxIndex,   \* MAX_ACCOUNT_INDEX
    MaxStamp,   \* bound: archivings
    Foreign,    \* addresses that are not of the groups
    MaxEntries, \* MAX_ADDRESS_BOOK_ENTRIES
    MaxChanges  \* bound: changes of a balance on the chain

ASSUME BookAssumption ==
    /\ {MaxIndex, MaxStamp, MaxEntries, MaxChanges} \subseteq Nat
    /\ Foreign \cap (Groups \X Nat) = {}
    /\ IsFiniteSet(Groups) /\ IsFiniteSet(Foreign)

Indexes == 0..MaxIndex
Addresses == Groups \X Indexes
Coins == {"APT", "USDT"}
Never == 0

VARIABLES
    group,      \* wallet_groups: profile, next_account_index, archived_at
    wallet,     \* wallets: how it came in, and archived_at
    entries,    \* address_book_entries
    inJob,      \* wallets in jobs that run, pause or are uncertain
    stamp,      \* the time of the latest archiving
    leftWith,   \* group |-> the accounts that its archiving took along
    truth,      \* what the chain's balances have come to
    shown,      \* balances_json
    best,       \* the newest balances ever shown
    reading,    \* reads of balances that are under way
    crossed     \* wallets of which one asset was read beside another read

bookVars == <<group, wallet, entries, inJob, stamp, leftWith, truth, shown, best, reading, crossed>>
balanceVars == <<truth, shown, best, reading, crossed>>
groupVars == <<group, leftWith>>

NoGroup == [profile |-> "none", next |-> 0, archived |-> Never]
WalletKinds == {"none", "legacy", "derived", "standalone"}
Held == {w \in Addresses : wallet[w].kind # "none"}
Accounts(g) == {w \in Held : w[1] = g /\ wallet[w].kind = "derived"}
ActiveWallets == {w \in Held : wallet[w].archived = Never}
Exists(g) == group[g].profile # "none"
None == [a \in Coins |-> 0]

BookTypeOK ==
    /\ group \in [Groups -> [profile : {"none", "aptos_hd", "legacy_custom"},
                             next : 0..MaxIndex + 1, archived : 0..MaxStamp]]
    /\ wallet \in [Addresses -> [kind : WalletKinds, archived : 0..MaxStamp]]
    /\ entries \subseteq Addresses \cup Foreign /\ Cardinality(entries) <= MaxEntries
    /\ inJob \subseteq Held
    /\ stamp \in 0..MaxStamp
    /\ {truth, shown, best} \subseteq [Addresses -> [Coins -> 0..MaxChanges]]
    /\ crossed \subseteq Held

(***************************************************************************)
(* Groups and accounts                                                     *)
(***************************************************************************)
\* deriveAccounts, insertDerivedAccount: the address must not be a wallet's
\* yet, or the whole transaction fails.
Inserted(new) ==
    /\ \A w \in new : wallet[w].kind = "none"
    /\ wallet' = [w \in Addresses |->
         IF w \in new THEN [kind |-> "derived", archived |-> Never] ELSE wallet[w]]
Migrated == \A w \in Addresses : wallet[w].kind # "legacy"

\* bumpNextIndex
Bumped(g, next) == IF group[g].next > next THEN group[g].next ELSE next

\* createGroup, restoreGroup, createNewGroup: one group for a mnemonic.
CreateGroup(g, indexes) ==
    /\ Migrated /\ ~Exists(g)
    /\ Inserted({g} \X indexes)
    /\ group' = [group EXCEPT ![g] =
         [profile |-> "aptos_hd", next |-> Max(indexes) + 1, archived |-> Never]]
    /\ UNCHANGED <<entries, inJob, stamp, leftWith, balanceVars>>

\* assertActiveHdGroup, persistDerivedAccounts
Persisted(g, indexes) ==
    /\ Migrated /\ group[g].profile = "aptos_hd" /\ group[g].archived = Never
    /\ Inserted({w \in {g} \X indexes : w \notin Accounts(g)})
    /\ group' = [group EXCEPT ![g].next = Bumped(g, Max(indexes) + 1)]
    /\ UNCHANGED <<entries, inJob, stamp, leftWith, balanceVars>>
AddAccounts(g, count) ==
    /\ group[g].next + count - 1 <= MaxIndex
    /\ Persisted(g, group[g].next..group[g].next + count - 1)
RestoreAccounts(g, indexes) == Persisted(g, indexes)

\* importPrivateKey
ImportPrivateKey(w) ==
    /\ Migrated /\ wallet[w].kind = "none"
    /\ wallet' = [wallet EXCEPT ![w] = [kind |-> "standalone", archived |-> Never]]
    /\ UNCHANGED <<groupVars, entries, inJob, stamp, balanceVars>>

\* migrateLegacyMnemonicWallets, ensureMnemonicGroup: wallets of the older
\* database, each with a mnemonic of its own, come into the group of it.
MigrateLegacy ==
    /\ ~Migrated
    /\ wallet' = [w \in Addresses |->
         IF wallet[w].kind = "legacy" THEN [wallet[w] EXCEPT !.kind = "derived"] ELSE wallet[w]]
    /\ group' = [g \in Groups |->
         LET old == {w[2] : w \in {v \in Addresses : v[1] = g /\ wallet[v].kind = "legacy"}}
         IN  IF old = {} THEN group[g]
             ELSE [profile |-> IF Exists(g) THEN group[g].profile ELSE "aptos_hd",
                   next |-> Bumped(g, Max(old) + 1), archived |-> group[g].archived]]
    /\ UNCHANGED <<entries, inJob, stamp, leftWith, balanceVars>>

(***************************************************************************)
(* Archiving                                                               *)
(***************************************************************************)
Later == stamp < MaxStamp /\ stamp' = stamp + 1

\* assertNoActiveJobForWallet
ArchiveWallet(w) ==
    /\ w \in ActiveWallets \ inJob
    /\ Later
    /\ wallet' = [wallet EXCEPT ![w].archived = stamp']
    /\ UNCHANGED <<groupVars, entries, inJob, balanceVars>>

UnarchiveWallet(w) ==
    /\ w \in Held \ ActiveWallets
    /\ wallet[w].kind = "derived" => group[w[1]].archived = Never
    /\ wallet' = [wallet EXCEPT ![w].archived = Never]
    /\ UNCHANGED <<groupVars, entries, inJob, stamp, balanceVars>>

\* assertNoActiveJobForGroup; an account that was archived before keeps its time.
StampAnew(w, now) == now   \* mutant: the group's time for all
StampOf(w, now) == IF wallet[w].archived = Never THEN now ELSE wallet[w].archived
ArchiveGroup(g) ==
    /\ Exists(g) /\ group[g].archived = Never /\ Accounts(g) \cap inJob = {}
    /\ Later
    /\ group' = [group EXCEPT ![g].archived = stamp']
    /\ wallet' = [w \in Addresses |->
         IF w \in Accounts(g) THEN [wallet[w] EXCEPT !.archived = StampOf(w, stamp')]
         ELSE wallet[w]]
    /\ leftWith' = [leftWith EXCEPT ![g] = Accounts(g) \cap ActiveWallets]
    /\ UNCHANGED <<entries, inJob, balanceVars>>

\* unarchiveGroup: the accounts with the group's time come back with it.
ComesBack(g, w) == w \in Accounts(g) /\ wallet[w].archived = group[g].archived
UnarchiveGroup(g) ==
    /\ Exists(g) /\ group[g].archived # Never
    /\ wallet' = [w \in Addresses |->
         IF ComesBack(g, w) THEN [wallet[w] EXCEPT !.archived = Never] ELSE wallet[w]]
    /\ group' = [group EXCEPT ![g].archived = Never]
    /\ UNCHANGED <<entries, inJob, stamp, leftWith, balanceVars>>

\* A job of the wallet is confirmed, or comes to rest (TransferJobs).
JobMoves(w) ==
    /\ w \in ActiveWallets
    /\ inJob' = IF w \in inJob THEN inJob \ {w} ELSE inJob \cup {w}
    /\ UNCHANGED <<groupVars, wallet, entries, stamp, balanceVars>>

(***************************************************************************)
(* Address book                                                            *)
(***************************************************************************)
\* assertCanUseAddress
Usable(address) == address \notin entries /\ address \notin Held

\* create, createMany: all of them or none.
AddEntries(new) ==
    /\ \A a \in new : Usable(a)
    /\ Cardinality(entries) + Cardinality(new) <= MaxEntries
    /\ entries' = entries \cup new
    /\ UNCHANGED <<groupVars, wallet, inJob, stamp, balanceVars>>
UpdateEntry(old, new) ==
    /\ old \in entries /\ Usable(new)
    /\ entries' = (entries \ {old}) \cup {new}
    /\ UNCHANGED <<groupVars, wallet, inJob, stamp, balanceVars>>
RemoveEntry(old) ==
    /\ old \in entries
    /\ entries' = entries \ {old}
    /\ UNCHANGED <<groupVars, wallet, inJob, stamp, balanceVars>>

(***************************************************************************)
(* Balances                                                                *)
(***************************************************************************)
BalanceChanges(w, asset) ==
    /\ w \in Held /\ truth[w][asset] < MaxChanges
    /\ truth' = [truth EXCEPT ![w][asset] = @ + 1]
    /\ UNCHANGED <<groupVars, wallet, entries, inJob, stamp, shown, best, reading, crossed>>

\* refresh: whoever asks for a wallet that is being read gets that read's
\* result (activeRefreshes).  refreshAsset has no such guard, and keeps what
\* the row said of the other asset when it began.
Read(w, asset, row) == [wallet |-> w, asset |-> asset, row |-> row, got |-> None, done |-> FALSE]
Reads(w) == {r \in reading : r.wallet = w}
NotYetRead(w) == \A r \in Reads(w) : r.asset # "both"
ReadBegins(w, asset) ==
    /\ w \in ActiveWallets
    /\ asset = "both" => NotYetRead(w)
    /\ \A r \in Reads(w) : r.asset # asset
    /\ reading' = reading \cup {Read(w, asset, IF asset = "both" THEN None ELSE shown[w])}
    /\ crossed' = IF \E r \in Reads(w) \cup {Read(w, asset, None)} : r.asset # "both"
                     /\ Reads(w) # {}
                  THEN crossed \cup {w} ELSE crossed
    /\ UNCHANGED <<groupVars, wallet, entries, inJob, stamp, truth, shown, best>>

\* The chain answers; whether the account exists may be asked after that.
ReadAnswers(r) ==
    /\ r \in reading /\ ~r.done
    /\ reading' = (reading \ {r}) \cup
         {[r EXCEPT !.done = TRUE,
                    !.got = [a \in Coins |->
                       IF r.asset \in {a, "both"} THEN truth[r.wallet][a] ELSE r.row[a]]]}
    /\ UNCHANGED <<groupVars, wallet, entries, inJob, stamp, truth, shown, best, crossed>>

\* The row is written, or its error only.
ReadEnds(r, failed) ==
    /\ r \in reading
    /\ r.done \/ failed
    /\ reading' = reading \ {r}
    /\ shown' = IF failed THEN shown ELSE [shown EXCEPT ![r.wallet] = r.got]
    /\ best' = [best EXCEPT ![r.wallet] =
                  [a \in Coins |-> IF shown'[r.wallet][a] > @[a] THEN shown'[r.wallet][a] ELSE @[a]]]
    /\ UNCHANGED <<groupVars, wallet, entries, inJob, stamp, truth, crossed>>

(***************************************************************************)
(* Specification                                                           *)
(***************************************************************************)
BookInit ==
    /\ group = [g \in Groups |-> NoGroup]
    /\ \E legacy \in SUBSET Addresses :
          wallet = [w \in Addresses |->
            [kind |-> IF w \in legacy THEN "legacy" ELSE "none", archived |-> Never]]
    /\ entries = {} /\ inJob = {} /\ stamp = 0
    /\ leftWith = [g \in Groups |-> {}]
    /\ truth = [w \in Addresses |-> None] /\ shown = truth /\ best = truth
    /\ reading = {} /\ crossed = {}

GroupStep ==
    \/ MigrateLegacy
    \/ \E g \in Groups :
          \/ \E count \in 1..MaxIndex : AddAccounts(g, count)
          \/ \E indexes \in (SUBSET Indexes) \ {{}} :
                CreateGroup(g, indexes) \/ RestoreAccounts(g, indexes)
          \/ ArchiveGroup(g) \/ UnarchiveGroup(g)
    \/ \E w \in Addresses : ImportPrivateKey(w) \/ ArchiveWallet(w) \/ UnarchiveWallet(w) \/ JobMoves(w)

EntryStep ==
    \/ \E new \in (SUBSET (Addresses \cup Foreign)) \ {{}} : AddEntries(new)
    \/ \E old \in entries :
          \/ RemoveEntry(old)
          \/ \E new \in Addresses \cup Foreign : UpdateEntry(old, new)

BalanceStep ==
    \/ \E w \in Addresses :
          \/ \E asset \in Coins : BalanceChanges(w, asset)
          \/ \E asset \in Coins \cup {"both"} : ReadBegins(w, asset)
    \/ \E r \in reading : ReadAnswers(r) \/ \E failed \in BOOLEAN : ReadEnds(r, failed)

BookNext == GroupStep \/ EntryStep \/ BalanceStep

BookSpec == BookInit /\ [][BookNext]_bookVars

(***************************************************************************)
(* Properties                                                              *)
(***************************************************************************)
\* A number that was given to an account, archived or not, is below the next
\* one of its group: it is not given again ("已用编号也不会自动复用", README.md:118
\* of aptos-wallet).
NumbersAreSpent ==
    \A g \in Groups : \A w \in Accounts(g) : w[2] < group[g].next

\* No account of an archived group is active, and bringing the group back
\* brings back the accounts that went with it, not those archived before.
ComesBackAsItLeft ==
    \A g \in Groups : group[g].archived # Never =>
        /\ Accounts(g) \cap ActiveWallets = {}
        /\ {w \in Accounts(g) : ComesBack(g, w)} = leftWith[g]

\* However many ask for a wallet's balances, what it shows goes back to an
\* older value only when a job's read of one asset crossed another read.
NewestIsShown == \A w \in Addresses \ crossed : shown[w] = best[w]

(***************************************************************************)
(* Mutants                                                                 *)
(***************************************************************************)
JustSet(g, next) == next
ReadAgain(w) == TRUE
=============================================================================
