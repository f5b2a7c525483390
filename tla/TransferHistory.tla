---------------------------- MODULE TransferHistory ----------------------------
(***************************************************************************)
(* The log of one wallet: what JobService.syncAccountTransfers of          *)
(* src/aptos-wallet/server/jobs.ts copies from the Aptos indexer, page by  *)
(* page from the newest transaction to the oldest, how the copy is merged  *)
(* with the transfers the program made itself, and the fees that           *)
(* backfillGasFee looks up later.                                          *)
(*                                                                         *)
(* A transaction is its version, 1 the oldest.  Its records (direction,    *)
(* amount, counterparty) are left out: an "empty" transaction has none     *)
(* that parseChainTransferRow accepts.  An "own" one was made by a job and *)
(* has an attempt, and with it a fee to be looked up.                      *)
(***************************************************************************)
EXTENDS Naturals, FiniteSets, FiniteSetsExt

CONSTANTS
    Versions,   \* bound: transactions of the account
    BatchSize   \* CHAIN_SYNC_BATCH_SIZE

ASSUME HistoryAssumption == Versions \in Nat /\ BatchSize \in Nat \ {0}

VARIABLES
    onChain,    \* version |-> its kind, from the oldest to the newest
    stored,     \* chain_transfer_logs: the versions copied
    sync,       \* chain_transfer_sync: more to fetch, before which version
    page,       \* the page a synchronisation works on
    fee,        \* own version |-> what is known of its fee
    excused     \* a page ended at an own transfer, or an error, too early

historyVars == <<onChain, stored, sync, page, fee, excused>>

Length == Cardinality(DOMAIN onChain)
NoPage == [busy |-> FALSE, left |-> {}, more |-> FALSE, last |-> 0, wrote |-> FALSE]
\* has_more, next_before_version (0 for none), and whether there is a row
Sync(row, more, before) == [row |-> row, more |-> more, before |-> before]

HistoryTypeOK ==
    /\ onChain \in [1..Length -> {"external", "own", "empty"}]
    /\ stored \subseteq 1..Length
    /\ sync \in [row : BOOLEAN, more : BOOLEAN, before : 0..Versions]
    /\ page.left \subseteq 1..Length /\ page.last \in 0..Versions
    /\ fee \in [{v \in 1..Length : onChain[v] = "own"} -> {"unknown", "asking", "tried", "known"}]
    /\ excused \in BOOLEAN

(***************************************************************************)
(* The chain                                                               *)
(***************************************************************************)
\* Others transfer, and so do the jobs: their attempt is stored, with its
\* hash, before the transaction is sent.
Happens(kind) ==
    /\ Length < Versions
    /\ onChain' = [v \in 1..Length + 1 |-> IF v > Length THEN kind ELSE onChain[v]]
    /\ fee' = [v \in {w \in 1..Length + 1 : onChain'[w] = "own"} |->
                 IF v > Length THEN "unknown" ELSE fee[v]]
    /\ UNCHANGED <<stored, sync, page, excused>>

\* getAccountTransferHistory: the newest BatchSize versions below before, and
\* whether there is one more.
Newest(versions) ==
    {v \in versions : Cardinality({w \in versions : w > v}) < BatchSize}
Below(before) == {v \in 1..Length : before = 0 \/ v < before}

(***************************************************************************)
(* Synchronisation                                                         *)
(***************************************************************************)
\* performAccountTransferSync up to the page: a refresh waits until the older
\* records are caught up, and the button is there only while they are not.
\* chainSyncInFlight: whoever asks meanwhile gets the result of the one that
\* is under way.
Asked(older) == ~page.busy /\ older = sync.more
SyncBegins(older) ==
    /\ Asked(older)
    /\ LET below == Below(IF older THEN sync.before ELSE 0)
           rows  == Newest(below)
       IN  page' = [busy |-> TRUE,
                    left |-> {v \in rows : onChain[v] # "empty"},
                    more |-> rows # below,
                    last |-> IF rows = {} THEN 0 ELSE Min(rows),
                    wrote |-> FALSE]
    /\ UNCHANGED <<onChain, stored, sync, fee, excused>>

\* The records of the page, one version after the other: one that is stored
\* already, or was made by a job (its hash is read first), ends the page.
Known(v) == v \in stored
Own(v) == onChain[v] = "own"
Finish(more, last) ==
    /\ sync' = Sync(TRUE, more, IF more THEN last ELSE 0)
    /\ page' = NoPage

RecordStored ==
    /\ page.busy /\ page.left # {}
    /\ LET v == Max(page.left)
       IN  /\ ~Known(v) /\ ~Own(v)
           /\ stored' = stored \cup {v}
           /\ page' = [page EXCEPT !.left = @ \ {v}, !.last = v, !.wrote = TRUE]
    /\ UNCHANGED <<onChain, sync, fee, excused>>

\* What is older is taken to be there: it need not be.
Missing(v) == \E w \in 1..v - 1 : onChain[w] = "external" /\ w \notin stored
PageMeetsKnown ==
    /\ page.busy /\ page.left # {}
    /\ LET v == Max(page.left)
       IN  /\ Known(v) \/ Own(v)
           /\ Finish(FALSE, v)
           /\ excused' = (excused \/ (~Known(v) /\ Missing(v)))
    /\ UNCHANGED <<onChain, stored, fee>>

PageEnds ==
    /\ page.busy /\ page.left = {}
    /\ Finish(page.more, page.last)
    /\ UNCHANGED <<onChain, stored, fee, excused>>

\* What this page stored will end the next one before it comes to older records.
CutShort == page.wrote /\ \E v \in stored : Missing(v)
\* A read of a hash raises: what was stored stays, and no row is written.
SyncRaises ==
    /\ page.busy /\ page.left # {} /\ ~Known(Max(page.left))
    /\ page' = NoPage
    /\ excused' = (excused \/ CutShort)
    /\ UNCHANGED <<onChain, stored, sync, fee>>

\* A restart ends it as well, between two records.
HistoryRestarts ==
    /\ page.busy
    /\ page' = NoPage
    /\ fee' = [v \in DOMAIN fee |-> IF fee[v] = "known" THEN "known" ELSE "unknown"]
    /\ excused' = (excused \/ CutShort)
    /\ UNCHANGED <<onChain, stored, sync>>

(***************************************************************************)
(* Fees                                                                    *)
(***************************************************************************)
\* accountTransfersWithGasBackfill, backfillGasFee: one lookup of an attempt at
\* a time, and not again until its cooldown is over.
BackfillBegins(v) ==
    /\ fee[v] = "unknown" /\ ~page.busy
    /\ fee' = [fee EXCEPT ![v] = "asking"]
    /\ UNCHANGED <<onChain, stored, sync, page, excused>>
BackfillEnds(v, found) ==
    /\ fee[v] = "asking"
    /\ fee' = [fee EXCEPT ![v] = IF found THEN "known" ELSE "tried"]
    /\ UNCHANGED <<onChain, stored, sync, page, excused>>
CooldownOver(v) ==
    /\ fee[v] = "tried"
    /\ fee' = [fee EXCEPT ![v] = "unknown"]
    /\ UNCHANGED <<onChain, stored, sync, page, excused>>

(***************************************************************************)
(* Specification                                                           *)
(***************************************************************************)
HistoryInit ==
    /\ onChain = [v \in {} |-> "own"] /\ fee = [v \in {} |-> "known"]
    /\ stored = {} /\ sync = Sync(FALSE, FALSE, 0) /\ page = NoPage
    /\ excused = FALSE

HistoryNext ==
    \/ \E kind \in {"external", "own", "empty"} : Happens(kind)
    \/ \E older \in BOOLEAN : SyncBegins(older)
    \/ RecordStored \/ PageMeetsKnown \/ PageEnds \/ SyncRaises \/ HistoryRestarts
    \/ \E v \in DOMAIN fee :
          \/ BackfillBegins(v) \/ CooldownOver(v)
          \/ \E found \in BOOLEAN : BackfillEnds(v, found)

HistorySpec == HistoryInit /\ [][HistoryNext]_historyVars

(***************************************************************************)
(* Properties                                                              *)
(***************************************************************************)
\* accountTransfers shows a job's transfers and the copied ones: none is among
\* both ("不会重复显示", README.md:100 of aptos-wallet).
ShownOnce == \A v \in stored : ~Own(v)

\* While older records are missing, the window offers to fetch them, unless a
\* page came to its end too early: between the newest copied record and the
\* next page, or the oldest transaction, no external one is missing.
NothingSkipped ==
    excused \/ page.busy \/
        \A v \in 1..Length :
            onChain[v] = "external" /\ (\E w \in stored : v < w) /\ v \notin stored
                => sync.more /\ v < sync.before

\* "若更早记录尚未追平，日志窗口会显示“与链上同步”按钮" (README.md:99 of aptos-wallet):
\* after a synchronisation, if older records are missing, there is the button.
OlderCanBeFetched ==
    sync.row /\ ~page.busy /\ ~sync.more =>
        \A v \in 1..Length :
            onChain[v] = "external" /\ (\E w \in 1..Length : v < w /\ (w \in stored))
                => v \in stored

(***************************************************************************)
(* Mutants                                                                 *)
(***************************************************************************)
\* A refresh fetches the newest page although older ones are outstanding.
AskedAnyTime(older) == ~page.busy /\ (older => sync.more)
NeverOwn(v) == FALSE
=============================================================================
