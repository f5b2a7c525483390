---------------------------- MODULE TransferPlan ----------------------------
(***************************************************************************)
(* What a preview of a transfer job promises about money: freezeStep,      *)
(* validateMaxOrdering, inspectBalances, fitRandomAmountsToBudget and      *)
(* reorderPreview of src/aptos-wallet/server/jobs.ts, and what executeStep *)
(* and prepareTransfer later ask of the chain.  The preview freezes the    *)
(* amounts, fits random ones into a balance that is too small for their    *)
(* maxima, and projects the transfers one after the other over the         *)
(* balances it read.                                                       *)
(*                                                                         *)
(* An amount is a number of quanta (0.01 of the asset), the gas reserve    *)
(* one unit of APT.  A transfer to the sender itself, which is refused at  *)
(* once, is left out, and so are the texts and totals of the summary.      *)
(***************************************************************************)
EXTENDS Naturals, Integers, Sequences, FiniteSetsExt

CONSTANTS
    Wallets,        \* wallets of the vault
    Outside,        \* an address that is none of them
    Starting,       \* the balances an instance begins with
    FirstTransfers, \* bound: what may be the first and the second transfer
    OtherTransfers,
    GasReserve      \* GAS_RESERVE_BASE_UNITS

ASSUME PlanAssumption ==
    /\ Outside \notin Wallets /\ GasReserve \in Nat
    /\ Starting \subseteq [Wallets -> [{"APT", "USDT"} -> Nat]]

VARIABLES
    planPhase,  \* what is done to the job
    transfers,  \* its steps, in their order
    payer,      \* gas_payer_wallet_id, or Outside for none
    balance,    \* the balances on the chain
    ledger,     \* the balances the projection has come to
    spare,      \* remainingExtra, per source and asset
    position,   \* the step the loop is at
    reordered   \* the order was changed after the projection

planVars == <<planPhase, transfers, payer, balance, ledger, spare, position, reordered>>

Assets == {"APT", "USDT"}
Transfer(from, to, asset, mode, min, max) ==
    [from |-> from, to |-> to, asset |-> asset, mode |-> mode, min |-> min, max |-> max,
     amount |-> 0]

Positions == DOMAIN transfers
Sponsored(t) == payer # Outside /\ payer # t.from
GasWallet(t) == IF Sponsored(t) THEN payer ELSE t.from
SelfPaidApt(t) == t.asset = "APT" /\ ~Sponsored(t)

PlanTypeOK ==
    /\ planPhase \in {"freeze", "fit", "project", "previewed", "execute",
                      "rejected", "paused", "completed"}
    /\ payer \in Wallets \cup {Outside} /\ reordered \in BOOLEAN
    /\ balance \in [Wallets -> [Assets -> Nat]]
    /\ position \in 1..Len(transfers) + 1
    /\ \A i \in Positions : transfers[i].amount \in 0..transfers[i].max

(***************************************************************************)
(* freezeStep and validateMaxOrdering                                      *)
(***************************************************************************)
SameAccount(t, u) == t.from = u.from /\ t.asset = u.asset

MaxIsLast(steps) ==
    \A i \in DOMAIN steps : steps[i].mode = "max" =>
        \A k \in DOMAIN steps : k > i => ~SameAccount(steps[i], steps[k])

Amounts(t) == IF t.mode = "max" THEN {0} ELSE t.min..t.max
Frozen ==
    {[i \in Positions |-> [transfers[i] EXCEPT !.amount = drawn[i]]] :
        drawn \in {f \in [Positions -> 0..Max({transfers[i].max : i \in Positions})] :
                      \A i \in Positions : f[i] \in Amounts(transfers[i])}}

(***************************************************************************)
(* fitRandomAmountsToBudget, for the group of steps of one source and asset *)
(***************************************************************************)
Group(w, a) == {i \in Positions : transfers[i].from = w /\ transfers[i].asset = a}
RandomOf(w, a) == {i \in Group(w, a) : transfers[i].mode = "random"}
Total(S, value(_)) == FoldSet(LAMBDA i, sum : value(i) + sum, 0, S)

FixedTotal(w, a) ==
    Total({i \in Group(w, a) : transfers[i].mode = "fixed"}, LAMBDA i : transfers[i].min)
\* Mutant: no gas is set aside for the group.
WithoutGas(w, a) == balance[w][a] - FixedTotal(w, a)
Budget(w, a) ==
    balance[w][a] - FixedTotal(w, a)
      - (IF a = "APT" /\ payer \in {w, Outside}
         THEN GasReserve * Cardinality(Group(w, a)) ELSE 0)

MinimumTotal(w, a) == Total(RandomOf(w, a), LAMBDA i : transfers[i].min)
Extra(i) == transfers[i].max - transfers[i].min
MaximumExtra(w, a) == Total(RandomOf(w, a), Extra)
Constrained(w, a) ==
    /\ RandomOf(w, a) # {}
    /\ Budget(w, a) >= MinimumTotal(w, a)
    /\ Budget(w, a) < MinimumTotal(w, a) + MaximumExtra(w, a)

\* what the constrained groups may spend beyond their minima
Spares ==
    {f \in [Wallets -> [Assets -> 0..Max({transfers[i].max : i \in Positions}) * Len(transfers)]] :
        \A w \in Wallets, a \in Assets :
            IF Constrained(w, a) THEN f[w][a] <= Budget(w, a) - MinimumTotal(w, a)
            ELSE f[w][a] = 0}

Freeze ==
    /\ planPhase = "freeze"
    /\ IF MaxIsLast(transfers)
       THEN planPhase' = "fit" /\ transfers' \in Frozen /\ spare' \in Spares
       ELSE planPhase' = "rejected" /\ UNCHANGED <<transfers, spare>>
    /\ ledger' = balance /\ position' = 1
    /\ UNCHANGED <<payer, balance, reordered>>

\* the next random step takes its share of what is left, so that the rest
\* still fits into the later ones
Fit ==
    LET t == transfers[position]
        left == spare[t.from][t.asset]
        later == Total({i \in RandomOf(t.from, t.asset) : i > position}, Extra)
        least == IF left > later THEN left - later ELSE 0
        most == IF left < Extra(position) THEN left ELSE Extra(position)
    IN
    /\ planPhase = "fit" /\ position \in Positions
    /\ IF t.mode = "random" /\ Constrained(t.from, t.asset)
       THEN \E extra \in least..most :
              /\ transfers' = [transfers EXCEPT ![position].amount = t.min + extra]
              /\ spare' = [spare EXCEPT ![t.from][t.asset] = @ - extra]
       ELSE UNCHANGED <<transfers, spare>>
    /\ position' = position + 1
    /\ UNCHANGED <<planPhase, payer, balance, ledger, reordered>>

Fitted ==
    /\ planPhase = "fit" /\ position \notin Positions
    /\ planPhase' = "project" /\ position' = 1
    /\ UNCHANGED <<transfers, payer, balance, ledger, spare, reordered>>

(***************************************************************************)
(* inspectBalances: the projection of one step                             *)
(***************************************************************************)
\* what is moved, and what is left for gas then
AmountOf(t, funds) ==
    IF t.mode # "max" THEN t.amount
    ELSE IF SelfPaidApt(t) THEN funds[t.from].APT - GasReserve ELSE funds[t.from][t.asset]
\* Mutant: gas is compared with what was there before the transfer.
GasBefore(t, amount, funds) == funds[GasWallet(t)].APT
GasLeft(t, amount, funds) ==
    funds[GasWallet(t)].APT - (IF SelfPaidApt(t) THEN amount ELSE 0)

Payable(t, amount, gas, funds) ==
    /\ amount > 0 /\ funds[t.from][t.asset] >= amount
    /\ GasLeft(t, amount, funds) >= gas

Moved(t, amount, gas, funds) ==
    [w \in Wallets |-> [a \in Assets |->
        funds[w][a]
          - (IF w = t.from /\ a = t.asset THEN amount ELSE 0)
          - (IF w = GasWallet(t) /\ a = "APT" THEN gas ELSE 0)
          + (IF w = t.to /\ a = t.asset THEN amount ELSE 0)]]

Project ==
    LET t == transfers[position]
        amount == AmountOf(t, ledger)
    IN
    /\ planPhase = "project" /\ position \in Positions
    /\ IF Payable(t, amount, GasReserve, ledger)
       THEN /\ ledger' = Moved(t, amount, GasReserve, ledger) /\ position' = position + 1
            /\ UNCHANGED planPhase
       ELSE planPhase' = "rejected" /\ UNCHANGED <<ledger, position>>
    /\ UNCHANGED <<transfers, payer, balance, spare, reordered>>

Projected ==
    /\ planPhase = "project" /\ position \notin Positions
    /\ planPhase' = "previewed" /\ position' = 1
    /\ UNCHANGED <<transfers, payer, balance, ledger, spare, reordered>>

\* reorderPreview, which projects nothing anew
Reorder ==
    LET swapped == [i \in Positions |-> transfers[Len(transfers) + 1 - i]] IN
    /\ planPhase = "previewed" /\ ~reordered /\ MaxIsLast(swapped)
    /\ transfers' = swapped /\ reordered' = TRUE
    /\ UNCHANGED <<planPhase, payer, balance, ledger, spare, position>>

(***************************************************************************)
(* The execution, while nobody else touches the wallets: executeStep reads *)
(* the balance anew, and the simulation asks for the gas.  No transfer     *)
(* costs more gas than the reserve.                                        *)
(***************************************************************************)
Execute ==
    LET t == transfers[position]
        amount == AmountOf(t, balance)
    IN
    /\ planPhase \in {"previewed", "execute"} /\ position \in Positions
    /\ \E gas \in 0..GasReserve :
          IF Payable(t, amount, gas, balance)
          THEN /\ balance' = Moved(t, amount, gas, balance)
               /\ position' = position + 1 /\ planPhase' = "execute"
          ELSE planPhase' = "paused" /\ UNCHANGED <<balance, position>>
    /\ UNCHANGED <<transfers, payer, ledger, spare, reordered>>

Executed ==
    /\ planPhase = "execute" /\ position \notin Positions
    /\ planPhase' = "completed"
    /\ UNCHANGED <<transfers, payer, balance, ledger, spare, position, reordered>>

PlanInit ==
    /\ planPhase = "freeze" /\ position = 1 /\ reordered = FALSE
    /\ transfers \in {<<t, u>> : t \in FirstTransfers, u \in OtherTransfers}
    /\ payer \in Wallets \cup {Outside}
    /\ balance \in Starting /\ ledger = balance
    /\ spare = [w \in Wallets |-> [a \in Assets |-> 0]]

PlanNext ==
    \/ Freeze \/ Fit \/ Fitted \/ Project \/ Projected \/ Reorder \/ Execute \/ Executed

PlanSpec == PlanInit /\ [][PlanNext]_planVars

(***************************************************************************)
(* Properties                                                              *)
(***************************************************************************)
\* A job whose preview was accepted can be paid to its end: as long as nobody
\* else moves money, no step of it fails for lack of funds, unless its order
\* was changed after the preview.
PreviewedIsPayable == planPhase = "paused" => reordered

\* The fitted amounts stay in their ranges and, together, in the budget, and
\* no constrained group wastes its step: what was spared is spent.
FitsBudget ==
    planPhase = "project" =>
        \A w \in Wallets, a \in Assets : Constrained(w, a) =>
            /\ spare[w][a] = 0
            /\ \A i \in RandomOf(w, a) : transfers[i].amount \in transfers[i].min..transfers[i].max
            /\ Total(RandomOf(w, a), LAMBDA i : transfers[i].amount) <= Budget(w, a)
=============================================================================
