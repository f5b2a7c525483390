---------------------------- MODULE CyclePreparation ----------------------------
(* What a beta-volume session settles before an order of a cycle is sent: the  *)
(* ratio of the two legs, their quantities, the funds and the leverage.        *)
(*                                                                             *)
(* A quantity is a number of amount steps and a price is that of one step; a   *)
(* ratio is a fraction.  The share of a leg is given in parts: Parts(beta) of  *)
(* them make one unit of quote.  BetaCycle has the cycle that follows.         *)
EXTENDS Integers

CONSTANTS Betas,            \* ratios that may be published, [num, den]
          MaxAge,           \* max_age_ms of a published ratio, in ticks
          Quotes,           \* prices of one step: sets of [BTC, ETH]
          Targets, PerRound,\* target_turnover_quote and round_turnover_quote
          LegLimit,         \* max_position_quote
          Policies,         \* leverage: "auto" as 0, or a fixed one
          MaxAuto,          \* max_auto_leverage
          Buffer,           \* margin_buffer, [num, den]
          Available,        \* available USDT that may be read
          Settings,         \* margin mode and leverage a symbol may start with
          Before,           \* changes an earlier session may have left on their way
          MaxCycles         \* bound

ASSUME PreparationAssumption ==
    /\ \A b \in Betas : b.num \in Nat \ {0} /\ b.den \in Nat \ {0}
    /\ \A price \in Quotes : price.BTC \in Nat \ {0} /\ price.ETH \in Nat \ {0}
    /\ Targets \subseteq Nat \ {0} /\ PerRound \in Nat \ {0} /\ LegLimit \in Nat
    /\ Policies \subseteq Nat /\ MaxAuto \in Nat \ {0} /\ Available \subseteq Nat
    /\ Buffer.num >= Buffer.den /\ Buffer.den > 0

VARIABLES at,          \* the next step of the preparation
          agreed,      \* the plan
          sized,       \* desired turnover, quantities and prices of the cycle
          funds,       \* the available USDT read for it
          chosen,      \* the leverage selected for it
          side,        \* the symbol whose leverage is prepared
          read,        \* what was last read of it
          setting,     \* the exchange: margin mode and leverage per symbol
          late,        \* changes that raised and may still land
          disturbed,   \* symbols a change of before landed on since they were read
          turnover,    \* total_quote
          rounds

prepVars == <<at, agreed, sized, funds, chosen, side, read, setting, late, disturbed,
              turnover, rounds>>

Pair  == {"BTC", "ETH"}
Modes == {"isolated", "cross"}
Nothing == [mode |-> "unknown", leverage |-> 0]
NotSized == [desired |-> 0, BTC |-> 0, ETH |-> 0, price |-> [BTC |-> 1, ETH |-> 1]]
NoPlan == [beta |-> [num |-> 1, den |-> 1], age |-> 0, target |-> 0, perRound |-> 0,
           reference |-> NotSized.price, estimated |-> 0, policy |-> 0, mode |-> "isolated",
           phased |-> FALSE]
Smaller(x, y) == IF x < y THEN x ELSE y
Distance(x, y) == IF x < y THEN y - x ELSE x - y

----------------------------------------------------------------------------
(* The ratio.                                                                  *)

\* parse_beta_payload: the age that was published and the time the request
\* took.  A low confidence is no reason to refuse.
Usable(status, age, elapsed) == status \in {"ok", "low_confidence"} /\ age + elapsed < MaxAge

Parts(beta) == 2 * (beta.num + beta.den)
\* half of the turnover, by weight: 1 / (1 + beta) and its complement
Share(beta, quote, s) == quote * (IF s = "BTC" THEN beta.den ELSE beta.num)

----------------------------------------------------------------------------
(* Quantities.                                                                 *)

\* _quantity_candidates: the share rounded to steps, at least one, and one more
WholeSteps(beta, quote, price, s) ==
    LET whole == Share(beta, quote, s) \div (Parts(beta) * price[s])
    IN IF whole < 1 THEN 1 ELSE whole
Candidates(beta, quote, price, s) ==
    LET floor == WholeSteps(beta, quote, price, s)
    IN IF floor * price[s] * Parts(beta) = Share(beta, quote, s)
       THEN {floor} ELSE {floor, floor + 1}

Notional(q, price) == q.BTC * price.BTC + q.ETH * price.ETH
Misfit(beta, quote, price, q) ==
      Distance(q.BTC * price.BTC * Parts(beta), Share(beta, quote, "BTC"))
    + Distance(q.ETH * price.ETH * Parts(beta), Share(beta, quote, "ETH"))

Reaching(beta, quote, price) ==
    {q \in {[BTC |-> b, ETH |-> e] : b \in Candidates(beta, quote, price, "BTC"),
                                     e \in Candidates(beta, quote, price, "ETH")} :
        2 * Notional(q, price) >= quote}

\* min(candidates): overshoot, then distance from the shares, then quantities
Precedes(beta, quote, price, q, r) ==
    LET n(x) == Notional(x, price)
        d(x) == Misfit(beta, quote, price, x)
    IN \/ n(q) < n(r)
       \/ n(q) = n(r) /\ d(q) < d(r)
       \/ n(q) = n(r) /\ d(q) = d(r) /\ q.BTC < r.BTC
       \/ n(q) = n(r) /\ d(q) = d(r) /\ q.BTC = r.BTC /\ q.ETH <= r.ETH

\* Mutant: the pair nearest to the shares, whether it reaches the goal or not.
NearestPair(beta, quote, price) ==
    CHOOSE q \in {[BTC |-> b, ETH |-> e] : b \in Candidates(beta, quote, price, "BTC"),
                                           e \in Candidates(beta, quote, price, "ETH")} :
        q.BTC = WholeSteps(beta, quote, price, "BTC") /\ q.ETH = WholeSteps(beta, quote, price, "ETH")

PairQuantities(beta, quote, price) ==
    CHOOSE q \in Reaching(beta, quote, price) :
        \A r \in Reaching(beta, quote, price) : Precedes(beta, quote, price, q, r)

\* both legs below max_position_quote
Fits(q, price) == q.BTC * price.BTC < LegLimit /\ q.ETH * price.ETH < LegLimit

----------------------------------------------------------------------------
(* Leverage.                                                                   *)

Ceiling(n, d) == (n + d - 1) \div d
\* the least leverage that carries half the turnover with the buffer
Required(quote, available) ==
    LET n == Ceiling(quote * Buffer.num, 2 * available * Buffer.den) IN IF n < 1 THEN 1 ELSE n

\* select_leverage; 0: it refuses
Selected(policy, quote, available) ==
    IF available = 0 THEN 0
    ELSE LET n == Required(quote, available)
         IN IF policy = 0 THEN IF n > MaxAuto THEN 0 ELSE n
            ELSE IF policy < n THEN 0 ELSE policy

\* required_available_quote against the balance
Sufficient(policy, quote, available) ==
    LET most == IF policy = 0 THEN MaxAuto ELSE policy
    IN quote * Buffer.num <= 2 * most * Buffer.den * available

----------------------------------------------------------------------------
(* The plan, its review before the session and before a phase, and the rounds. *)

SettingsSame == UNCHANGED <<side, read, setting, late, disturbed>>

\* BetaVolumePlan.create: age is that of the ratio when it arrives, its
\* published age and what the answer took of the request's time
CreatePlan ==
    /\ at = "plan" /\ SettingsSame
    /\ \E beta \in Betas, target \in Targets, policy \in Policies, mode \in Modes,
          price \in Quotes, phased \in BOOLEAN, published, elapsed \in 0..MaxAge :
       \E way \in 0..elapsed :
         LET quote == Smaller(PerRound, target)
             q == PairQuantities(beta, quote, price)
         IN IF /\ Usable("ok", published, elapsed)
               /\ \A s \in Pair : Share(beta, quote, s) >= price[s] * Parts(beta)
               /\ Fits(q, price)
            THEN /\ agreed' = [beta |-> beta, age |-> published + way, target |-> target,
                               perRound |-> quote, reference |-> price,
                               estimated |-> 2 * Notional(q, price), policy |-> policy,
                               mode |-> mode, phased |-> phased]
                 /\ at' = "preflight"
            ELSE at' = "ended" /\ UNCHANGED agreed
    /\ UNCHANGED <<sized, funds, chosen, turnover, rounds>>

\* The reference and the price of now differ by more than one percent.
Drifted(now, then) == 100 * Distance(now, then) > then

\* inspect_live_account: the funds, for an account without positions and orders
Allows(available) ==
    /\ Sufficient(agreed.policy, agreed.estimated, available)
    /\ Selected(agreed.policy, agreed.estimated, available) # 0

\* preflight: the plan's age, the provider, prices, funds, an account at rest.
\* The fleet repeats it in front of every opening phase.
Preflight ==
    /\ at \in {"preflight", "again"} /\ SettingsSame
    /\ \/ \E price \in Quotes, available \in Available :
            /\ \A s \in Pair : ~Drifted(price[s], agreed.reference[s])
            /\ Allows(available)
            /\ at' = IF at = "preflight" THEN "round" ELSE "size"
       \/ at' = "ended"
    /\ UNCHANGED <<agreed, sized, funds, chosen, turnover, rounds>>

RoundStarts ==
    /\ at = "round" /\ SettingsSame
    /\ at' = IF turnover >= agreed.target \/ rounds = MaxCycles THEN "ended"
             ELSE IF agreed.phased THEN "again" ELSE "size"
    /\ UNCHANGED <<agreed, sized, funds, chosen, turnover, rounds>>

\* size_cycle, with prices of now and what is missing to the target
SizeCycle ==
    /\ at = "size" /\ SettingsSame
    /\ \/ \E price \in Quotes :
            LET desired == Smaller(agreed.perRound, agreed.target - turnover)
                q == PairQuantities(agreed.beta, desired, price)
            IN IF Fits(q, price)
               THEN /\ sized' = [desired |-> desired, BTC |-> q.BTC, ETH |-> q.ETH,
                                 price |-> price]
                    /\ at' = "balance"
               ELSE at' = "ended" /\ UNCHANGED sized
       \/ at' = "ended" /\ UNCHANGED sized          \* the reads failed
    /\ UNCHANGED <<agreed, funds, chosen, turnover, rounds>>

\* _prepare_cycle_leverage, its first half
SelectLeverage ==
    /\ at = "balance"
    /\ \/ \E available \in Available :
            /\ funds' = available
            /\ chosen' = Selected(agreed.policy, 2 * Notional(sized, sized.price), available)
            /\ at' = IF chosen' = 0 THEN "ended" ELSE "observe"
       \/ at' = "ended" /\ UNCHANGED <<funds, chosen>>
    /\ side' = "BTC" /\ read' = Nothing /\ disturbed' = {}
    /\ UNCHANGED <<agreed, sized, setting, late, turnover, rounds>>

----------------------------------------------------------------------------
(* _ensure_lane_leverage, for one symbol after the other.                      *)

RestSame == UNCHANGED <<agreed, sized, funds, chosen, turnover, rounds>>

\* A read of the symbol's configuration, or its failure after the retries.
Reads   == read' = setting[side] /\ disturbed' = disturbed \ {side}
Unread  == read' = Nothing /\ UNCHANGED disturbed
Proven(row) == row.mode = agreed.mode /\ row.leverage = chosen

NextLane ==
    IF side = "BTC" THEN side' = "ETH" /\ at' = "observe"
    ELSE at' = "trade" /\ UNCHANGED side

Observe ==
    /\ at = "observe"
    /\ \/ Reads /\ at' = "settle" /\ UNCHANGED side
       \/ Unread /\ at' = "ended" /\ UNCHANGED side
    /\ UNCHANGED <<setting, late>> /\ RestSame

Landed(row, change) == [row EXCEPT !.mode = change.mode,
                                   !.leverage = IF change.leverage = 0 THEN @ ELSE change.leverage]

\* A change is answered, or raises and has landed, lands later, or never does.
SendChange(change) ==
    \/ setting' = [setting EXCEPT ![side] = Landed(@, change)] /\ UNCHANGED late
    \/ late' = late \union {[side |-> side, change |-> change]} /\ UNCHANGED setting
    \/ UNCHANGED <<setting, late>>

ModeChange     == [mode |-> agreed.mode, leverage |-> 0]
LeverageChange == [mode |-> agreed.mode, leverage |-> chosen]

Settle ==
    /\ at = "settle"
    /\ \/ /\ read.mode # agreed.mode
          /\ SendChange(ModeChange) /\ at' = "mode sent" /\ UNCHANGED side
       \/ /\ Proven(read)
          /\ NextLane /\ UNCHANGED <<setting, late>>
       \/ /\ read.mode = agreed.mode /\ read.leverage # chosen
          /\ SendChange(LeverageChange) /\ at' = "leverage sent" /\ UNCHANGED side
    /\ UNCHANGED <<read, disturbed>> /\ RestSame

\* Mutant: a change that was sent needs no proof.
Trusts == read' = LeverageChange /\ UNCHANGED disturbed

\* Nothing is sent a second time: after an answer or an exception the symbol is
\* read, and what it shows decides.
Verifies == Reads \/ Unread
VerifyMode ==
    /\ at = "mode sent" /\ Verifies
    /\ at' = IF read'.mode = agreed.mode THEN "settle" ELSE "ended"
    /\ UNCHANGED <<side, setting, late>> /\ RestSame

VerifyLeverage ==
    /\ at = "leverage sent" /\ Verifies
    /\ IF Proven(read') THEN NextLane ELSE at' = "ended" /\ UNCHANGED side
    /\ UNCHANGED <<setting, late>> /\ RestSame

\* A change that raised lands after all.
Lands ==
    \E m \in late :
        /\ late' = late \ {m}
        /\ setting' = [setting EXCEPT ![m.side] = Landed(@, m.change)]
        /\ disturbed' = disturbed \union {m.side}
        /\ UNCHANGED <<at, side, read>> /\ RestSame

----------------------------------------------------------------------------
(* The cycle.                                                                  *)

\* What a cycle counts: both legs opened and closed, one of them, or none.
Counts(q, price) == {0, 2 * q.BTC * price.BTC, 2 * q.ETH * price.ETH, 2 * Notional(q, price)}

Trade ==
    /\ at = "trade" /\ SettingsSame
    /\ \E quote \in Counts(sized, sized.price) : turnover' = turnover + quote
    /\ at' = "round" /\ rounds' = rounds + 1
    /\ UNCHANGED <<agreed, sized, funds, chosen>>

\* The session has ended.
PrepDone == at = "ended" /\ UNCHANGED prepVars

PrepInit ==
    /\ at = "plan" /\ agreed = NoPlan /\ sized = NotSized
    /\ funds = 0 /\ chosen = 0 /\ side = "BTC" /\ read = Nothing
    /\ \E row \in Settings : setting = [s \in Pair |-> row]
    /\ late \in SUBSET Before /\ disturbed = {}
    /\ turnover = 0 /\ rounds = 0

PrepNext ==
    \/ CreatePlan \/ Preflight \/ RoundStarts \/ SizeCycle \/ SelectLeverage
    \/ Observe \/ Settle \/ VerifyMode \/ VerifyLeverage \/ Lands \/ Trade \/ PrepDone

PrepSpec == PrepInit /\ [][PrepNext]_prepVars

----------------------------------------------------------------------------
(* Properties.                                                                 *)

PrepTypeOK ==
    /\ at \in {"plan", "preflight", "again", "round", "size", "balance", "observe", "settle",
               "mode sent", "leverage sent", "trade", "ended"}
    /\ agreed.target \in {0} \union Targets /\ agreed.policy \in {0} \union Policies
    /\ sized.BTC \in Nat /\ sized.ETH \in Nat /\ funds \in {0} \union Available
    /\ chosen \in Nat /\ side \in Pair
    /\ \A s \in Pair : setting[s].mode \in Modes /\ setting[s].leverage \in Nat \ {0}
    /\ disturbed \subseteq Pair /\ rounds \in 0..MaxCycles

Opening == at \in {"observe", "settle", "mode sent", "leverage sent", "trade"}

\* The two legs of a cycle together reach what the round asks, pass it by less
\* than one step of each leg, and each leg stays within a step and its rounding
\* of the share the ratio gives it.
PairReaches ==
    Opening =>
        /\ 2 * Notional(sized, sized.price) >= sized.desired
        /\ 2 * Notional(sized, sized.price)
             < sized.desired + 2 * (sized.price.BTC + sized.price.ETH)
        /\ \A s \in Pair :
             LET has == sized[s] * sized.price[s] * Parts(agreed.beta)
                 step == sized.price[s] * Parts(agreed.beta)
             IN /\ has > Share(agreed.beta, sized.desired, s) - step
                /\ has < Share(agreed.beta, sized.desired, s) + 2 * step

\* However its rounds went, a session passes its target by less than one step
\* of each leg, at the highest prices.
SessionStopsAtTarget ==
    \E price \in Quotes : turnover < agreed.target + 2 * (price.BTC + price.ETH) \/ turnover = 0

\* A ratio that was too old when it arrived is never agreed on, however the
\* request's time was spent.
RatioIsFresh == agreed.age < MaxAge

\* The two tests of the preflight agree: funds that suffice can be levered, and
\* the others cannot.
TestsAgree ==
    \A available \in Available \ {0} :
        Sufficient(agreed.policy, agreed.estimated, available)
            <=> Selected(agreed.policy, agreed.estimated, available) # 0

\* No order before both symbols were seen with the margin mode and the leverage
\* of the plan, and the leverage carries the cycle with the funds read for it.
\* Only a change of before that lands in between escapes the proof.
LeverageIsProven ==
    at = "trade" =>
        /\ \A s \in Pair \ disturbed : Proven(setting[s])
        /\ chosen * funds * Buffer.den >= Notional(sized, sized.price) * Buffer.num

CyclesAreReady ==
    PairReaches /\ SessionStopsAtTarget /\ RatioIsFresh /\ TestsAgree /\ LeverageIsProven
=============================================================================
