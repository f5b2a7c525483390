--------------------------- MODULE BetaCycleProofs ---------------------------
(***************************************************************************)
(* What TLAPS proves of BetaCycle, for any lot size, target and limits,    *)
(* and of the history of an account's trades that runs beside it, for any  *)
(* page, window and delay.                                                 *)
(***************************************************************************)
EXTENDS MCBetaCycle, FiniteSetTheorems, NaturalsInduction, SequenceTheorems, WellFoundedInduction, TLAPS

(***************************************************************************)
(* The sum of a sequence of numbers.                                       *)
(***************************************************************************)
\* A set of naturals with 0 and every successor holds them all.
LEMMA NaturalsAreReached ==
    ASSUME NEW S \in SUBSET Nat, 0 \in S, \A n \in S : n + 1 \in S
    PROVE S = Nat
<1>1. SUFFICES ASSUME Nat \ S # {} PROVE FALSE
    OBVIOUS
<1>2. PICK x \in Nat \ S : \A y \in Nat \ S : ~(<<y, x>> \in OpToRel(<, Nat))
    <2>1. Nat \ S \subseteq Nat
        OBVIOUS
    <2> QED
        BY <1>1, <2>1, WFMin, NatLessThanWellFounded, Zenon
<1>3. \A y \in Nat \ S : ~(y < x)
    BY <1>2 DEF OpToRel
<1>4. x # 0 /\ x - 1 \in Nat /\ x - 1 < x /\ (x - 1) + 1 = x
    <2>1. x \in Nat /\ x # 0
        BY <1>2
    <2> QED
        BY <2>1
<1>5. x - 1 \in S
    BY <1>3, <1>4
<1> QED
    BY <1>2, <1>4, <1>5

\* f holds the sums of the prefixes of s, up to the one of length n.
Sums(f, s, n) ==
    /\ f \in [0..n -> Int] /\ f[0] = 0
    /\ \A k \in 1..n : f[k] = f[k - 1] + s[k]

LEMMA SumsExist ==
    ASSUME NEW s \in Seq(Int)
    PROVE \E f : Sums(f, s, Len(s))
<1> DEFINE S == {n \in Nat : n <= Len(s) => \E f : Sums(f, s, n)}
<1>0. Len(s) \in Nat /\ \A k \in 1..Len(s) : s[k] \in Int
    OBVIOUS
<1>1. 0 \in S
    <2>1. Sums([k \in 0..0 |-> 0], s, 0)
        BY DEF Sums
    <2> QED
        BY <2>1
<1>2. ASSUME NEW n \in S PROVE n + 1 \in S
    <2>1. SUFFICES ASSUME n + 1 <= Len(s) PROVE \E f : Sums(f, s, n + 1)
        OBVIOUS
    <2>2. PICK f : Sums(f, s, n)
        BY <2>1, <1>0
    <2> DEFINE g == [k \in 0..(n + 1) |-> IF k = n + 1 THEN f[n] + s[n + 1] ELSE f[k]]
    <2>3. n \in Nat /\ s[n + 1] \in Int /\ f[n] \in Int
        BY <2>1, <2>2, <1>0 DEF Sums
    <2>4. g \in [0..(n + 1) -> Int]
        BY <2>2, <2>3 DEF Sums
    <2>5. ASSUME NEW k \in 1..(n + 1) PROVE g[k] = g[k - 1] + s[k]
        <3>1. CASE k = n + 1
            BY <3>1, <2>3
        <3>2. CASE k \in 1..n
            BY <3>2, <2>2, <2>3 DEF Sums
        <3> QED
            BY <3>1, <3>2, <2>3
    <2>6. g[0] = 0
        BY <2>2, <2>3 DEF Sums
    <2>7. Sums(g, s, n + 1)
        BY <2>4, <2>5, <2>6 DEF Sums
    <2> QED
        BY <2>7
<1>3. S = Nat
    <2>1. S \in SUBSET Nat
        OBVIOUS
    <2> HIDE DEF S
    <2> QED
        BY <1>1, <1>2, <2>1, NaturalsAreReached
<1>4. Len(s) \in S
    BY <1>0, <1>3
<1> QED
    BY <1>0, <1>4

\* f adds up s: each value is the one before and the next number of s.
Adds(f, s, n) == \A k \in 1..n : f[k] = f[k - 1] + s[k]

\* Two functions that add up sequences which agree are the same.
LEMMA SumsAreUnique ==
    ASSUME NEW m \in Nat, NEW s, NEW t, NEW f, NEW g,
           f[0] = g[0],
           Adds(f, s, m), Adds(g, t, m),
           \A k \in 1..m : s[k] = t[k]
    PROVE \A k \in 0..m : f[k] = g[k]
<1> DEFINE S == {n \in Nat : n <= m => f[n] = g[n]}
<1>1. 0 \in S
    OBVIOUS
<1>2. ASSUME NEW n \in S PROVE n + 1 \in S
    <2>1. SUFFICES ASSUME n + 1 <= m PROVE f[n + 1] = g[n + 1]
        OBVIOUS
    <2>2. f[n] = g[n] /\ n + 1 \in 1..m /\ (n + 1) - 1 = n
        BY <2>1
    <2> QED
        BY <2>2 DEF Adds
<1>3. S = Nat
    <2>1. S \in SUBSET Nat
        OBVIOUS
    <2> HIDE DEF S
    <2> QED
        BY <1>1, <1>2, <2>1, NaturalsAreReached
<1> QED
    BY <1>3

\* Total is the last of the sums.
LEMMA TotalIsLast ==
    ASSUME NEW s \in Seq(Int), NEW f, Sums(f, s, Len(s))
    PROVE Total(s) = f[Len(s)] /\ Total(s) \in Int
<1> DEFINE Is(g) == g = [n \in 0..Len(s) |-> IF n = 0 THEN 0 ELSE g[n - 1] + s[n]]
           sum == CHOOSE g : Is(g)
<1>0. Len(s) \in Nat /\ \A k \in 1..Len(s) : s[k] \in Int
    OBVIOUS
<1>1. Total(s) = sum[Len(s)]
    BY DEF Total
<1>2. Is(f)
    <2>1. f = [n \in 0..Len(s) |-> f[n]]
        BY DEF Sums
    <2>2. \A n \in 0..Len(s) : f[n] = IF n = 0 THEN 0 ELSE f[n - 1] + s[n]
        BY <1>0 DEF Sums
    <2> QED
        BY <2>1, <2>2
<1>3. Is(sum)
    <2> HIDE DEF Is
    <2> QED
        BY <1>2
<1> HIDE DEF sum
<1>4. sum[0] = 0 /\ Adds(sum, s, Len(s))
    BY <1>0, <1>3 DEF Adds
<1>5. f[0] = sum[0] /\ Adds(f, s, Len(s))
    BY <1>4 DEF Sums, Adds
<1>6. \A k \in 0..Len(s) : f[k] = sum[k]
    <2>1. \A k \in 1..Len(s) : s[k] = s[k]
        OBVIOUS
    <2> QED
        BY <1>0, <1>4, <1>5, <2>1, SumsAreUnique
<1> QED
    BY <1>0, <1>1, <1>6 DEF Sums

LEMMA TotalTyped ==
    ASSUME NEW s \in Seq(Int)
    PROVE Total(s) \in Int
BY SumsExist, TotalIsLast

LEMMA TotalEmpty == Total(<<>>) = 0
<1>1. Sums([k \in 0..0 |-> 0], <<>>, 0)
    BY DEF Sums
<1>2. <<>> \in Seq(Int) /\ Len(<<>>) = 0
    OBVIOUS
<1> QED
    BY <1>1, <1>2, TotalIsLast

LEMMA TotalAppend ==
    ASSUME NEW s \in Seq(Int), NEW x \in Int
    PROVE Total(Append(s, x)) = Total(s) + x
<1> DEFINE t == Append(s, x)
           n == Len(s)
<1>1. t \in Seq(Int) /\ Len(t) = n + 1 /\ n \in Nat /\ t[n + 1] = x
      /\ \A k \in 1..n : t[k] = s[k]
    OBVIOUS
<1>2. PICK f : Sums(f, s, n)
    BY SumsExist
<1>3. PICK g : Sums(g, t, n + 1)
    BY <1>1, SumsExist
<1> HIDE DEF t
<1>4. \A k \in 0..n : f[k] = g[k]
    <2>1. Adds(g, t, n)
        BY <1>1, <1>3 DEF Sums, Adds
    <2>2. f[0] = g[0] /\ Adds(f, s, n)
        BY <1>2, <1>3 DEF Sums, Adds
    <2>3. n \in Nat /\ \A k \in 1..n : s[k] = t[k]
        BY <1>1
    <2> HIDE DEF n
    <2> QED
        BY <2>1, <2>2, <2>3, SumsAreUnique
<1>5. g[n + 1] = g[n] + x
    BY SMTT(40), <1>1, <1>3 DEF Sums
<1>6. Total(s) = f[n] /\ Total(t) = g[n + 1]
    BY <1>1, <1>2, <1>3, TotalIsLast
<1>7. Total(t) = Total(s) + x
    BY <1>1, <1>4, <1>5, <1>6
<1> QED
    BY <1>7 DEF t

LEMMA TotalExcept ==
    ASSUME NEW s \in Seq(Int), NEW i \in 1..Len(s), NEW x \in Int
    PROVE Total([s EXCEPT ![i] = x]) = Total(s) - s[i] + x
<1> DEFINE t == [s EXCEPT ![i] = x]
           n == Len(s)
<1>1. /\ t \in Seq(Int) /\ Len(t) = n /\ n \in Nat
      /\ \A k \in 1..n : s[k] \in Int /\ t[k] = IF k = i THEN x ELSE s[k]
    OBVIOUS
<1>2. PICK f : Sums(f, s, n)
    BY SumsExist
<1> DEFINE g == [k \in 0..n |-> IF k < i THEN f[k] ELSE f[k] - s[i] + x]
<1>3. \A k \in 0..n : f[k] \in Int
    BY <1>2 DEF Sums
<1> HIDE DEF t
<1>4. g \in [0..n -> Int]
    BY <1>1, <1>3
<1>5. g[0] = 0
    BY <1>1, <1>2 DEF Sums
<1>6. ASSUME NEW k \in 1..n PROVE g[k] = g[k - 1] + t[k]
    <2>1. f[k] = f[k - 1] + s[k] /\ f[k] \in Int /\ f[k - 1] \in Int /\ s[k] \in Int
          /\ s[i] \in Int
        BY <1>1, <1>2, <1>3 DEF Sums
    <2>2. CASE k < i
        BY <1>1, <2>1, <2>2
    <2>3. CASE k = i
        BY SMTT(40), <1>1, <2>1, <2>3
    <2>4. CASE k > i
        <3>1. ~(k < i) /\ ~(k - 1 < i) /\ k \in 0..n /\ k - 1 \in 0..n /\ t[k] = s[k]
            BY <1>1, <2>4
        <3>2. g[k] = f[k] - s[i] + x /\ g[k - 1] = f[k - 1] - s[i] + x
            BY <3>1
        <3>3. f[k] - s[i] + x = (f[k - 1] - s[i] + x) + s[k]
            BY <2>1
        <3> HIDE DEF g
        <3>4. g[k] = g[k - 1] + s[k]
            BY <3>2, <3>3, Zenon
        <3> QED
            BY <3>1, <3>4, Zenon
    <2> QED
        BY <2>2, <2>3, <2>4
<1>7. Sums(g, t, n)
    BY <1>4, <1>5, <1>6 DEF Sums
<1>8. Total(t) = g[n]
    BY <1>1, <1>7, TotalIsLast
<1>9. Total(s) = f[n]
    BY <1>2, TotalIsLast
<1>10. g[n] = f[n] - s[i] + x
    BY <1>1
<1>11. Total(t) = Total(s) - s[i] + x
    BY <1>8, <1>9, <1>10
<1> QED
    BY <1>11 DEF t

LEMMA TotalNat ==
    ASSUME NEW s \in Seq(Nat)
    PROVE Total(s) \in Nat
<1>0. s \in Seq(Int) /\ Len(s) \in Nat /\ \A k \in 1..Len(s) : s[k] \in Nat
    OBVIOUS
<1>1. PICK f : Sums(f, s, Len(s))
    BY <1>0, SumsExist
<1> DEFINE S == {n \in Nat : n <= Len(s) => f[n] \in Nat}
<1>2. 0 \in S
    BY <1>1 DEF Sums
<1>3. ASSUME NEW n \in S PROVE n + 1 \in S
    <2>1. SUFFICES ASSUME n + 1 <= Len(s) PROVE f[n + 1] \in Nat
        OBVIOUS
    <2>2. n \in Nat /\ n + 1 \in 1..Len(s) /\ (n + 1) - 1 = n /\ f[n] \in Nat
        BY <1>0, <2>1
    <2> QED
        BY SMTT(40), <1>0, <1>1, <2>2 DEF Sums
<1>4. S = Nat
    <2>1. S \in SUBSET Nat
        OBVIOUS
    <2> HIDE DEF S
    <2> QED
        BY <1>2, <1>3, <2>1, NaturalsAreReached
<1>5. f[Len(s)] \in Nat
    BY <1>0, <1>4
<1> QED
    BY <1>0, <1>1, <1>5, TotalIsLast

\* A sequence that is nowhere greater has no greater sum.
LEMMA TotalMonotone ==
    ASSUME NEW s \in Seq(Int), NEW t \in Seq(Int), Len(s) = Len(t),
           \A k \in 1..Len(s) : s[k] <= t[k]
    PROVE Total(s) <= Total(t)
<1>1. PICK f : Sums(f, s, Len(s))
    BY SumsExist
<1>2. PICK g : Sums(g, t, Len(s))
    BY SumsExist
<1>3. Len(s) \in Nat /\ \A k \in 1..Len(s) : s[k] \in Int /\ t[k] \in Int
    OBVIOUS
<1> DEFINE S == {n \in Nat : n <= Len(s) => f[n] <= g[n]}
<1>4. 0 \in S
    BY <1>1, <1>2 DEF Sums
<1>5. ASSUME NEW n \in S PROVE n + 1 \in S
    <2>1. SUFFICES ASSUME n + 1 <= Len(s) PROVE f[n + 1] <= g[n + 1]
        OBVIOUS
    <2>2. n \in Nat /\ n + 1 \in 1..Len(s) /\ (n + 1) - 1 = n /\ f[n] <= g[n]
        BY <1>3, <2>1
    <2>3. f[n + 1] = f[n] + s[n + 1] /\ g[n + 1] = g[n] + t[n + 1]
        BY <1>1, <1>2, <2>2 DEF Sums
    <2>4. f[n] \in Int /\ g[n] \in Int
      <3>1. n \in 0..Len(s) /\ f \in [0..Len(s) -> Int] /\ g \in [0..Len(s) -> Int]
        BY <1>1, <1>2, <1>3, <2>2 DEF Sums
      <3> QED
        BY <3>1
    <2> QED
        BY <1>3, <2>2, <2>3, <2>4
<1>6. S = Nat
    <2>1. S \in SUBSET Nat
        OBVIOUS
    <2> HIDE DEF S
    <2> QED
        BY <1>4, <1>5, <2>1, NaturalsAreReached
<1>7. f[Len(s)] <= g[Len(s)]
    BY <1>3, <1>6
<1> QED
    BY <1>1, <1>2, <1>7, TotalIsLast

(***************************************************************************)
(* The inductive invariant.                                                *)
(***************************************************************************)
LaneRecords ==
    [task : Tasks, job : Jobs, attempt : 0..RecoveryAttempts + 1, begin : 0..Lots,
     fills : Nat, end : 0..Lots + 1, result : Results, owned : Int, stop : Stops,
     flat : BOOLEAN]

ExchangeTyped ==
    /\ held \in [Lanes -> 0..Lots] /\ own \in [Lanes -> 0..Lots]
    /\ stray \in [Lanes -> [Jobs -> Nat]] /\ traded \in Nat
ControlTyped ==
    /\ stopping \in BOOLEAN /\ pc \in Steps /\ turn \in Lanes
    /\ round \in 1..MaxRounds + 1 /\ empty \in Nat /\ total \in Nat
    /\ laneStop \in [Lanes -> Stops \ {"raised"}] /\ verifiedAll \in BOOLEAN
    /\ status \in {"executing", "completed", "stopped", "uncertain"}
LaneTyped == lane \in [Lanes -> LaneRecords]
BooksTyped == legs \in [Lanes -> Seq(LegRecords)] /\ carried \in [Lanes -> Int]
              /\ doubtful \in BOOLEAN
HistoryTyped == dustClosed \in [Lanes -> BOOLEAN] /\ closes \in [Lanes -> Nat]
                /\ faults \in 0..MaxFaults
Typed == ExchangeTyped /\ ControlTyped /\ LaneTyped /\ BooksTyped /\ HistoryTyped

\* A lane's thread has attempts left while it works, closes where it says so,
\* has an order only while its leg runs, and hands an exception only to the
\* coordinator's closing steps.
Legging == {"trade", "end", "reconcile", "orders", "cleanup"}
LaneOK(l) ==
    /\ lane[l].task \notin {"observe", "idle", "done"} =>
          lane[l].attempt \in 1..RecoveryAttempts
    /\ lane[l].task = "observe" => lane[l].attempt \in 1..RecoveryAttempts + 1
    /\ lane[l].task \in {"observe", "after", "dust", "dust_send"} => lane[l].job = "flatten"
    /\ lane[l].stop = "raised" => lane[l].task = "done" /\ pc # "opening"
    /\ lane[l].task \notin Legging => lane[l].fills = 0
    /\ own[l] > 0 => lane[l].task \in Legging
LaneInv == \A l \in Lanes : LaneOK(l)

\* Where the coordinator is says which threads may run, and what they do.
InCycle == {"prepare", "opening", "hold", "gate", "barrier", "closing", "account",
            "refresh", "checkpoint", "gap"}
AtRest == {"begin", "round", "prepare", "hold", "gate", "account", "refresh",
           "checkpoint", "gap", "final", "cancel", "prove"}
Resting(l) == lane[l].task = "idle"
PhaseInv ==
    /\ pc \in InCycle => round <= MaxRounds
    /\ pc \in AtRest => \A l \in Lanes : Resting(l)
    /\ pc = "opening" => \A l \in Lanes : lane[l].job = "open"
    /\ pc # "opening" => \A l \in Lanes : lane[l].job = "open" => Settled(l)
    /\ pc \in {"barrier", "sweep"} => Resting("ETH") /\ (turn = "BTC" => Resting("BTC"))
    /\ pc \in {"closing", "swept"} /\ turn = "ETH" => Resting("BTC")
    /\ pc = "done" => AllDone

\* A verdict is only saved on the way out.
VerdictInv ==
    /\ status # "executing" => pc \in {"shutdown", "done"}
    /\ KnownVerdict

\* A market close is sent only under the intent of its cycle, once.
CloseOK(l) ==
    /\ closes[l] <= 1
    /\ closes[l] = 1 => dustClosed[l] /\ lane[l].task # "dust_send"
    /\ lane[l].task = "dust_send" => dustClosed[l]
CloseInv == \A l \in Lanes : CloseOK(l)

BaseInv == Typed /\ LaneInv /\ PhaseInv /\ VerdictInv /\ CloseInv

\* What a step of the thread of lane l does to everything but the volume.
Moves(l) ==
    /\ ~Settled(l)
    /\ UNCHANGED <<stopping, coordinator, carried, doubtful>>
    /\ lane' = [lane EXCEPT ![l] = lane'[l]] /\ lane'[l] \in LaneRecords
    /\ lane'[l].job = lane[l].job \/ (lane'[l].job = "open" /\ lane'[l].task = "done")
    /\ LaneOK(l)'
    /\ own' = [own EXCEPT ![l] = own'[l]] /\ ExchangeTyped'
    /\ legs' \in [Lanes -> Seq(LegRecords)]
    /\ dustClosed' = [dustClosed EXCEPT ![l] = dustClosed'[l]]
    /\ closes' = [closes EXCEPT ![l] = closes'[l]]
    /\ CloseOK(l)' /\ HistoryTyped'

LEMMA LanesAreTwo == /\ \A l \in Lanes : l = "BTC" \/ l = "ETH"
                     /\ IsFiniteSet(Lanes)
                     /\ "BTC" \in Lanes /\ "ETH" \in Lanes
<1>1. IsFiniteSet({"BTC"} \cup {"ETH"})
    BY FS_Singleton, FS_Union
<1>2. Lanes = {"BTC"} \cup {"ETH"}
    BY DEF Lanes
<1> QED
    BY <1>1, <1>2

LEMMA ThreadTyped ==
    ASSUME NEW task \in Tasks, NEW job \in Jobs, NEW attempt \in 0..RecoveryAttempts + 1,
           NEW owned \in Int, NEW stop \in Stops, NEW flat \in BOOLEAN
    PROVE  /\ Thread(task, job, attempt, owned, stop, flat) \in LaneRecords
           /\ Thread(task, job, attempt, owned, stop, flat).task = task
           /\ Thread(task, job, attempt, owned, stop, flat).job = job
           /\ Thread(task, job, attempt, owned, stop, flat).attempt = attempt
           /\ Thread(task, job, attempt, owned, stop, flat).stop = stop
           /\ Thread(task, job, attempt, owned, stop, flat).fills = 0
BY CycleAssumption DEF Thread, LaneRecords, Results

LEMMA IdleTyped == Idle \in LaneRecords /\ Idle.task = "idle" /\ Idle.job = "open"
                   /\ Idle.stop = "none" /\ Idle.fills = 0
BY CycleAssumption DEF Idle, Thread, LaneRecords, Tasks, Jobs, Stops, Results

LEMMA InitBase == Init => BaseInv
<1> SUFFICES ASSUME Init PROVE BaseInv
    OBVIOUS
<1> USE CycleAssumption, LanesAreTwo DEF Init
<1>1. ExchangeTyped
    BY DEF ExchangeTyped, NoOrders
<1>2. ControlTyped
  <2>1. laneStop \in [Lanes -> Stops \ {"raised"}]
      BY DEF Stops
  <2>2. round \in 1..MaxRounds + 1
      OBVIOUS
  <2> QED
      BY <2>1, <2>2 DEF ControlTyped, Steps
<1>3. LaneTyped
    BY IdleTyped DEF LaneTyped
<1>4. BooksTyped /\ HistoryTyped
  <2>1. legs \in [Lanes -> Seq(LegRecords)]
      OBVIOUS
  <2>2. carried \in [Lanes -> Int] /\ closes \in [Lanes -> Nat] /\ faults \in 0..MaxFaults
      OBVIOUS
  <2>3. dustClosed \in [Lanes -> BOOLEAN]
      BY Zenon
  <2> QED
      BY <2>1, <2>2, <2>3 DEF BooksTyped, HistoryTyped
<1>5. LaneInv
    BY IdleTyped DEF LaneInv, LaneOK
<1>6. PhaseInv /\ VerdictInv /\ CloseInv
    BY IdleTyped DEF PhaseInv, VerdictInv, CloseInv, CloseOK, KnownVerdict, Resting, AllDone,
                     Settled
<1> QED
    BY <1>1, <1>2, <1>3, <1>4, <1>5, <1>6 DEF BaseInv, Typed

(***************************************************************************)
(* The steps of a lane's thread.                                           *)
(***************************************************************************)
\* The parts of Moves, for a step that writes the record r.
LEMMA RecordMoves ==
    ASSUME BaseInv, NEW l \in Lanes, NEW r \in LaneRecords, lane' = [lane EXCEPT ![l] = r]
    PROVE  lane' = [lane EXCEPT ![l] = lane'[l]] /\ lane'[l] = r
BY DEF BaseInv, Typed, LaneTyped

LEMMA ReturnMoves ==
    ASSUME BaseInv, NEW l \in Lanes, NEW flat \in BOOLEAN, NEW stop \in Stops,
           Return(l, flat, stop), own[l] = 0, own' = own, pc' = pc,
           stop = "raised" => pc # "opening"
    PROVE  /\ lane' = [lane EXCEPT ![l] = lane'[l]] /\ lane'[l] \in LaneRecords
           /\ lane'[l].job = "open" /\ lane'[l].task = "done" /\ LaneOK(l)'
<1> DEFINE r == Thread("done", "open", 0, 0, stop, flat)
<1>1. r \in LaneRecords /\ r.task = "done" /\ r.job = "open" /\ r.stop = stop /\ r.fills = 0
    BY CycleAssumption DEF Thread, LaneRecords, Tasks, Jobs, Results
<1> HIDE DEF r
<1>2. lane' = [lane EXCEPT ![l] = r]
    BY DEF Return, r
<1>3. lane' = [lane EXCEPT ![l] = lane'[l]] /\ lane'[l] = r
    BY <1>1, <1>2, RecordMoves
<1>4. LaneOK(l)'
    BY <1>1, <1>3 DEF LaneOK, Legging
<1> QED
    BY <1>1, <1>3, <1>4

\* A leg that is done: an opening thread ends, a closing one goes on.
LEMMA LegDoneMoves ==
    ASSUME BaseInv, NEW l \in Lanes, NEW stop \in Stops \ {"raised"}, LegDone(l, stop),
           lane[l].task \notin {"observe", "idle", "done"}, own'[l] = 0
    PROVE  /\ lane' = [lane EXCEPT ![l] = lane'[l]] /\ lane'[l] \in LaneRecords
           /\ \/ lane'[l].job = "open" /\ lane'[l].task = "done"
              \/ lane'[l].job = lane[l].job /\ lane'[l].task = "after"
           /\ LaneOK(l)'
<1> DEFINE done == Thread("done", "open", 0, 0, stop, FALSE)
           after == Thread("after", "flatten", lane[l].attempt, lane[l].owned, stop, FALSE)
<1>0. lane[l] \in LaneRecords /\ lane[l].attempt \in 1..RecoveryAttempts
    BY DEF BaseInv, Typed, LaneTyped, LaneInv, LaneOK
<1>1. done \in LaneRecords /\ done.task = "done" /\ done.job = "open" /\ done.stop = stop
      /\ done.fills = 0
    BY CycleAssumption DEF Thread, LaneRecords, Tasks, Jobs, Results
<1>2. after \in LaneRecords /\ after.task = "after" /\ after.job = "flatten"
      /\ after.attempt = lane[l].attempt /\ after.stop = stop /\ after.fills = 0
    BY <1>0, CycleAssumption DEF Thread, LaneRecords, Tasks, Jobs, Results
<1>3. lane' = [lane EXCEPT ![l] = IF lane[l].job = "open" THEN done ELSE after]
    BY DEF LegDone
<1> HIDE DEF done, after
<1>4. CASE lane[l].job = "open"
  <2>1. lane' = [lane EXCEPT ![l] = lane'[l]] /\ lane'[l] = done
      BY <1>1, <1>3, <1>4, RecordMoves
  <2>2. LaneOK(l)'
      BY <1>1, <2>1 DEF LaneOK, Legging
  <2> QED
      BY <1>1, <2>1, <2>2
<1>5. CASE lane[l].job # "open"
  <2>1. lane' = [lane EXCEPT ![l] = lane'[l]] /\ lane'[l] = after
      BY <1>2, <1>3, <1>5, RecordMoves
  <2>2. LaneOK(l)'
      BY <1>0, <1>2, <2>1 DEF LaneOK, Legging
  <2>3. lane[l].job = "flatten"
      BY <1>0, <1>5 DEF LaneRecords, Jobs
  <2> QED
      BY <1>2, <2>1, <2>2, <2>3
<1> QED
    BY <1>4, <1>5

\* The books stay typed, and so does the count of what went wrong.
LEMMA AddLegTyped ==
    ASSUME BaseInv, NEW l \in Lanes, NEW leg \in LegRecords, AddLeg(l, leg)
    PROVE  legs' \in [Lanes -> Seq(LegRecords)]
<1>1. legs \in [Lanes -> Seq(LegRecords)]
    BY DEF BaseInv, Typed, BooksTyped
<1>2. Append(legs[l], leg) \in Seq(LegRecords)
    BY <1>1
<1> QED
    BY <1>1, <1>2 DEF AddLeg

LEMMA ExceptionTyped ==
    ASSUME BaseInv, NEW l \in Lanes
    PROVE  ExceptionSummary(l) \in LegRecords
<1>1. lane[l].job \in Jobs
    BY DEF BaseInv, Typed, LaneTyped, LaneRecords
<1> QED
    BY <1>1 DEF ExceptionSummary, LegRecords

LEMMA CostsTyped ==
    ASSUME BaseInv, NEW n \in Nat, Costs(n)
    PROVE  faults' \in 0..MaxFaults
BY CycleAssumption DEF Costs, BaseInv, Typed, HistoryTyped

LEMMA FaultTyped ==
    ASSUME BaseInv, NEW b, Fault(b)
    PROVE  faults' \in 0..MaxFaults
BY CycleAssumption DEF Fault, Costs, BaseInv, Typed, HistoryTyped

\* A step that leaves the exchange and the history of the lane alone.
LEMMA QuietHistory ==
    ASSUME BaseInv, NEW l \in Lanes, UNCHANGED history, faults' \in 0..MaxFaults,
           lane[l].task # "dust_send", lane'[l].task # "dust_send"
    PROVE  /\ dustClosed' = [dustClosed EXCEPT ![l] = dustClosed'[l]]
           /\ closes' = [closes EXCEPT ![l] = closes'[l]]
           /\ CloseOK(l)' /\ HistoryTyped'
<1>1. CloseOK(l) /\ HistoryTyped
    BY DEF BaseInv, Typed, CloseInv
<1>2. dustClosed' = [dustClosed EXCEPT ![l] = dustClosed'[l]]
      /\ closes' = [closes EXCEPT ![l] = closes'[l]]
    BY <1>1 DEF history, HistoryTyped
<1>3. CloseOK(l)'
    BY <1>1 DEF history, CloseOK
<1> QED
    BY <1>1, <1>2, <1>3 DEF history, HistoryTyped

LEMMA QuietExchange ==
    ASSUME BaseInv, NEW l \in Lanes, UNCHANGED exchange
    PROVE  own' = [own EXCEPT ![l] = own'[l]] /\ ExchangeTyped' /\ own' = own
BY DEF BaseInv, Typed, ExchangeTyped, exchange

LEMMA BeginLegMoves ==
    ASSUME BaseInv, NEW l \in Lanes, BeginLeg(l)
    PROVE  Moves(l)
<1>1. /\ lane[l].task = "start" /\ lane[l] \in LaneRecords /\ own[l] = 0 /\ held[l] \in 0..Lots
      /\ LaneOK(l)
    BY DEF BeginLeg, Task, BaseInv, Typed, LaneTyped, LaneInv, LaneOK, ExchangeTyped, Legging
<1>2. /\ UNCHANGED exchange /\ UNCHANGED history
      /\ UNCHANGED <<stopping, coordinator, carried, doubtful>>
    BY DEF BeginLeg, history
<1>3. faults' \in 0..MaxFaults /\ legs' \in [Lanes -> Seq(LegRecords)]
    BY CostsTyped, AddLegTyped, ExceptionTyped
       DEF BeginLeg, BaseInv, Typed, HistoryTyped, BooksTyped
<1>4. /\ lane' = [lane EXCEPT ![l] = lane'[l]] /\ lane'[l] \in LaneRecords
      /\ lane'[l].job = lane[l].job \/ (lane'[l].job = "open" /\ lane'[l].task = "done")
      /\ LaneOK(l)' /\ lane'[l].task # "dust_send"
  <2>1. CASE LegDone(l, "observation")
      BY <1>1, <1>2, <2>1, LegDoneMoves, QuietExchange DEF Stops, UncertainStops
  <2>2. CASE lane' = [lane EXCEPT ![l].task = "trade", ![l].begin = held[l]]
    <3> DEFINE r == [lane[l] EXCEPT !.task = "trade", !.begin = held[l]]
    <3>1. r \in LaneRecords /\ r.task = "trade" /\ r.job = lane[l].job
          /\ r.attempt = lane[l].attempt /\ r.stop = lane[l].stop
        BY <1>1 DEF LaneRecords, Tasks
    <3>2. lane' = [lane EXCEPT ![l] = r]
        BY <2>2
    <3> HIDE DEF r
    <3>3. lane' = [lane EXCEPT ![l] = lane'[l]] /\ lane'[l] = r
        BY <3>1, <3>2, RecordMoves
    <3>4. LaneOK(l)'
        BY <1>1, <3>1, <3>3 DEF LaneOK, Legging
    <3> QED
        BY <3>1, <3>3, <3>4
  <2> QED
      BY <2>1, <2>2 DEF BeginLeg
<1>5. ~Settled(l)
    BY <1>1 DEF Settled
<1> QED
    BY <1>1, <1>2, <1>3, <1>4, <1>5, QuietHistory, QuietExchange DEF Moves

\* A step within a leg: only what the leg knows changes.
LEMMA LegStepMoves ==
    ASSUME BaseInv, NEW l \in Lanes, NEW r \in LaneRecords, lane' = [lane EXCEPT ![l] = r],
           lane[l].task \in Legging \cup {"start"}, r.task \in Legging, r.job = lane[l].job,
           r.attempt = lane[l].attempt, r.stop # "raised"
    PROVE  /\ lane' = [lane EXCEPT ![l] = lane'[l]] /\ lane'[l] = r
           /\ LaneOK(l)' /\ lane[l].task # "dust_send" /\ lane'[l].task # "dust_send"
           /\ ~Settled(l)
<1>1. lane' = [lane EXCEPT ![l] = lane'[l]] /\ lane'[l] = r
    BY RecordMoves
<1>2. LaneOK(l) /\ lane[l].task \notin {"observe", "idle", "done", "dust_send"}
    BY DEF BaseInv, LaneInv, Legging
<1>3. LaneOK(l)'
    BY <1>1, <1>2 DEF LaneOK, Legging
<1> QED
    BY <1>1, <1>2, <1>3 DEF Legging, Settled

LEMMA WithinLeg ==
    ASSUME BaseInv, NEW l \in Lanes, NEW t \in Legging, lane[l].task = t
    PROVE  /\ lane[l] \in LaneRecords /\ lane[l].stop # "raised" /\ ~Settled(l)
           /\ lane[l].task \notin {"observe", "idle", "done", "dust_send"}
           /\ LaneOK(l)
BY DEF BaseInv, Typed, LaneTyped, LaneInv, LaneOK, Legging, Settled

LEMMA QuoteMoves ==
    ASSUME BaseInv, NEW l \in Lanes, Quote(l) \/ Withdraw(l)
    PROVE  Moves(l)
<1>1. /\ lane[l].task = "trade" /\ lane[l] \in LaneRecords /\ held[l] \in 0..Lots
      /\ lane[l].stop # "raised" /\ ~Settled(l) /\ LaneOK(l)
    BY WithinLeg DEF Quote, Withdraw, Task, BaseInv, Typed, ExchangeTyped, Legging
<1>2. /\ UNCHANGED <<stopping, coordinator, carried, doubtful>> /\ UNCHANGED history
      /\ UNCHANGED <<held, stray, traded, lane, legs, faults>>
    BY DEF Quote, Withdraw, history, books
<1>3. own' = [own EXCEPT ![l] = own'[l]] /\ ExchangeTyped'
  <2>1. \E n \in 0..Lots : own' = [own EXCEPT ![l] = n]
      BY <1>1, CycleAssumption DEF Quote, Withdraw, Apart, Goal
  <2>2. PICK n \in 0..Lots : own' = [own EXCEPT ![l] = n]
      BY <2>1
  <2> QED
      BY <1>2, <2>2 DEF BaseInv, Typed, ExchangeTyped
<1>4. LaneOK(l)'
    BY <1>1, <1>2 DEF LaneOK, Legging, coordinator
<1>5. lane' = [lane EXCEPT ![l] = lane'[l]] /\ lane'[l] \in LaneRecords /\ lane'[l] = lane[l]
    BY <1>1, <1>2 DEF BaseInv, Typed, LaneTyped
<1>6. faults' \in 0..MaxFaults /\ legs' \in [Lanes -> Seq(LegRecords)]
    BY <1>2 DEF BaseInv, Typed, HistoryTyped, BooksTyped
<1> QED
    BY <1>1, <1>2, <1>3, <1>4, <1>5, <1>6, QuietHistory DEF Moves

LEMMA LegReturnsMoves ==
    ASSUME BaseInv, NEW l \in Lanes, LegReturns(l)
    PROVE  Moves(l)
<1>1. /\ lane[l].task = "trade" /\ lane[l] \in LaneRecords
      /\ lane[l].stop # "raised" /\ ~Settled(l) /\ LaneOK(l)
    BY WithinLeg DEF LegReturns, Task, Legging
<1>2. /\ UNCHANGED <<stopping, coordinator, carried, doubtful>> /\ UNCHANGED history
      /\ UNCHANGED <<held, stray, traded, legs>>
    BY DEF LegReturns, history, books
<1>3. PICK result \in Results :
        /\ own' = [own EXCEPT ![l] = IF result \in {"hard", "submission"} THEN @ ELSE 0]
        /\ lane' = [lane EXCEPT ![l].task = "end", ![l].result = result]
        /\ Fault(result \notin {"completed", "soft"})
    BY DEF LegReturns
<1> DEFINE r == [lane[l] EXCEPT !.task = "end", !.result = result]
<1>4. r \in LaneRecords /\ r.task = "end" /\ r.job = lane[l].job
      /\ r.attempt = lane[l].attempt /\ r.stop = lane[l].stop
    BY <1>1 DEF LaneRecords, Tasks
<1>5. lane' = [lane EXCEPT ![l] = r]
    BY <1>3
<1> HIDE DEF r
<1>6. lane' = [lane EXCEPT ![l] = lane'[l]] /\ lane'[l] = r /\ LaneOK(l)'
      /\ lane'[l].task # "dust_send"
    BY <1>1, <1>4, <1>5, LegStepMoves DEF Legging
<1>7. own' = [own EXCEPT ![l] = own'[l]] /\ ExchangeTyped'
    BY <1>2, <1>3, CycleAssumption DEF BaseInv, Typed, ExchangeTyped
<1>8. faults' \in 0..MaxFaults /\ legs' \in [Lanes -> Seq(LegRecords)]
    BY <1>2, <1>3, FaultTyped DEF BaseInv, Typed, BooksTyped
<1> QED
    BY <1>1, <1>2, <1>4, <1>6, <1>7, <1>8, QuietHistory DEF Moves

\* An order that is left behind, or cancelled with all others.
LEMMA AbandonTyped ==
    ASSUME BaseInv, NEW l \in Lanes, Abandon(l), UNCHANGED <<held, traded>>
    PROVE  own' = [own EXCEPT ![l] = own'[l]] /\ ExchangeTyped' /\ own'[l] = 0
<1>1. ExchangeTyped /\ lane[l].job \in Jobs
    BY DEF BaseInv, Typed, LaneTyped, LaneRecords
<1>2. own' = [own EXCEPT ![l] = own'[l]] /\ own' \in [Lanes -> 0..Lots] /\ own'[l] = 0
    BY <1>1, CycleAssumption DEF Abandon, ExchangeTyped
<1>3. stray' \in [Lanes -> [Jobs -> Nat]]
  <2>1. stray[l] \in [Jobs -> Nat] /\ own[l] \in Nat
      BY <1>1, CycleAssumption DEF ExchangeTyped
  <2> DEFINE s == [stray[l] EXCEPT ![lane[l].job] = @ + own[l]]
  <2>2. s \in [Jobs -> Nat]
      BY <1>1, <2>1
  <2>3. stray' = [stray EXCEPT ![l] = s]
      BY DEF Abandon
  <2> HIDE DEF s
  <2> QED
      BY <1>1, <2>2, <2>3 DEF ExchangeTyped
<1> QED
    BY <1>1, <1>2, <1>3 DEF ExchangeTyped

LEMMA CancelTyped ==
    ASSUME BaseInv, NEW l \in Lanes, NEW verified, CancelAll(l, verified),
           UNCHANGED <<held, traded>>
    PROVE  own' = [own EXCEPT ![l] = own'[l]] /\ ExchangeTyped' /\ own'[l] = 0
<1>1. ExchangeTyped
    BY DEF BaseInv, Typed
<1>2. own' = [own EXCEPT ![l] = 0]
    BY DEF CancelAll
<1>3. own' = [own EXCEPT ![l] = own'[l]] /\ own' \in [Lanes -> 0..Lots] /\ own'[l] = 0
    BY <1>1, <1>2, CycleAssumption DEF ExchangeTyped
<1>4. stray' \in [Lanes -> [Jobs -> Nat]]
  <2>1. PICK spared \in SUBSET Jobs, mine \in BOOLEAN :
          stray' = [stray EXCEPT ![l] =
              [job \in Jobs |-> (IF job \in spared THEN stray[l][job] ELSE 0)
                                + (IF mine /\ job = lane[l].job THEN own[l] ELSE 0)]]
      BY DEF CancelAll
  <2>2. \A job \in Jobs : stray[l][job] \in Nat /\ own[l] \in Nat
      BY <1>1, CycleAssumption DEF ExchangeTyped
  <2> DEFINE s == [job \in Jobs |-> (IF job \in spared THEN stray[l][job] ELSE 0)
                                + (IF mine /\ job = lane[l].job THEN own[l] ELSE 0)]
  <2>3. s \in [Jobs -> Nat]
      BY <2>2
  <2>4. stray' = [stray EXCEPT ![l] = s]
      BY <2>1
  <2> HIDE DEF s
  <2> QED
      BY <1>1, <2>3, <2>4 DEF ExchangeTyped
<1> QED
    BY <1>1, <1>3, <1>4 DEF ExchangeTyped

LEMMA LegRaisesMoves ==
    ASSUME BaseInv, NEW l \in Lanes, LegRaises(l)
    PROVE  Moves(l)
<1>1. /\ lane[l].task = "trade" /\ lane[l] \in LaneRecords
      /\ lane[l].stop # "raised" /\ ~Settled(l) /\ LaneOK(l)
      /\ lane[l].task \notin {"observe", "idle", "done", "dust_send"}
    BY WithinLeg DEF LegRaises, Task, Legging
<1>2. /\ UNCHANGED <<stopping, coordinator, carried, doubtful>> /\ UNCHANGED history
      /\ UNCHANGED <<held, traded>>
    BY DEF LegRaises, history
<1>3. faults' \in 0..MaxFaults
    BY CostsTyped DEF LegRaises
<1> DEFINE Kept == lane' = [lane EXCEPT ![l] = lane'[l]] /\ lane'[l] \in LaneRecords
           Job == lane'[l].job = lane[l].job \/ (lane'[l].job = "open" /\ lane'[l].task = "done")
           Book == own' = [own EXCEPT ![l] = own'[l]] /\ ExchangeTyped'
           Legs == legs' \in [Lanes -> Seq(LegRecords)]
           Goal1 == Kept /\ Job /\ LaneOK(l)' /\ lane'[l].task # "dust_send" /\ Book /\ Legs
<1>4. ASSUME NEW stop \in {"observation", "minimum"}, own[l] = 0, LegDone(l, stop),
             AddLeg(l, ExceptionSummary(l)), UNCHANGED <<own, stray>>
      PROVE  Goal1
  <2>1. stop \in Stops \ {"raised"} /\ own'[l] = 0
      BY <1>4 DEF Stops, UncertainStops, HardStops
  <2>2. Kept /\ Job /\ LaneOK(l)' /\ lane'[l].task # "dust_send"
      BY <1>1, <1>4, <2>1, LegDoneMoves
  <2>3. Book
      BY <1>2, <1>4 DEF BaseInv, Typed, ExchangeTyped
  <2>4. Legs
      BY <1>4, AddLegTyped, ExceptionTyped
  <2> QED
      BY <2>2, <2>3, <2>4
<1>5. ASSUME LegDone(l, "submission"), AddLeg(l, ExceptionSummary(l)), Abandon(l)
      PROVE  Goal1
  <2>1. "submission" \in Stops \ {"raised"}
      BY DEF Stops, UncertainStops
  <2>2. Book /\ own'[l] = 0
      BY <1>2, <1>5, AbandonTyped
  <2>3. Kept /\ Job /\ LaneOK(l)' /\ lane'[l].task # "dust_send"
      BY <1>1, <1>5, <2>1, <2>2, LegDoneMoves
  <2>4. Legs
      BY <1>5, AddLegTyped, ExceptionTyped
  <2> QED
      BY <2>2, <2>3, <2>4
<1>6. ASSUME lane' = [lane EXCEPT ![l].task = "cleanup"], UNCHANGED <<own, stray, legs>>
      PROVE  Goal1
  <2> DEFINE r == [lane[l] EXCEPT !.task = "cleanup"]
  <2>1. r \in LaneRecords /\ r.task = "cleanup" /\ r.job = lane[l].job
        /\ r.attempt = lane[l].attempt /\ r.stop = lane[l].stop
      BY <1>1 DEF LaneRecords, Tasks
  <2>2. lane' = [lane EXCEPT ![l] = r]
      BY <1>6
  <2> HIDE DEF r
  <2>3. Kept /\ Job /\ LaneOK(l)' /\ lane'[l].task # "dust_send"
      BY <1>1, <2>1, <2>2, LegStepMoves DEF Legging
  <2>4. Book /\ Legs
      BY <1>2, <1>6 DEF BaseInv, Typed, ExchangeTyped, BooksTyped
  <2> QED
      BY <2>3, <2>4
<1>7. Goal1
  <2> HIDE DEF Goal1
  <2> QED
      BY <1>4, <1>5, <1>6 DEF LegRaises
<1> QED
    BY <1>1, <1>2, <1>3, <1>7, QuietHistory DEF Moves

LEMMA CleanupMoves ==
    ASSUME BaseInv, NEW l \in Lanes, DeadlineCleanup(l)
    PROVE  Moves(l)
<1>1. /\ lane[l].task = "cleanup" /\ ~Settled(l)
      /\ lane[l].task \notin {"observe", "idle", "done", "dust_send"}
    BY WithinLeg DEF DeadlineCleanup, Task, Legging
<1>2. /\ UNCHANGED <<stopping, coordinator, carried, doubtful>> /\ UNCHANGED history
      /\ UNCHANGED <<held, traded>>
    BY DEF DeadlineCleanup, history
<1>3. PICK verified \in BOOLEAN : /\ CancelAll(l, verified) /\ Fault(~verified)
                                  /\ LegDone(l, IF verified THEN "soft" ELSE "submission")
    BY DEF DeadlineCleanup
<1>4. own' = [own EXCEPT ![l] = own'[l]] /\ ExchangeTyped' /\ own'[l] = 0
    BY <1>2, <1>3, CancelTyped
<1>5. PICK stop \in Stops \ {"raised"} : LegDone(l, stop)
    BY <1>3 DEF Stops, UncertainStops
<1>6. /\ lane' = [lane EXCEPT ![l] = lane'[l]] /\ lane'[l] \in LaneRecords
      /\ lane'[l].job = lane[l].job \/ (lane'[l].job = "open" /\ lane'[l].task = "done")
      /\ LaneOK(l)' /\ lane'[l].task # "dust_send"
    BY <1>1, <1>4, <1>5, LegDoneMoves
<1>7. faults' \in 0..MaxFaults /\ legs' \in [Lanes -> Seq(LegRecords)]
    BY <1>3, FaultTyped, AddLegTyped, ExceptionTyped DEF DeadlineCleanup
<1> QED
    BY <1>1, <1>2, <1>4, <1>6, <1>7, QuietHistory DEF Moves

LEMMA ReadEndMoves ==
    ASSUME BaseInv, NEW l \in Lanes, ReadEnd(l)
    PROVE  Moves(l)
<1>1. /\ lane[l].task = "end" /\ lane[l] \in LaneRecords
      /\ lane[l].stop # "raised" /\ ~Settled(l) /\ LaneOK(l)
    BY WithinLeg DEF ReadEnd, Task, Legging
<1>2. /\ UNCHANGED <<stopping, coordinator, carried, doubtful>> /\ UNCHANGED history
      /\ UNCHANGED exchange /\ UNCHANGED legs
    BY DEF ReadEnd, books
<1>3. PICK e \in {held[l], Lots + 1} :
        lane' = [lane EXCEPT ![l].task = "reconcile", ![l].end = e] /\ Fault(e > Lots)
    BY DEF ReadEnd
<1> DEFINE r == [lane[l] EXCEPT !.task = "reconcile", !.end = e]
<1>4. e \in 0..Lots + 1
    BY CycleAssumption DEF BaseInv, Typed, ExchangeTyped
<1>5. r \in LaneRecords /\ r.task = "reconcile" /\ r.job = lane[l].job
      /\ r.attempt = lane[l].attempt /\ r.stop = lane[l].stop
    BY <1>1, <1>4 DEF LaneRecords, Tasks
<1>6. lane' = [lane EXCEPT ![l] = r]
    BY <1>3
<1> HIDE DEF r
<1>7. lane' = [lane EXCEPT ![l] = lane'[l]] /\ lane'[l] = r /\ LaneOK(l)'
      /\ lane'[l].task # "dust_send" /\ lane[l].task # "dust_send"
    BY <1>1, <1>5, <1>6, LegStepMoves DEF Legging
<1>8. faults' \in 0..MaxFaults /\ legs' \in [Lanes -> Seq(LegRecords)]
    BY <1>2, <1>3, FaultTyped DEF BaseInv, Typed, BooksTyped
<1> QED
    BY <1>1, <1>2, <1>5, <1>7, <1>8, QuietHistory, QuietExchange DEF Moves

\* What the exchange reports of a leg's orders.
LEMMA ReportsTyped ==
    ASSUME NEW fills \in Nat, NEW executed, NEW r \in Reports(fills, executed)
    PROVE  /\ r.counted \in 0..fills
           /\ r.kind \in {"none", "late", "hard", "unusable", "error", "verified"}
<1>1. CASE executed = 0
    BY <1>1 DEF Reports
<1>2. CASE executed # 0
  <2>1. CASE r \in [kind : {"late", "hard", "unusable"}, counted : 0..fills]
      BY <2>1
  <2>2. CASE r = [kind |-> "error", counted |-> 0]
      BY <2>2
  <2>3. CASE r = [kind |-> "verified", counted |-> fills]
      BY <2>3
  <2> QED
      BY <1>2, <2>1, <2>2, <2>3 DEF Reports
<1> QED
    BY <1>1, <1>2

\* The summary that _reconcile_leg_result writes.
LEMMA ReconcileWrites ==
    ASSUME BaseInv, NEW l \in Lanes, Reconcile(l)
    PROVE  \E counted \in 0..lane[l].fills, kept \in {"none", "verified", "pending", "hard", "open"},
              match \in BOOLEAN, stop \in Stops \ {"raised"} :
             /\ AddLeg(l, [action |-> lane[l].job, counted |-> counted, books |-> kept,
                           fills |-> IF kept = "pending" THEN lane[l].fills ELSE 0,
                           match |-> match])
             /\ lane' = [lane EXCEPT ![l].task = "orders", ![l].stop = stop]
             /\ faults' \in 0..MaxFaults
<1>1. lane[l] \in LaneRecords /\ lane[l].fills \in Nat /\ lane[l].result \in Results
    BY DEF BaseInv, Typed, LaneTyped, LaneRecords
<1> DEFINE Writes(executed, r) ==
      /\ AddLeg(l, [action |-> lane[l].job, counted |-> r.counted,
                    books |-> Books(r.kind, lane[l].result),
                    fills |-> IF Books(r.kind, lane[l].result) = "pending" THEN lane[l].fills
                              ELSE 0,
                    match |-> Books(r.kind, lane[l].result) = "pending"
                              /\ lane[l].fills = executed])
      /\ lane' = [lane EXCEPT ![l].task = "orders", ![l].stop = LegStop(l, r.kind)]
      /\ Fault(lane[l].fills = executed /\ r.kind \notin {"none", "verified"})
<1>2. PICK executed \in Executed(l) : \E r \in Reports(lane[l].fills, executed) :
        Writes(executed, r)
    BY DEF Reconcile
<1>21. PICK r \in Reports(lane[l].fills, executed) : Writes(executed, r)
    BY <1>2
<1>3. r.counted \in 0..lane[l].fills
      /\ r.kind \in {"none", "late", "hard", "unusable", "error", "verified"}
    BY <1>1, ReportsTyped
<1>4. Books(r.kind, lane[l].result) \in {"none", "verified", "pending", "hard", "open"}
    BY <1>3 DEF Books
<1>5. LegStop(l, r.kind) \in Stops \ {"raised"}
    BY <1>1, <1>3, CycleAssumption
       DEF LegStop, Stops, UncertainStops, HardStops, Results, LaneRecords
<1>6. (Books(r.kind, lane[l].result) = "pending" /\ lane[l].fills = executed) \in BOOLEAN
    OBVIOUS
<1>7. faults' \in 0..MaxFaults
    BY <1>21, FaultTyped
<1> DEFINE kept == Books(r.kind, lane[l].result)
           match == kept = "pending" /\ lane[l].fills = executed
           stop == LegStop(l, r.kind)
<1>8. /\ AddLeg(l, [action |-> lane[l].job, counted |-> r.counted, books |-> kept,
                    fills |-> IF kept = "pending" THEN lane[l].fills ELSE 0,
                    match |-> match])
      /\ lane' = [lane EXCEPT ![l].task = "orders", ![l].stop = stop]
    BY <1>21
<1>9. /\ kept \in {"none", "verified", "pending", "hard", "open"} /\ match \in BOOLEAN
      /\ stop \in Stops \ {"raised"}
    BY <1>4, <1>5, <1>6
<1> HIDE DEF kept, match, stop
<1> QED
    BY <1>3, <1>7, <1>8, <1>9

LEMMA ReconcileMoves ==
    ASSUME BaseInv, NEW l \in Lanes, Reconcile(l)
    PROVE  Moves(l)
<1>1. /\ lane[l].task = "reconcile" /\ lane[l] \in LaneRecords /\ lane[l].fills \in Nat
      /\ ~Settled(l) /\ LaneOK(l) /\ lane[l].job \in Jobs
    BY WithinLeg DEF Reconcile, Task, Legging, LaneRecords
<1>2. /\ UNCHANGED <<stopping, coordinator, carried, doubtful>> /\ UNCHANGED history
      /\ UNCHANGED exchange
    BY DEF Reconcile
<1>3. PICK counted \in 0..lane[l].fills, kept \in {"none", "verified", "pending", "hard", "open"},
           match \in BOOLEAN, stop \in Stops \ {"raised"} :
             /\ AddLeg(l, [action |-> lane[l].job, counted |-> counted, books |-> kept,
                           fills |-> IF kept = "pending" THEN lane[l].fills ELSE 0,
                           match |-> match])
             /\ lane' = [lane EXCEPT ![l].task = "orders", ![l].stop = stop]
             /\ faults' \in 0..MaxFaults
    BY ReconcileWrites
<1> DEFINE r == [lane[l] EXCEPT !.task = "orders", !.stop = stop]
           leg == [action |-> lane[l].job, counted |-> counted, books |-> kept,
                   fills |-> IF kept = "pending" THEN lane[l].fills ELSE 0, match |-> match]
<1>4. r \in LaneRecords /\ r.task = "orders" /\ r.job = lane[l].job
      /\ r.attempt = lane[l].attempt /\ r.stop = stop
    BY <1>1 DEF LaneRecords, Tasks
<1>5. lane' = [lane EXCEPT ![l] = r]
    BY <1>3
<1>6. leg \in LegRecords
    BY <1>1 DEF LegRecords
<1>7. legs' \in [Lanes -> Seq(LegRecords)]
  <2> HIDE DEF leg
  <2>1. AddLeg(l, leg)
      BY <1>3 DEF leg
  <2> QED
      BY <1>6, <2>1, AddLegTyped
<1> HIDE DEF r
<1>8. lane' = [lane EXCEPT ![l] = lane'[l]] /\ lane'[l] = r /\ LaneOK(l)'
      /\ lane'[l].task # "dust_send" /\ lane[l].task # "dust_send"
    BY <1>1, <1>4, <1>5, LegStepMoves DEF Legging
<1> QED
    BY <1>1, <1>2, <1>3, <1>4, <1>7, <1>8, QuietHistory, QuietExchange DEF Moves

LEMMA OrdersMoves ==
    ASSUME BaseInv, NEW l \in Lanes, OrdersAfterLeg(l)
    PROVE  Moves(l)
<1>1. /\ lane[l].task = "orders" /\ ~Settled(l) /\ lane[l] \in LaneRecords
      /\ lane[l].stop # "raised"
      /\ lane[l].task \notin {"observe", "idle", "done", "dust_send"}
    BY WithinLeg DEF OrdersAfterLeg, Task, Legging
<1>2. /\ UNCHANGED <<stopping, coordinator, carried, doubtful>> /\ UNCHANGED history
      /\ UNCHANGED <<held, traded, legs>>
    BY DEF OrdersAfterLeg, history, books
<1>3. own' = [own EXCEPT ![l] = own'[l]] /\ ExchangeTyped' /\ own'[l] = 0
    BY <1>2, AbandonTyped DEF OrdersAfterLeg
<1>4. PICK stop \in Stops \ {"raised"} : LegDone(l, stop)
    BY <1>1 DEF OrdersAfterLeg, Stops, UncertainStops, LaneRecords
<1>5. /\ lane' = [lane EXCEPT ![l] = lane'[l]] /\ lane'[l] \in LaneRecords
      /\ lane'[l].job = lane[l].job \/ (lane'[l].job = "open" /\ lane'[l].task = "done")
      /\ LaneOK(l)' /\ lane'[l].task # "dust_send"
    BY <1>1, <1>3, <1>4, LegDoneMoves
<1>6. faults' \in 0..MaxFaults /\ legs' \in [Lanes -> Seq(LegRecords)]
    BY <1>2, CostsTyped DEF OrdersAfterLeg, BaseInv, Typed, BooksTyped
<1> QED
    BY <1>1, <1>2, <1>3, <1>5, <1>6, QuietHistory DEF Moves

\* Between the legs of a closing thread.
LEMMA BetweenLegs ==
    ASSUME BaseInv, NEW l \in Lanes, lane[l].task \in {"observe", "after", "dust", "dust_send"}
    PROVE  /\ lane[l] \in LaneRecords /\ lane[l].stop \in Stops \ {"raised"}
           /\ ~Settled(l) /\ own[l] = 0 /\ held[l] \in 0..Lots
           /\ lane[l].job = "flatten" /\ pc # "opening" /\ LaneOK(l) /\ lane[l].fills = 0
           /\ lane[l].attempt \in 1..RecoveryAttempts + 1
           /\ lane[l].task # "observe" => lane[l].attempt \in 1..RecoveryAttempts
<1>1. LaneOK(l) /\ lane[l] \in LaneRecords /\ lane[l].task \notin Legging
    BY DEF BaseInv, Typed, LaneTyped, LaneInv, Legging
<1>2. own[l] = 0 /\ held[l] \in 0..Lots
    BY <1>1, CycleAssumption DEF LaneOK, BaseInv, Typed, ExchangeTyped
<1>3. ~Settled(l) /\ lane[l].job = "flatten" /\ lane[l].fills = 0
    BY <1>1 DEF LaneOK, Settled
<1>4. pc # "opening"
    BY <1>3 DEF BaseInv, PhaseInv
<1>5. lane[l].stop \in Stops \ {"raised"}
    BY <1>1 DEF LaneOK, LaneRecords
<1>6. /\ lane[l].attempt \in 1..RecoveryAttempts + 1
      /\ lane[l].task # "observe" => lane[l].attempt \in 1..RecoveryAttempts
    BY <1>1, CycleAssumption DEF LaneOK
<1> QED
    BY <1>1, <1>2, <1>3, <1>4, <1>5, <1>6

\* A closing thread goes on to task t, or to its next attempt.
LEMMA FlattenMoves ==
    ASSUME BaseInv, NEW l \in Lanes, lane[l].task \in {"observe", "after", "dust", "dust_send"},
           NEW t \in {"start", "observe", "dust", "dust_send"},
           NEW attempt \in 1..RecoveryAttempts + 1,
           t # "observe" => attempt \in 1..RecoveryAttempts,
           lane' = [lane EXCEPT ![l].task = t, ![l].attempt = attempt],
           own' = own
    PROVE  /\ lane' = [lane EXCEPT ![l] = lane'[l]] /\ lane'[l] \in LaneRecords
           /\ lane'[l].job = lane[l].job /\ lane'[l].task = t /\ LaneOK(l)'
<1> DEFINE r == [lane[l] EXCEPT !.task = t, !.attempt = attempt]
<1>1. r \in LaneRecords /\ r.task = t /\ r.job = lane[l].job /\ r.attempt = attempt
      /\ r.stop = lane[l].stop /\ r.fills = lane[l].fills
  <2>1. lane[l] \in LaneRecords
      BY BetweenLegs
  <2>2. t \in Tasks /\ attempt \in 0..RecoveryAttempts + 1
      BY CycleAssumption DEF Tasks
  <2> QED
      BY <2>1, <2>2 DEF LaneRecords
<1>2. lane' = [lane EXCEPT ![l] = r]
    OBVIOUS
<1> HIDE DEF r
<1>3. lane' = [lane EXCEPT ![l] = lane'[l]] /\ lane'[l] = r
    BY <1>1, <1>2, RecordMoves
<1>4. LaneOK(l)'
  <2>1. lane[l].stop # "raised" /\ own'[l] = 0 /\ lane[l].job = "flatten" /\ lane[l].fills = 0
      BY BetweenLegs
  <2>2. /\ lane'[l].task = t /\ lane'[l].attempt = attempt /\ lane'[l].job = "flatten"
        /\ lane'[l].stop # "raised" /\ lane'[l].fills = 0 /\ own'[l] = 0
      BY <1>1, <1>3, <2>1
  <2> QED
      BY <2>2 DEF LaneOK, Legging
<1> QED
    BY <1>1, <1>3, <1>4

LEMMA FlattenHeadMoves ==
    ASSUME BaseInv, NEW l \in Lanes, FlattenHead(l)
    PROVE  Moves(l)
<1>1. /\ lane[l].task = "observe" /\ lane[l] \in LaneRecords
      /\ ~Settled(l) /\ own[l] = 0 /\ lane[l].attempt \in 1..RecoveryAttempts + 1
    BY BetweenLegs DEF FlattenHead, Task
<1>2. /\ UNCHANGED <<stopping, coordinator, carried, doubtful>> /\ UNCHANGED history
      /\ UNCHANGED exchange /\ UNCHANGED legs /\ own' = own /\ pc' = pc
    BY DEF FlattenHead, books, exchange, coordinator
<1>3. /\ lane' = [lane EXCEPT ![l] = lane'[l]] /\ lane'[l] \in LaneRecords
      /\ lane'[l].job = lane[l].job \/ (lane'[l].job = "open" /\ lane'[l].task = "done")
      /\ LaneOK(l)' /\ lane'[l].task # "dust_send"
  <2>1. ASSUME NEW flat \in BOOLEAN, NEW stop \in {"soft", "observation", "none"},
               Return(l, flat, stop)
        PROVE  <1>3!:
    <3>1. stop \in Stops /\ stop # "raised"
        BY DEF Stops, UncertainStops
    <3> QED
        BY <1>1, <1>2, <2>1, <3>1, ReturnMoves
  <2>2. ASSUME NEW t \in {"start", "dust"}, lane' = [lane EXCEPT ![l].task = t],
               lane[l].attempt <= RecoveryAttempts
        PROVE  <1>3!:
    <3>1. lane' = [lane EXCEPT ![l].task = t, ![l].attempt = lane[l].attempt]
        BY <1>1, <2>2 DEF LaneRecords, BaseInv, Typed, LaneTyped
    <3>2. lane[l].attempt \in 1..RecoveryAttempts
        BY <1>1, <2>2, CycleAssumption
    <3>3. /\ lane' = [lane EXCEPT ![l] = lane'[l]] /\ lane'[l] \in LaneRecords
          /\ lane'[l].job = lane[l].job /\ lane'[l].task = t /\ LaneOK(l)'
        BY <1>1, <1>2, <3>1, <3>2, FlattenMoves
    <3> QED
        BY <3>3
  <2> QED
      BY <2>1, <2>2 DEF FlattenHead
<1>4. faults' \in 0..MaxFaults /\ legs' \in [Lanes -> Seq(LegRecords)]
    BY <1>2, CostsTyped DEF FlattenHead, BaseInv, Typed, BooksTyped
<1> QED
    BY <1>1, <1>2, <1>3, <1>4, QuietHistory, QuietExchange DEF Moves

LEMMA FlattenAfterMoves ==
    ASSUME BaseInv, NEW l \in Lanes, FlattenAfterLeg(l)
    PROVE  Moves(l)
<1>1. /\ lane[l].task = "after" /\ lane[l] \in LaneRecords /\ lane[l].stop \in Stops \ {"raised"}
      /\ ~Settled(l) /\ own[l] = 0 /\ lane[l].attempt \in 1..RecoveryAttempts
    BY BetweenLegs DEF FlattenAfterLeg, Task
<1>2. /\ UNCHANGED <<stopping, coordinator, carried, doubtful>> /\ UNCHANGED history
      /\ UNCHANGED exchange /\ UNCHANGED legs /\ own' = own /\ pc' = pc
    BY DEF FlattenAfterLeg, books, exchange, coordinator
<1>3. /\ lane' = [lane EXCEPT ![l] = lane'[l]] /\ lane'[l] \in LaneRecords
      /\ lane'[l].job = lane[l].job \/ (lane'[l].job = "open" /\ lane'[l].task = "done")
      /\ LaneOK(l)' /\ lane'[l].task # "dust_send"
  <2>1. ASSUME NEW flat \in BOOLEAN, Return(l, flat, lane[l].stop)
        PROVE  <1>3!:
      BY <1>1, <1>2, <2>1, ReturnMoves
  <2>2. ASSUME lane' = [lane EXCEPT ![l].task = "dust"]
        PROVE  <1>3!:
    <3>1. lane' = [lane EXCEPT ![l].task = "dust", ![l].attempt = lane[l].attempt]
        BY <1>1, <2>2 DEF LaneRecords, BaseInv, Typed, LaneTyped
    <3>2. /\ lane' = [lane EXCEPT ![l] = lane'[l]] /\ lane'[l] \in LaneRecords
          /\ lane'[l].job = lane[l].job /\ lane'[l].task = "dust" /\ LaneOK(l)'
      <4>1. lane[l].attempt \in 1..RecoveryAttempts + 1
          BY <1>1, CycleAssumption
      <4>2. "dust" \in {"start", "observe", "dust", "dust_send"}
            /\ lane[l].task \in {"observe", "after", "dust", "dust_send"}
          BY <1>1
      <4> QED
          BY <1>1, <1>2, <3>1, <4>1, <4>2, FlattenMoves
    <3> QED
        BY <3>2
  <2>3. ASSUME NextAttempt(l)
        PROVE  <1>3!:
    <3>1. lane' = [lane EXCEPT ![l].task = "observe", ![l].attempt = lane[l].attempt + 1]
        BY <1>1, <2>3 DEF NextAttempt
    <3>2. lane[l].attempt + 1 \in 1..RecoveryAttempts + 1
        BY <1>1, CycleAssumption
    <3>3. /\ lane' = [lane EXCEPT ![l] = lane'[l]] /\ lane'[l] \in LaneRecords
          /\ lane'[l].job = lane[l].job /\ lane'[l].task = "observe" /\ LaneOK(l)'
        BY <1>1, <1>2, <3>1, <3>2, FlattenMoves
    <3> QED
        BY <3>3
  <2> QED
      BY <2>1, <2>2, <2>3 DEF FlattenAfterLeg
<1>4. faults' \in 0..MaxFaults /\ legs' \in [Lanes -> Seq(LegRecords)]
    BY <1>2, CostsTyped, FaultTyped DEF FlattenAfterLeg, BaseInv, Typed, BooksTyped
<1> QED
    BY <1>1, <1>2, <1>3, <1>4, QuietHistory, QuietExchange DEF Moves

LEMMA DustIntentMoves ==
    ASSUME BaseInv, NEW l \in Lanes, DustIntent(l)
    PROVE  Moves(l)
<1>1. /\ lane[l].task = "dust" /\ lane[l] \in LaneRecords /\ pc # "opening"
      /\ ~Settled(l) /\ own[l] = 0 /\ lane[l].attempt \in 1..RecoveryAttempts
    BY BetweenLegs DEF DustIntent, Task
<1>2. /\ UNCHANGED <<stopping, coordinator, carried, doubtful>> /\ UNCHANGED closes
      /\ UNCHANGED exchange /\ UNCHANGED legs /\ own' = own /\ pc' = pc
    BY DEF DustIntent, books, exchange, coordinator
<1>3. faults' \in 0..MaxFaults /\ legs' \in [Lanes -> Seq(LegRecords)]
    BY <1>2, CostsTyped DEF DustIntent, BaseInv, Typed, BooksTyped
<1>4. /\ CloseOK(l) /\ HistoryTyped
    BY DEF BaseInv, Typed, CloseInv
<1>5. CASE \E stop \in {"raised", "submission"} : Return(l, FALSE, stop) /\ UNCHANGED dustClosed
  <2>1. PICK stop \in {"raised", "submission"} : Return(l, FALSE, stop)
      BY <1>5
  <2>2. stop \in Stops
      BY DEF Stops, UncertainStops
  <2>3. /\ lane' = [lane EXCEPT ![l] = lane'[l]] /\ lane'[l] \in LaneRecords
        /\ lane'[l].job = "open" /\ lane'[l].task = "done" /\ LaneOK(l)'
      BY <1>1, <1>2, <2>1, <2>2, ReturnMoves
  <2> QED
      BY <1>1, <1>2, <1>3, <1>5, <2>3, QuietHistory, QuietExchange DEF Moves, history
<1>6. CASE /\ ~Claimed(l) /\ dustClosed' = [dustClosed EXCEPT ![l] = TRUE]
           /\ lane' = [lane EXCEPT ![l].task = "dust_send"]
  <2>1. lane' = [lane EXCEPT ![l].task = "dust_send", ![l].attempt = lane[l].attempt]
      BY <1>1, <1>6 DEF LaneRecords, BaseInv, Typed, LaneTyped
  <2>2. lane[l].attempt \in 1..RecoveryAttempts + 1
      BY <1>1, CycleAssumption
  <2>3. "dust_send" \in {"start", "observe", "dust", "dust_send"}
        /\ lane[l].task \in {"observe", "after", "dust", "dust_send"}
      BY <1>1
  <2>4. /\ lane' = [lane EXCEPT ![l] = lane'[l]] /\ lane'[l] \in LaneRecords
        /\ lane'[l].job = lane[l].job /\ lane'[l].task = "dust_send" /\ LaneOK(l)'
      BY <1>1, <1>2, <2>1, <2>2, <2>3, FlattenMoves
  <2>5. /\ dustClosed' \in [Lanes -> BOOLEAN] /\ dustClosed'[l]
        /\ dustClosed' = [dustClosed EXCEPT ![l] = dustClosed'[l]]
      BY <1>4, <1>6 DEF HistoryTyped
  <2>6. closes[l] = 0 /\ closes' = [closes EXCEPT ![l] = closes'[l]]
    <3>1. ~dustClosed[l]
        BY <1>6 DEF Claimed
    <3>2. closes[l] \in Nat
        BY <1>4 DEF HistoryTyped
    <3>3. closes[l] # 1 /\ closes[l] <= 1
        BY <1>4, <3>1 DEF CloseOK
    <3>4. closes[l] = 0
        BY <3>2, <3>3
    <3> QED
        BY <1>2, <1>4, <3>4 DEF HistoryTyped
  <2>7. CloseOK(l)' /\ HistoryTyped'
      BY <1>2, <1>3, <1>4, <2>5, <2>6 DEF CloseOK, HistoryTyped
  <2> QED
      BY <1>1, <1>2, <1>3, <2>4, <2>5, <2>6, <2>7, QuietExchange DEF Moves
<1> QED
    BY <1>5, <1>6 DEF DustIntent

\* What the market close writes.
LEMMA DustSendWrites ==
    ASSUME BaseInv, NEW l \in Lanes, DustSend(l)
    PROVE  \E lots \in {0, held[l]} : \E counted \in {0, lots}, kept \in {"verified", "hard"},
              flat \in BOOLEAN, stop \in {"none", "audit", "submission"} :
             /\ held' = [held EXCEPT ![l] = @ - lots] /\ traded' = traded + lots
             /\ AddLeg(l, [action |-> "flatten", counted |-> counted, books |-> kept,
                           fills |-> 0, match |-> FALSE])
             /\ Return(l, flat, stop) /\ faults' \in 0..MaxFaults
<1> DEFINE Writes(lots, counted, kept, flat, stop) ==
             /\ held' = [held EXCEPT ![l] = @ - lots] /\ traded' = traded + lots
             /\ AddLeg(l, [action |-> "flatten", counted |-> counted, books |-> kept,
                           fills |-> 0, match |-> FALSE])
             /\ Return(l, flat, stop) /\ faults' \in 0..MaxFaults
<1>1. PICK landed \in BOOLEAN, flat \in BOOLEAN, verified \in BOOLEAN :
          LET lots == IF landed THEN held[l] ELSE 0
              counts == flat /\ verified /\ lots > 0
          IN /\ Fault(~counts)
             /\ held' = [held EXCEPT ![l] = @ - lots]
             /\ traded' = traded + lots
             /\ AddLeg(l, [action |-> "flatten", counted |-> IF counts THEN lots ELSE 0,
                           books |-> IF counts THEN "verified" ELSE "hard",
                           fills |-> 0, match |-> FALSE])
             /\ IF flat THEN Return(l, TRUE, IF counts THEN "none" ELSE "audit")
                        ELSE Return(l, FALSE, "submission")
    BY ZenonT(60) DEF DustSend
<1> DEFINE lots == IF landed THEN held[l] ELSE 0
           counts == flat /\ verified /\ lots > 0
           counted == IF counts THEN lots ELSE 0
           kept == IF counts THEN "verified" ELSE "hard"
           stop == IF flat THEN IF counts THEN "none" ELSE "audit" ELSE "submission"
<1>2. Fault(~counts) /\ held' = [held EXCEPT ![l] = @ - lots] /\ traded' = traded + lots
      /\ AddLeg(l, [action |-> "flatten", counted |-> counted, books |-> kept,
                    fills |-> 0, match |-> FALSE])
    BY <1>1
<1>3. Return(l, flat, stop)
  <2>1. CASE flat
    <3>1. flat = TRUE /\ stop = IF counts THEN "none" ELSE "audit"
        BY <2>1
    <3> QED
        BY <1>1, <2>1, <3>1
  <2>2. CASE ~flat
    <3>1. flat = FALSE /\ stop = "submission"
        BY <2>2
    <3> QED
        BY <1>1, <2>2, <3>1
  <2> QED
      BY <2>1, <2>2
<1>4. faults' \in 0..MaxFaults
  <2> HIDE DEF counts
  <2> QED
      BY <1>2, FaultTyped
<1>5. lots \in {0, held[l]} /\ counted \in {0, lots} /\ kept \in {"verified", "hard"}
      /\ stop \in {"none", "audit", "submission"}
    OBVIOUS
<1>6. Writes(lots, counted, kept, flat, stop)
    BY <1>2, <1>3, <1>4
<1> HIDE DEF lots, counts, counted, kept, stop, Writes
<1>7. \E n \in {0, held[l]} : \E c \in {0, n}, k \in {"verified", "hard"}, f \in BOOLEAN,
        s \in {"none", "audit", "submission"} : Writes(n, c, k, f, s)
    BY <1>5, <1>6
<1> QED
    BY <1>7 DEF Writes

LEMMA DustSendMoves ==
    ASSUME BaseInv, NEW l \in Lanes, DustSend(l)
    PROVE  Moves(l)
<1>1. /\ lane[l].task = "dust_send" /\ lane[l] \in LaneRecords
      /\ ~Settled(l) /\ own[l] = 0 /\ held[l] \in 0..Lots
    BY BetweenLegs DEF DustSend, Task
<1>2. /\ UNCHANGED <<stopping, coordinator, carried, doubtful>> /\ UNCHANGED dustClosed
      /\ UNCHANGED <<own, stray>> /\ pc' = pc /\ closes' = [closes EXCEPT ![l] = @ + 1]
    BY DEF DustSend, coordinator
<1> DEFINE Leg(counted, kept) == [action |-> "flatten", counted |-> counted, books |-> kept,
                                  fills |-> 0, match |-> FALSE]
<1>3. PICK lots \in {0, held[l]} : \E counted \in {0, lots}, kept \in {"verified", "hard"},
              flat \in BOOLEAN, stop \in {"none", "audit", "submission"} :
             /\ held' = [held EXCEPT ![l] = @ - lots] /\ traded' = traded + lots
             /\ AddLeg(l, Leg(counted, kept))
             /\ Return(l, flat, stop) /\ faults' \in 0..MaxFaults
    BY DustSendWrites
<1>4. PICK counted \in {0, lots}, kept \in {"verified", "hard"},
           flat \in BOOLEAN, stop \in {"none", "audit", "submission"} :
             /\ held' = [held EXCEPT ![l] = @ - lots] /\ traded' = traded + lots
             /\ AddLeg(l, Leg(counted, kept))
             /\ Return(l, flat, stop) /\ faults' \in 0..MaxFaults
    BY <1>3
<1>5. lots \in 0..held[l] /\ counted \in Nat
    BY <1>1, CycleAssumption
<1>6. Leg(counted, kept) \in LegRecords
    BY <1>5 DEF LegRecords, Jobs
<1>7. legs' \in [Lanes -> Seq(LegRecords)]
  <2> HIDE DEF Leg
  <2> QED
      BY <1>4, <1>6, AddLegTyped
<1>8. own' = [own EXCEPT ![l] = own'[l]] /\ ExchangeTyped' /\ own' = own
    BY <1>1, <1>2, <1>4, <1>5, CycleAssumption DEF BaseInv, Typed, ExchangeTyped
<1>9. /\ lane' = [lane EXCEPT ![l] = lane'[l]] /\ lane'[l] \in LaneRecords
      /\ lane'[l].job = "open" /\ lane'[l].task = "done" /\ LaneOK(l)'
  <2>1. stop \in Stops /\ stop # "raised"
      BY DEF Stops, UncertainStops, HardStops
  <2> QED
      BY <1>1, <1>2, <1>4, <1>8, <2>1, ReturnMoves
<1>10. /\ CloseOK(l) /\ HistoryTyped
    BY DEF BaseInv, Typed, CloseInv
<1>11. closes[l] = 0 /\ dustClosed[l]
  <2>1. closes[l] \in Nat /\ closes[l] # 1 /\ closes[l] <= 1
      BY <1>1, <1>10 DEF CloseOK, HistoryTyped
  <2>2. closes[l] = 0
      BY <2>1
  <2> QED
      BY <1>1, <1>10, <2>2 DEF CloseOK
<1>12. closes' \in [Lanes -> Nat] /\ closes'[l] = 1 /\ closes' = [closes EXCEPT ![l] = closes'[l]]
       /\ dustClosed' = [dustClosed EXCEPT ![l] = dustClosed'[l]]
    BY <1>2, <1>10, <1>11 DEF HistoryTyped
<1>13. CloseOK(l)' /\ HistoryTyped'
    BY <1>2, <1>4, <1>9, <1>10, <1>11, <1>12 DEF CloseOK, HistoryTyped
<1> QED
    BY <1>1, <1>2, <1>7, <1>8, <1>9, <1>12, <1>13 DEF Moves

LEMMA LaneStepMoves ==
    ASSUME BaseInv, NEW l \in Lanes, LaneStep(l)
    PROVE  Moves(l)
BY BeginLegMoves, QuoteMoves, LegReturnsMoves, LegRaisesMoves, CleanupMoves, ReadEndMoves,
   ReconcileMoves, OrdersMoves, FlattenHeadMoves, FlattenAfterMoves, DustIntentMoves,
   DustSendMoves DEF LaneStep

\* A step of a lane's thread keeps the invariant.
LEMMA MovesKeep ==
    ASSUME BaseInv, NEW l \in Lanes, Moves(l)
    PROVE  BaseInv'
<1>1. Typed /\ LaneInv /\ PhaseInv /\ VerdictInv /\ CloseInv
    BY DEF BaseInv
<1>2. /\ lane \in [Lanes -> LaneRecords] /\ lane' \in [Lanes -> LaneRecords]
      /\ \A m \in Lanes : m # l => lane'[m] = lane[m]
    BY <1>1 DEF Moves, Typed, LaneTyped
<1>3. /\ \A m \in Lanes : m # l => own'[m] = own[m]
      /\ \A m \in Lanes : m # l => dustClosed'[m] = dustClosed[m] /\ closes'[m] = closes[m]
    BY <1>1 DEF Moves, Typed, ExchangeTyped, HistoryTyped
<1>4. UNCHANGED <<stopping, pc, turn, round, empty, total, status, laneStop, verifiedAll>>
    BY DEF Moves, coordinator, session
<1>5. Typed'
    BY <1>1, <1>2, <1>4 DEF Moves, Typed, ControlTyped, LaneTyped, BooksTyped
<1>6. LaneInv'
  <2>1. ASSUME NEW m \in Lanes, m # l PROVE LaneOK(m)'
      BY <1>1, <1>2, <1>3, <1>4, <2>1 DEF LaneInv, LaneOK
  <2>2. LaneOK(l)'
      BY DEF Moves
  <2> QED
      BY <2>1, <2>2 DEF LaneInv
<1>7. CloseInv'
  <2>1. ASSUME NEW m \in Lanes, m # l PROVE CloseOK(m)'
      BY <1>1, <1>2, <1>3, <2>1 DEF CloseInv, CloseOK
  <2>2. CloseOK(l)'
      BY DEF Moves
  <2> QED
      BY <2>1, <2>2 DEF CloseInv
<1>8. lane[l].task \notin {"idle", "done"}
    BY DEF Moves, Settled
<1>9. VerdictInv'
  <2>1. status \notin {"stopped", "completed"}
      BY <1>1, <1>8 DEF VerdictInv, KnownVerdict, AllDone, Settled
  <2> QED
      BY <1>1, <1>4, <2>1 DEF VerdictInv, KnownVerdict
<1>10. PhaseInv'
  <2>1. pc \notin AtRest /\ pc # "done"
      BY <1>1, <1>8 DEF PhaseInv, Resting, AllDone, Settled
  <2>2. lane'[l].job = lane[l].job \/ (lane'[l].job = "open" /\ lane'[l].task = "done")
      BY DEF Moves
  <2>3. pc' = "opening" => \A m \in Lanes : lane'[m].job = "open"
      BY <1>1, <1>2, <1>4, <2>2 DEF PhaseInv
  <2>4. pc' # "opening" => \A m \in Lanes : lane'[m].job = "open" => Settled(m)'
    <3>1. SUFFICES ASSUME pc # "opening", NEW m \in Lanes, lane'[m].job = "open"
                   PROVE  lane'[m].task \in {"idle", "done"}
        BY <1>4 DEF Settled
    <3>2. \A k \in Lanes : lane[k].job = "open" => lane[k].task \in {"idle", "done"}
        BY <1>1, <3>1 DEF PhaseInv, Settled
    <3>3. CASE m = l
        BY <1>8, <2>2, <3>1, <3>2, <3>3
    <3>4. CASE m # l
        BY <1>2, <3>1, <3>2, <3>4
    <3> QED
        BY <3>3, <3>4
  <2>5. \A m \in Lanes : Resting(m) => m # l /\ Resting(m)'
      BY <1>2, <1>8 DEF Resting
  <2>6. /\ pc' \in {"barrier", "sweep"} =>
              Resting("ETH")' /\ (turn' = "BTC" => Resting("BTC")')
        /\ pc' \in {"closing", "swept"} /\ turn' = "ETH" => Resting("BTC")'
      BY <1>1, <1>4, <2>5, LanesAreTwo DEF PhaseInv
  <2>7. pc' \in InCycle => round' <= MaxRounds
      BY <1>1, <1>4 DEF PhaseInv
  <2> QED
      BY <1>4, <2>1, <2>3, <2>4, <2>6, <2>7 DEF PhaseInv
<1> QED
    BY <1>5, <1>6, <1>7, <1>9, <1>10 DEF BaseInv

(***************************************************************************)
(* The exchange and the operator.                                          *)
(***************************************************************************)
LEMMA FilledTyped ==
    ASSUME BaseInv, NEW l \in Lanes, NEW job \in Jobs, Filled(l, job)
    PROVE  held' \in [Lanes -> 0..Lots] /\ traded' \in Nat
<1>1. held[l] \in 0..Lots /\ held \in [Lanes -> 0..Lots] /\ traded \in Nat
    BY DEF BaseInv, Typed, ExchangeTyped
<1>2. CASE job = "open"
    BY <1>1, <1>2, CycleAssumption DEF Filled
<1>3. CASE job # "open"
    BY <1>1, <1>3, CycleAssumption DEF Filled
<1> QED
    BY <1>2, <1>3

LEMMA FillOwnMoves ==
    ASSUME BaseInv, NEW l \in Lanes, FillOwn(l)
    PROVE  Moves(l) /\ lane'[l].fills = lane[l].fills + 1 /\ lane'[l].task = lane[l].task
<1>1. Typed /\ LaneInv /\ PhaseInv /\ VerdictInv /\ CloseInv
    BY DEF BaseInv
<1>2. /\ lane[l].task \in Legging /\ lane[l] \in LaneRecords /\ own[l] \in 1..Lots
      /\ lane[l].fills \in Nat /\ lane[l].job \in Jobs
    BY <1>1, CycleAssumption
       DEF FillOwn, LaneInv, LaneOK, Typed, LaneTyped, ExchangeTyped, LaneRecords
<1> DEFINE r == [lane[l] EXCEPT !.fills = @ + 1]
<1>3. r \in LaneRecords /\ r.task = lane[l].task /\ r.job = lane[l].job
      /\ r.attempt = lane[l].attempt /\ r.stop = lane[l].stop
    BY <1>2 DEF LaneRecords
<1>4. lane' = [lane EXCEPT ![l] = r]
    BY DEF FillOwn
<1> HIDE DEF r
<1>5. lane' = [lane EXCEPT ![l] = lane'[l]] /\ lane'[l] = r
    BY <1>3, <1>4, RecordMoves
<1>6. own' = [own EXCEPT ![l] = own'[l]] /\ ExchangeTyped'
  <2>1. held' \in [Lanes -> 0..Lots] /\ traded' \in Nat
      BY <1>2, FilledTyped DEF FillOwn
  <2>2. own' \in [Lanes -> 0..Lots] /\ own' = [own EXCEPT ![l] = own'[l]]
      BY <1>1, <1>2, CycleAssumption DEF FillOwn, Typed, ExchangeTyped
  <2>3. stray' = stray
      BY DEF FillOwn
  <2> QED
      BY <1>1, <2>1, <2>2, <2>3 DEF Typed, ExchangeTyped
<1>7. LaneOK(l)'
    BY <1>1, <1>2, <1>3, <1>5 DEF FillOwn, LaneInv, LaneOK, Legging
<1>8. ~Settled(l) /\ lane[l].task # "dust_send" /\ lane'[l].task # "dust_send"
    BY <1>2, <1>3, <1>5 DEF Settled, Legging
<1>9. /\ UNCHANGED <<stopping, coordinator, carried, doubtful>> /\ UNCHANGED history
      /\ legs' \in [Lanes -> Seq(LegRecords)] /\ faults' \in 0..MaxFaults
    BY <1>1 DEF FillOwn, coordinator, books, history, Typed, BooksTyped, HistoryTyped
<1>10. lane'[l].fills = lane[l].fills + 1
    BY <1>2, <1>5 DEF r, LaneRecords
<1> QED
    BY <1>3, <1>5, <1>6, <1>7, <1>8, <1>9, <1>10, QuietHistory DEF Moves

LEMMA FillOwnKeeps ==
    ASSUME BaseInv, NEW l \in Lanes, FillOwn(l)
    PROVE  BaseInv'
BY FillOwnMoves, MovesKeep

\* No order works once a session is known to have completed.
LEMMA FillStrayKeeps ==
    ASSUME BaseInv, NEW l \in Lanes, FillStray(l)
    PROVE  BaseInv'
<1>1. Typed /\ LaneInv /\ PhaseInv /\ VerdictInv /\ CloseInv
    BY DEF BaseInv
<1>2. PICK job \in Jobs : /\ stray[l][job] > 0 /\ Filled(l, job)
                          /\ stray' = [stray EXCEPT ![l][job] = @ - 1]
    BY DEF FillStray
<1>3. UNCHANGED <<own, stopping, pc, turn, round, empty, total, status, laneStop, verifiedAll,
                  lane, legs, carried, doubtful, dustClosed, closes, faults>>
    BY DEF FillStray, session, books, history
<1>4. ExchangeTyped'
  <2>1. held' \in [Lanes -> 0..Lots] /\ traded' \in Nat
      BY <1>2, FilledTyped
  <2>2. stray[l] \in [Jobs -> Nat] /\ stray[l][job] - 1 \in Nat
      BY <1>1, <1>2 DEF Typed, ExchangeTyped
  <2> DEFINE s == [stray[l] EXCEPT ![job] = @ - 1]
  <2>3. s \in [Jobs -> Nat] /\ stray' = [stray EXCEPT ![l] = s]
      BY <1>2, <2>2
  <2> HIDE DEF s
  <2> QED
      BY <1>1, <1>3, <2>1, <2>3 DEF Typed, ExchangeTyped
<1>5. Typed'
    BY <1>1, <1>3, <1>4 DEF Typed, ControlTyped, LaneTyped, BooksTyped, HistoryTyped
<1>6. LaneInv' /\ CloseInv' /\ PhaseInv'
  <2>1. LaneInv'
      BY <1>1, <1>3 DEF LaneInv, LaneOK
  <2>2. CloseInv'
      BY <1>1, <1>3 DEF CloseInv, CloseOK
  <2>3. PhaseInv'
      BY <1>1, <1>3 DEF PhaseInv, Resting, AllDone, Settled
  <2> QED
      BY <2>1, <2>2, <2>3
<1>7. VerdictInv'
  <2>1. status # "completed"
    <3>1. Working(l)
      <4>1. stray[l] # NoOrders
          BY <1>2 DEF NoOrders
      <4> QED
          BY <4>1 DEF Working
    <3> QED
        BY <1>1, <3>1 DEF VerdictInv, KnownVerdict, NothingWorks
  <2> QED
      BY <1>1, <1>3, <2>1 DEF VerdictInv, KnownVerdict, AllDone, Settled
<1> QED
    BY <1>5, <1>6, <1>7 DEF BaseInv

LEMMA RequestKeeps ==
    ASSUME BaseInv, RequestStop
    PROVE  BaseInv'
<1>1. UNCHANGED <<held, own, stray, traded, pc, turn, round, empty, total, status, laneStop,
                  verifiedAll, lane, legs, carried, doubtful, dustClosed, closes, faults>>
      /\ stopping' = TRUE
    BY DEF RequestStop, exchange, session, books, history
<1>2. Typed'
    BY <1>1 DEF BaseInv, Typed, ExchangeTyped, ControlTyped, LaneTyped, BooksTyped, HistoryTyped
<1>3. LaneInv'
    BY <1>1 DEF BaseInv, LaneInv, LaneOK
<1>4. CloseInv'
    BY <1>1 DEF BaseInv, CloseInv, CloseOK
<1>5. PhaseInv'
    BY <1>1 DEF BaseInv, PhaseInv, Resting, AllDone, Settled
<1>6. VerdictInv'
    BY <1>1 DEF BaseInv, VerdictInv, KnownVerdict, AllDone, Settled, AllFlat, NothingWorks, Working
<1> QED
    BY <1>2, <1>3, <1>4, <1>5, <1>6 DEF BaseInv

(***************************************************************************)
(* The coordinator while no thread runs.                                   *)
(***************************************************************************)
\* Threads that rest fit any step of the coordinator but "opening".
LEMMA RestKeeps ==
    ASSUME BaseInv, LaneTyped', ExchangeTyped', ControlTyped', BooksTyped', HistoryTyped',
           \A l \in Lanes : lane'[l].task = "idle" /\ lane'[l].stop # "raised"
                             /\ lane'[l].fills = 0 /\ own'[l] = 0,
           CloseInv', VerdictInv', pc' # "opening", pc' \in InCycle => round' <= MaxRounds
    PROVE  BaseInv'
<1>1. LaneInv'
    BY DEF LaneInv, LaneOK, ExchangeTyped
<1>2. PhaseInv'
    BY LanesAreTwo DEF PhaseInv, Resting, AllDone, Settled
<1>3. Typed'
    BY DEF Typed
<1> QED
    BY <1>1, <1>2, <1>3 DEF BaseInv

\* What holds while no thread runs.
LEMMA AtRestFacts ==
    ASSUME BaseInv, pc \in AtRest
    PROVE  /\ \A l \in Lanes : /\ lane[l].task = "idle" /\ lane[l].stop # "raised"
                               /\ lane[l].fills = 0 /\ own[l] = 0
           /\ AllDone /\ status = "executing"
<1>1. Typed /\ LaneInv /\ PhaseInv /\ VerdictInv
    BY DEF BaseInv
<1>2. ASSUME NEW l \in Lanes
      PROVE  /\ lane[l].task = "idle" /\ lane[l].stop # "raised"
             /\ lane[l].fills = 0 /\ own[l] = 0
  <2>1. lane[l].task = "idle" /\ LaneOK(l) /\ own[l] \in 0..Lots
      BY <1>1 DEF PhaseInv, Resting, LaneInv, Typed, ExchangeTyped
  <2> QED
      BY <2>1, CycleAssumption DEF LaneOK, Legging
<1>3. AllDone
    BY <1>2 DEF AllDone, Settled
<1>4. status = "executing"
    BY <1>1 DEF VerdictInv, AtRest
<1> QED
    BY <1>2, <1>3, <1>4

\* A step of the coordinator that only moves itself on.
LEMMA PlainRest ==
    ASSUME BaseInv, pc \in AtRest, UNCHANGED <<lane, held, own, stray, traded, legs, carried,
                                              doubtful, dustClosed, closes>>,
           ControlTyped', faults' \in 0..MaxFaults,
           pc' # "opening", pc' \in InCycle => round' <= MaxRounds,
           status' # "executing" => pc' \in {"shutdown", "done"},
           status' = "completed" => AllFlat /\ NothingWorks
    PROVE  BaseInv'
<1>1. Typed /\ CloseInv
    BY DEF BaseInv
<1>2. LaneTyped' /\ ExchangeTyped' /\ BooksTyped' /\ HistoryTyped'
    BY <1>1 DEF Typed, LaneTyped, ExchangeTyped, BooksTyped, HistoryTyped
<1>3. CloseInv'
    BY <1>1 DEF CloseInv, CloseOK
<1>4. AllDone' /\ (AllFlat => AllFlat') /\ (NothingWorks => NothingWorks')
    BY AtRestFacts DEF AllDone, Settled, AllFlat, NothingWorks, Working
<1>5. VerdictInv'
    BY <1>4 DEF VerdictInv, KnownVerdict
<1> QED
    BY <1>2, <1>3, <1>5, AtRestFacts, RestKeeps

LEMMA BeginKeeps ==
    ASSUME BaseInv, Begin \/ RoundHead \/ AfterClose \/ FinalAcceptance \/ Prove
    PROVE  BaseInv'
<1>1. Typed /\ PhaseInv /\ VerdictInv
    BY DEF BaseInv
<1>2. pc \in AtRest /\ status = "executing"
    BY AtRestFacts DEF Begin, RoundHead, AfterClose, FinalAcceptance, Prove, AtRest
<1>3. UNCHANGED <<lane, held, own, stray, traded, legs, carried, doubtful, dustClosed, closes,
                  faults, stopping, turn, round, empty, total, laneStop, verifiedAll>>
    BY DEF Begin, RoundHead, AfterClose, FinalAcceptance, Prove, threads, books, history
<1> USE DEF Goto, Finish
<1>4. ControlTyped'
  <2>1. pc' \in Steps /\ status' \in {"executing", "completed", "stopped", "uncertain"}
    <3>1. CASE Begin
        BY <1>1, <3>1 DEF Begin, Typed, ControlTyped, Steps
    <3>2. CASE RoundHead
        BY <1>1, <3>2 DEF RoundHead, Typed, ControlTyped, Steps
    <3>3. CASE AfterClose
        BY <1>1, <3>3 DEF AfterClose, Typed, ControlTyped, Steps
    <3>4. CASE FinalAcceptance \/ Prove
        BY <1>1, <3>4 DEF FinalAcceptance, Prove, Typed, ControlTyped, Steps
    <3> QED
        BY <3>1, <3>2, <3>3, <3>4
  <2> QED
      BY <1>1, <1>3, <2>1 DEF Typed, ControlTyped
<1>5. pc' # "opening" /\ (pc' \in InCycle => round' <= MaxRounds)
  <2>1. CASE RoundHead
      BY <1>1, <1>3, <2>1, CycleAssumption DEF RoundHead, InCycle, Typed, ControlTyped
  <2>2. CASE AfterClose
      BY <1>1, <1>3, <2>2 DEF AfterClose, PhaseInv, InCycle
  <2>3. CASE Begin \/ FinalAcceptance \/ Prove
      BY <1>1, <1>3, <2>3 DEF Begin, FinalAcceptance, Prove, InCycle
  <2> QED
      BY <2>1, <2>2, <2>3
<1>6. status' # "executing" => pc' \in {"shutdown", "done"}
    BY <1>2 DEF Begin, RoundHead, AfterClose, FinalAcceptance, Prove
<1>7. status' = "completed" => AllFlat /\ NothingWorks
    BY <1>2 DEF Begin, RoundHead, AfterClose, FinalAcceptance, Prove
<1>8. faults' \in 0..MaxFaults
    BY <1>1, <1>3 DEF Typed, HistoryTyped
<1> QED
    BY <1>2, <1>3, <1>4, <1>5, <1>6, <1>7, <1>8, PlainRest

LEMMA HoldKeeps ==
    ASSUME BaseInv, Hold \/ Gate
    PROVE  BaseInv'
<1>1. Typed /\ PhaseInv /\ VerdictInv
    BY DEF BaseInv
<1>2. pc \in AtRest /\ status = "executing" /\ pc \in InCycle
    BY AtRestFacts DEF Hold, Gate, AtRest, InCycle
<1>3. UNCHANGED <<lane, held, own, stray, traded, legs, carried, doubtful, dustClosed, closes,
                  stopping, round, empty, total, verifiedAll, status>>
      /\ pc' \in {"gate", "cancel", "barrier"}
    BY DEF Hold, Gate, threads, books, history, Goto
<1>4. faults' \in 0..MaxFaults
  <2>1. \A unread \in SUBSET Lanes : Cardinality(unread) \in Nat
      BY LanesAreTwo, FS_Subset, FS_CardinalityType
  <2> QED
      BY <1>1, <2>1, CostsTyped DEF Hold, Gate, Typed, HistoryTyped
<1>5. laneStop' \in [Lanes -> Stops \ {"raised"}] /\ turn' \in Lanes
  <2>1. {"observation", "none"} \subseteq Stops \ {"raised"}
      BY DEF Stops, UncertainStops
  <2>2. CASE Hold
    <3>1. turn' = turn /\ laneStop \in [Lanes -> Stops \ {"raised"}] /\ turn \in Lanes
        BY <1>1, <2>2 DEF Hold, Typed, ControlTyped
    <3>2. laneStop' = laneStop \/ \E unread \in SUBSET Lanes :
             laneStop' = [l \in Lanes |-> IF l \in unread THEN "observation" ELSE "none"]
        BY <2>2 DEF Hold
    <3> QED
        BY <2>1, <3>1, <3>2
  <2>3. CASE Gate
      BY <1>1, <2>3, LanesAreTwo DEF Gate, Typed, ControlTyped
  <2> QED
      BY <2>2, <2>3
<1>6. ControlTyped'
    BY <1>1, <1>3, <1>5 DEF Typed, ControlTyped, Steps
<1>7. round' <= MaxRounds
    BY <1>1, <1>2, <1>3 DEF PhaseInv
<1> QED
    BY <1>2, <1>3, <1>4, <1>6, <1>7, PlainRest

\* The volumes of the books.
LEMMA VolumeTyped ==
    ASSUME BooksTyped, NEW l \in Lanes
    PROVE  Volume(l) \in Nat /\ VerifiedLots(l) \in Int
<1>1. legs[l] \in Seq(LegRecords)
    BY DEF BooksTyped
<1>2. [i \in DOMAIN legs[l] |-> legs[l][i].counted] \in Seq(Nat)
  <2>1. \A i \in 1..Len(legs[l]) : legs[l][i].counted \in Nat
    <3>1. \A i \in 1..Len(legs[l]) : legs[l][i] \in LegRecords
        BY <1>1
    <3> QED
        BY <3>1 DEF LegRecords
  <2> QED
      BY <1>1, <2>1
<1>3. [i \in DOMAIN legs[l] |-> SignedLots(legs[l][i])] \in Seq(Int)
  <2>1. \A i \in 1..Len(legs[l]) : SignedLots(legs[l][i]) \in Int
    <3>1. \A i \in 1..Len(legs[l]) : legs[l][i] \in LegRecords
        BY <1>1
    <3>2. \A leg \in LegRecords : SignedLots(leg) \in Int
        BY DEF LegRecords, SignedLots
    <3> QED
        BY <3>1, <3>2
  <2> QED
      BY <1>1, <2>1
<1> QED
    BY <1>2, <1>3, TotalNat, TotalTyped DEF Volume, VerifiedLots

LEMMA CheckpointKeeps ==
    ASSUME BaseInv, RefreshDone \/ Checkpoint
    PROVE  BaseInv'
<1>1. Typed /\ PhaseInv /\ VerdictInv
    BY DEF BaseInv
<1>2. pc \in AtRest /\ status = "executing" /\ pc \in InCycle
    BY AtRestFacts DEF RefreshDone, Checkpoint, AtRest, InCycle
<1>3. UNCHANGED <<lane, held, own, stray, traded, legs, carried, doubtful, dustClosed, closes,
                  faults, stopping, turn, round, verifiedAll>>
    BY DEF RefreshDone, Checkpoint, threads, books, history
<1>4. CASE RefreshDone
  <2>1. pc' = "checkpoint" /\ UNCHANGED <<status, empty, total>>
      BY <1>4 DEF RefreshDone, Goto
  <2>2. laneStop' \in [Lanes -> Stops \ {"raised"}]
    <3>1. \A l \in Lanes : StopAfterRefresh(l) \in Stops \ {"raised"}
        BY <1>1 DEF StopAfterRefresh, Stops, UncertainStops, HardStops, Typed, ControlTyped
    <3> QED
        BY <1>4, <3>1 DEF RefreshDone
  <2>3. ControlTyped' /\ faults' \in 0..MaxFaults /\ round' <= MaxRounds
      BY <1>1, <1>2, <1>3, <2>1, <2>2 DEF Typed, ControlTyped, HistoryTyped, Steps, PhaseInv
  <2> QED
      BY <1>2, <1>3, <2>1, <2>3, PlainRest
<1>5. CASE Checkpoint
  <2>1. \/ pc' = "shutdown" /\ status' \in {"uncertain", "stopped"}
        \/ pc' = "gap" /\ status' = status
      BY <1>5 DEF Checkpoint, Finish, Goto
  <2>2. CycleVolume \in Nat
    <3>1. Volume("BTC") \in Nat /\ Volume("ETH") \in Nat
        BY <1>1, VolumeTyped, LanesAreTwo DEF Typed
    <3> QED
        BY <3>1 DEF CycleVolume
  <2>3. total' \in Nat /\ empty' \in Nat /\ laneStop' = laneStop
    <3>1. total' = total + CycleVolume /\ laneStop' = laneStop
          /\ empty' = IF CycleVolume = 0 THEN empty + 1 ELSE 0
        BY <1>5 DEF Checkpoint
    <3>2. total \in Nat /\ empty \in Nat
        BY <1>1 DEF Typed, ControlTyped
    <3> QED
        BY <2>2, <3>1, <3>2
  <2>4. ControlTyped' /\ faults' \in 0..MaxFaults /\ round' <= MaxRounds
      BY <1>1, <1>2, <1>3, <2>1, <2>3 DEF Typed, ControlTyped, HistoryTyped, Steps, PhaseInv
  <2> QED
      BY <1>2, <1>3, <2>1, <2>4, PlainRest
<1> QED
    BY <1>4, <1>5

LEMMA GapKeeps ==
    ASSUME BaseInv, Gap
    PROVE  BaseInv'
<1>1. Typed /\ PhaseInv /\ VerdictInv /\ CloseInv
    BY DEF BaseInv
<1>2. pc = "gap" /\ pc \in AtRest /\ status = "executing" /\ pc \in InCycle
    BY AtRestFacts DEF Gap, AtRest, InCycle
<1>3. UNCHANGED <<lane, held, own, stray, traded, faults, stopping, turn, empty, total,
                  verifiedAll>>
    BY DEF Gap, threads
<1>4. CASE pc' = "cancel" /\ UNCHANGED <<round, laneStop, books, dustClosed, closes, status>>
  <2>1. ControlTyped' /\ faults' \in 0..MaxFaults
      BY <1>1, <1>3, <1>4 DEF Typed, ControlTyped, HistoryTyped, Steps
  <2>2. pc' \notin InCycle
      BY <1>4 DEF InCycle
  <2> QED
      BY <1>2, <1>3, <1>4, <2>1, <2>2, PlainRest DEF books
<1>5. CASE /\ pc' = "round" /\ status' = status /\ round' = round + 1
           /\ laneStop' = [l \in Lanes |-> "none"] /\ legs' = [l \in Lanes |-> <<>>]
           /\ carried' = [l \in Lanes |-> OwnedInSession(l)]
           /\ doubtful' = (doubtful \/ \E l \in Lanes : Unresolved(l) # {})
           /\ dustClosed' = [l \in Lanes |-> FALSE] /\ closes' = [l \in Lanes |-> 0]
  <2>1. ControlTyped'
    <3>1. round' \in 1..MaxRounds + 1
        BY <1>1, <1>2, <1>5, CycleAssumption DEF Typed, ControlTyped, PhaseInv
    <3>2. laneStop' \in [Lanes -> Stops \ {"raised"}]
        BY <1>5 DEF Stops
    <3> QED
        BY <1>1, <1>3, <1>5, <3>1, <3>2 DEF Typed, ControlTyped, Steps
  <2>2. BooksTyped'
    <3>1. legs' \in [Lanes -> Seq(LegRecords)]
        BY <1>5
    <3>2. \A l \in Lanes : OwnedInSession(l) \in Int
        BY <1>1, VolumeTyped DEF OwnedInSession, Typed, BooksTyped
    <3>3. doubtful' \in BOOLEAN
        BY <1>5
    <3> QED
        BY <1>5, <3>1, <3>2, <3>3 DEF BooksTyped
  <2>3. LaneTyped' /\ ExchangeTyped'
      BY <1>1, <1>3 DEF Typed, LaneTyped, ExchangeTyped
  <2>4. HistoryTyped' /\ CloseInv'
    <3>1. \A l \in Lanes : closes'[l] = 0 /\ lane'[l].task # "dust_send"
        BY <1>2, <1>3, <1>5, AtRestFacts
    <3>2. dustClosed' \in [Lanes -> BOOLEAN]
      <4>1. dustClosed' = [l \in Lanes |-> FALSE]
          BY <1>5
      <4> QED
          BY <4>1, Zenon
    <3>3. closes' \in [Lanes -> Nat] /\ faults' \in 0..MaxFaults
        BY <1>1, <1>3, <1>5 DEF Typed, HistoryTyped
    <3>4. CloseInv'
        BY <3>1 DEF CloseInv, CloseOK
    <3> QED
        BY <3>2, <3>3, <3>4 DEF HistoryTyped
  <2>5. VerdictInv'
      BY <1>2, <1>5 DEF VerdictInv, KnownVerdict
  <2>6. pc' \notin InCycle /\ pc' # "opening"
      BY <1>5 DEF InCycle
  <2> QED
      BY <1>2, <1>3, <2>1, <2>2, <2>3, <2>4, <2>5, <2>6, AtRestFacts, RestKeeps
<1> QED
    BY <1>4, <1>5 DEF Gap, Goto

LEMMA SafeCancelKeeps ==
    ASSUME BaseInv, SafeCancel
    PROVE  BaseInv'
<1>1. Typed /\ PhaseInv /\ VerdictInv /\ CloseInv
    BY DEF BaseInv
<1>2. pc \in AtRest /\ status = "executing" /\ turn \in Lanes
    BY <1>1, AtRestFacts DEF SafeCancel, AtRest, Typed, ControlTyped
<1>3. UNCHANGED <<held, traded, stopping, lane, round, empty, total, laneStop, legs, carried,
                  doubtful, dustClosed, closes>>
    BY DEF SafeCancel, books, history
<1>4. PICK verified \in BOOLEAN : CancelAll(turn, verified) /\ Fault(~verified)
    BY DEF SafeCancel
<1>5. ExchangeTyped' /\ own'[turn] = 0 /\ own' = [own EXCEPT ![turn] = own'[turn]]
    BY <1>2, <1>3, <1>4, CancelTyped
<1>6. \A l \in Lanes : own'[l] = 0
    BY <1>1, <1>2, <1>5, AtRestFacts DEF Typed, ExchangeTyped
<1>7. /\ \/ pc' = pc /\ status' = status
         \/ pc' = "sweep" /\ status' = status
         \/ pc' = "shutdown" /\ status' = "uncertain"
      /\ turn' \in Lanes /\ verifiedAll' \in BOOLEAN
  <2>1. /\ \/ pc' = pc /\ status' = status
           \/ pc' = "sweep" /\ status' = status
           \/ pc' = "shutdown" /\ status' = "uncertain"
        /\ turn' \in Lanes
      BY <1>2, LanesAreTwo DEF SafeCancel, Goto, Finish
  <2>2. \E all \in BOOLEAN : verifiedAll' = all
    <3>1. PICK v \in BOOLEAN : verifiedAll' = (v /\ (turn = "ETH" => verifiedAll))
        BY DEF SafeCancel
    <3> QED
        BY <3>1
  <2> QED
      BY <2>1, <2>2
<1>8. faults' \in 0..MaxFaults
    BY <1>4, FaultTyped
<1>9. pc = "cancel"
    BY DEF SafeCancel
<1>10. ControlTyped' /\ LaneTyped' /\ BooksTyped' /\ HistoryTyped'
  <2>1. ControlTyped'
      BY <1>1, <1>3, <1>7, <1>9 DEF Typed, ControlTyped, Steps
  <2> QED
      BY <1>1, <1>3, <1>8, <2>1 DEF Typed, LaneTyped, BooksTyped, HistoryTyped
<1>11. CloseInv' /\ VerdictInv'
    BY <1>1, <1>2, <1>3, <1>7 DEF CloseInv, CloseOK, VerdictInv, KnownVerdict
<1>12. pc' # "opening" /\ pc' \notin InCycle
    BY <1>7, <1>9 DEF InCycle
<1> QED
    BY <1>2, <1>3, <1>5, <1>6, <1>10, <1>11, <1>12, AtRestFacts, RestKeeps

LEMMA OpenedKeeps ==
    ASSUME BaseInv, Opened
    PROVE  BaseInv'
<1>1. Typed /\ LaneInv /\ PhaseInv /\ VerdictInv /\ CloseInv
    BY DEF BaseInv
<1>2. pc = "opening" /\ AllDone /\ status = "executing" /\ round <= MaxRounds
    BY <1>1 DEF Opened, VerdictInv, PhaseInv, InCycle
<1>3. UNCHANGED <<held, own, stray, traded, stopping, turn, round, empty, total, verifiedAll,
                  legs, carried, doubtful, dustClosed, closes, faults, status>>
      /\ pc' \in {"cancel", "hold"}
    BY DEF Opened, exchange, books, history, Goto
<1>4. ASSUME NEW l \in Lanes
      PROVE  /\ lane[l].stop \in Stops \ {"raised"} /\ own[l] = 0
             /\ lane[l].task \in {"idle", "done"} /\ lane[l].fills = 0 /\ lane[l] \in LaneRecords
  <2>1. LaneOK(l) /\ lane[l] \in LaneRecords /\ own[l] \in 0..Lots
        /\ lane[l].task \in {"idle", "done"}
      BY <1>1, <1>2 DEF LaneInv, Typed, LaneTyped, ExchangeTyped, AllDone, Settled
  <2> QED
      BY <1>2, <2>1, CycleAssumption DEF LaneOK, LaneRecords, Legging
<1>5. /\ laneStop' = [l \in Lanes |-> lane[l].stop]
      /\ lane' = [l \in Lanes |-> IF Task(l, "done") THEN Idle ELSE lane[l]]
    BY DEF Opened
<1>6. \A l \in Lanes : /\ lane'[l].task = "idle" /\ lane'[l].stop # "raised"
                       /\ lane'[l].fills = 0 /\ own'[l] = 0 /\ lane'[l] \in LaneRecords
    BY <1>3, <1>4, <1>5, IdleTyped DEF Task
<1>7. LaneTyped' /\ laneStop' \in [Lanes -> Stops \ {"raised"}]
    BY <1>4, <1>5, <1>6 DEF LaneTyped
<1>8. ControlTyped' /\ ExchangeTyped' /\ BooksTyped' /\ HistoryTyped'
    BY <1>1, <1>3, <1>7 DEF Typed, ControlTyped, ExchangeTyped, BooksTyped, HistoryTyped, Steps
<1>9. CloseInv'
    BY <1>1, <1>3, <1>6 DEF CloseInv, CloseOK
<1>10. VerdictInv'
    BY <1>2, <1>3 DEF VerdictInv, KnownVerdict
<1> QED
    BY <1>2, <1>3, <1>6, <1>7, <1>8, <1>9, <1>10, RestKeeps

\* Threads that are given a closing job.
LEMMA LaunchOne ==
    ASSUME BaseInv, NEW t \in Lanes, NEW owned \in [Lanes -> Int], Resting(t),
           Launch({t}, "flatten", "observe", owned), own' = own, pc' # "opening"
    PROVE  /\ LaneTyped' /\ LaneInv'
           /\ \A l \in Lanes : l # t => lane'[l] = lane[l]
           /\ lane'[t].job = "flatten" /\ lane'[t].task = "observe"
<1> DEFINE r == Thread("observe", "flatten", 1, owned[t], "none", FALSE)
<1>1. r \in LaneRecords /\ r.task = "observe" /\ r.job = "flatten" /\ r.attempt = 1
      /\ r.stop = "none" /\ r.fills = 0
    BY CycleAssumption DEF Thread, LaneRecords, Tasks, Jobs, Results, Stops
<1>2. \A l \in Lanes : lane'[l] = IF l = t THEN r ELSE lane[l]
    BY DEF Launch
<1>3. lane' = [l \in Lanes |-> lane'[l]]
    BY DEF Launch
<1>4. LaneTyped /\ LaneInv /\ ExchangeTyped
    BY DEF BaseInv, Typed
<1> HIDE DEF r
<1>5. LaneTyped'
    BY <1>1, <1>2, <1>3, <1>4 DEF LaneTyped
<1>6. own'[t] = 0
    BY <1>4, CycleAssumption DEF LaneInv, LaneOK, Resting, Legging, ExchangeTyped
<1>7. LaneOK(t)'
    BY <1>1, <1>2, <1>6, CycleAssumption DEF LaneOK, Legging
<1>8. ASSUME NEW l \in Lanes, l # t PROVE LaneOK(l)'
    BY <1>2, <1>4, <1>8 DEF LaneInv, LaneOK
<1>9. LaneInv'
    BY <1>7, <1>8 DEF LaneInv
<1> QED
    BY <1>1, <1>2, <1>5, <1>9

LEMMA PrepareKeeps ==
    ASSUME BaseInv, Prepare
    PROVE  BaseInv'
<1>1. Typed /\ LaneInv /\ PhaseInv /\ VerdictInv /\ CloseInv
    BY DEF BaseInv
<1>2. pc = "prepare" /\ pc \in AtRest /\ status = "executing" /\ round <= MaxRounds
    BY <1>1, AtRestFacts DEF Prepare, AtRest, PhaseInv, InCycle
<1>3. UNCHANGED <<held, own, stray, traded, stopping, turn, round, empty, total, laneStop,
                  verifiedAll, legs, carried, doubtful, dustClosed, closes, faults>>
    BY DEF Prepare, exchange, books, history
<1>4. CASE /\ UNCHANGED lane
           /\ \/ pc' \in {"cancel", "shutdown"} /\ status' = status
              \/ pc' = "shutdown" /\ status' = "stopped"
  <2>1. ControlTyped' /\ faults' \in 0..MaxFaults
      BY <1>1, <1>3, <1>4 DEF Typed, ControlTyped, HistoryTyped, Steps
  <2>2. pc' \notin InCycle /\ pc' # "opening"
      BY <1>4 DEF InCycle
  <2> QED
      BY <1>2, <1>3, <1>4, <2>1, <2>2, PlainRest
<1>5. CASE /\ pc' = "opening" /\ status' = status
           /\ Launch(Lanes, "open", "start", [l \in Lanes |-> 0])
  <2> DEFINE r == Thread("start", "open", 1, 0, "none", FALSE)
  <2>1. r \in LaneRecords /\ r.task = "start" /\ r.job = "open" /\ r.attempt = 1
        /\ r.stop = "none" /\ r.fills = 0
      BY CycleAssumption DEF Thread, LaneRecords, Tasks, Jobs, Results, Stops
  <2>2. lane' = [l \in Lanes |-> r]
      BY <1>5 DEF Launch
  <2> HIDE DEF r
  <2>3. Typed'
      BY <1>1, <1>3, <1>5, <2>1, <2>2
         DEF Typed, ControlTyped, ExchangeTyped, LaneTyped, BooksTyped, HistoryTyped, Steps
  <2>4. LaneInv'
    <3>1. \A l \in Lanes : own'[l] = 0
        BY <1>2, <1>3, AtRestFacts
    <3> QED
        BY <2>1, <2>2, <3>1, CycleAssumption DEF LaneInv, LaneOK, Legging
  <2>5. PhaseInv'
    <3>1. \A l \in Lanes : lane'[l].job = "open"
        BY <2>1, <2>2
    <3> QED
        BY <1>2, <1>3, <1>5, <3>1 DEF PhaseInv, AtRest
  <2>6. CloseInv'
      BY <1>1, <1>3, <2>1, <2>2 DEF CloseInv, CloseOK
  <2>7. VerdictInv'
      BY <1>2, <1>5 DEF VerdictInv, KnownVerdict
  <2> QED
      BY <2>3, <2>4, <2>5, <2>6, <2>7 DEF BaseInv
<1> QED
    BY <1>4, <1>5 DEF Prepare, Goto, Raise, Finish

\* What a session may have before a verdict: nothing said yet, or a doubt.
LEMMA NoVerdictYet ==
    ASSUME status' \in {"executing", "uncertain"},
           status' # "executing" => pc' \in {"shutdown", "done"}
    PROVE  VerdictInv'
BY DEF VerdictInv, KnownVerdict

LEMMA BarrierKeeps ==
    ASSUME BaseInv, CloseBarrier \/ Sweep
    PROVE  BaseInv'
<1>1. Typed /\ LaneInv /\ PhaseInv /\ VerdictInv /\ CloseInv
    BY DEF BaseInv
<1>2. /\ pc \in {"barrier", "sweep"} /\ pc # "opening" /\ status = "executing"
      /\ Resting("ETH") /\ (turn = "BTC" => Resting("BTC"))
      /\ turn \in Lanes /\ Resting(turn) /\ (pc = "barrier" => round <= MaxRounds)
  <2>1. pc \in {"barrier", "sweep"} /\ turn \in Lanes
      BY <1>1 DEF CloseBarrier, Sweep, Typed, ControlTyped
  <2> QED
      BY <1>1, <2>1, LanesAreTwo DEF PhaseInv, VerdictInv, InCycle
<1>3. UNCHANGED <<held, own, stray, traded, stopping, round, empty, total, verifiedAll,
                  legs, carried, doubtful, dustClosed, closes>>
    BY DEF CloseBarrier, Sweep, exchange, books, history, session
<1>4. faults' \in 0..MaxFaults /\ laneStop' \in [Lanes -> Stops \ {"raised"}]
  <2>1. CASE CloseBarrier
    <3>1. faults' \in 0..MaxFaults
        BY <1>1, <2>1, CostsTyped DEF CloseBarrier, Typed, HistoryTyped
    <3>2. "observation" \in Stops \ {"raised"}
        BY DEF Stops, UncertainStops
    <3>3. laneStop' = laneStop \/ laneStop' = [laneStop EXCEPT ![turn] = "observation"]
        BY <2>1 DEF CloseBarrier
    <3> QED
        BY <1>1, <3>1, <3>2, <3>3 DEF Typed, ControlTyped
  <2>2. CASE Sweep
      BY <1>1, <2>2 DEF Sweep, Typed, ControlTyped, HistoryTyped
  <2> QED
      BY <2>1, <2>2
<1>5. \/ pc' = "shutdown" /\ status' = "uncertain" /\ lane' = lane /\ turn' = turn
      \/ /\ status' = status
         /\ \/ turn = "BTC" /\ turn' = "ETH" /\ pc' = pc
            \/ turn = "ETH" /\ turn' = "BTC" /\ pc' = (IF pc = "barrier" THEN "closing" ELSE "swept")
  <2>1. CASE CloseBarrier
      BY <1>2, <2>1, LanesAreTwo DEF CloseBarrier, Advance, session
  <2>2. CASE Sweep
      BY <1>2, <2>2, LanesAreTwo DEF Sweep, Advance, Finish
  <2> QED
      BY <2>1, <2>2
<1>6. ControlTyped'
    BY <1>1, <1>2, <1>3, <1>4, <1>5, LanesAreTwo DEF Typed, ControlTyped, Steps
<1>7. ExchangeTyped' /\ BooksTyped' /\ HistoryTyped'
    BY <1>1, <1>3, <1>4 DEF Typed, ExchangeTyped, BooksTyped, HistoryTyped
<1>8. VerdictInv'
    BY <1>2, <1>5, NoVerdictYet
<1>9. pc' # "opening" /\ pc' \notin AtRest /\ pc' # "done" /\ (pc' \in InCycle => round' <= MaxRounds)
    BY <1>2, <1>3, <1>5 DEF AtRest, InCycle
<1>10. /\ LaneTyped' /\ LaneInv'
       /\ \A l \in Lanes :
            \/ lane'[l] = lane[l]
            \/ l = turn /\ lane'[l].job = "flatten" /\ lane'[l].task = "observe"
  <2>1. CASE lane' = lane
    <3>1. LaneTyped' /\ LaneInv'
        BY <1>1, <1>3, <1>9, <2>1 DEF Typed, LaneTyped, LaneInv, LaneOK
    <3> QED
        BY <2>1, <3>1
  <2>2. CASE lane' # lane
    <3>1. \A l \in Lanes : OwnedInCycle(l) \in Int /\ OwnedInSession(l) \in Int
        BY <1>1, VolumeTyped DEF OwnedInCycle, OwnedInSession, Typed, BooksTyped
    <3>2. PICK owned \in [Lanes -> Int] : Launch({turn}, "flatten", "observe", owned)
        BY <2>2, <3>1 DEF CloseBarrier, Sweep
    <3> QED
        BY <1>2, <1>3, <1>9, <3>2, LaunchOne
  <2> QED
      BY <2>1, <2>2
<1>11. PhaseInv'
  <2>1. \A l \in Lanes : lane'[l].job = "open" => Settled(l)'
      BY <1>1, <1>2, <1>10 DEF PhaseInv, Settled
  <2>2. pc' \in {"barrier", "sweep"} => turn' = "ETH" /\ turn = "BTC" /\ Resting("ETH")'
      BY <1>2, <1>5, <1>10, LanesAreTwo DEF Resting
  <2>3. pc' \in {"closing", "swept"} => turn' = "BTC"
      BY <1>2, <1>5
  <2> QED
      BY <1>9, <2>1, <2>2, <2>3 DEF PhaseInv
<1>12. CloseInv'
    BY <1>1, <1>3, <1>10 DEF CloseInv, CloseOK
<1> QED
    BY <1>6, <1>7, <1>8, <1>10, <1>11, <1>12 DEF BaseInv, Typed

LEMMA CollectKeeps ==
    ASSUME BaseInv, Closed \/ Swept
    PROVE  BaseInv'
<1>1. Typed /\ LaneInv /\ PhaseInv /\ VerdictInv /\ CloseInv
    BY DEF BaseInv
<1>2. /\ pc \in {"closing", "swept"} /\ pc # "opening" /\ status = "executing"
      /\ (turn = "ETH" => Resting("BTC")) /\ turn \in Lanes /\ Settled(turn)
      /\ (pc = "closing" => round <= MaxRounds)
      /\ lane' = [lane EXCEPT ![turn] = Idle]
  <2>1. pc \in {"closing", "swept"} /\ turn \in Lanes /\ Settled(turn)
        /\ lane' = [lane EXCEPT ![turn] = Idle]
      BY <1>1 DEF Closed, Swept, Typed, ControlTyped, Collect
  <2> QED
      BY <1>1, <2>1 DEF PhaseInv, VerdictInv, InCycle
<1>3. UNCHANGED <<held, own, stray, traded, stopping, round, empty, total, verifiedAll,
                  legs, carried, doubtful, dustClosed, closes, faults>>
    BY DEF Closed, Swept, exchange, books, history, session
<1>4. laneStop' \in [Lanes -> Stops \ {"raised"}]
  <2>1. laneStop \in [Lanes -> Stops \ {"raised"}] /\ lane[turn].stop \in Stops
      BY <1>1, <1>2 DEF Typed, ControlTyped, LaneTyped, LaneRecords
  <2>2. \/ laneStop' = laneStop
        \/ lane[turn].stop # "raised" /\ laneStop' = [laneStop EXCEPT ![turn] = CloseStop(turn)]
      BY DEF Closed, Swept
  <2>3. lane[turn].stop # "raised" => CloseStop(turn) \in Stops \ {"raised"}
      BY <1>2, <2>1 DEF CloseStop
  <2> QED
      BY <2>1, <2>2, <2>3
<1>5. \/ /\ pc' = "shutdown" /\ status' \in {status, "uncertain"} /\ turn' = turn
      \/ /\ status' = status
         /\ \/ turn = "BTC" /\ turn' = "ETH" /\ pc' = pc
            \/ turn = "ETH" /\ turn' = "BTC" /\ pc' = (IF pc = "closing" THEN "account" ELSE "prove")
  <2>1. CASE Closed
      BY <1>2, <2>1, LanesAreTwo DEF Closed, Advance, Raise
  <2>2. CASE Swept
      BY <1>2, <2>2, LanesAreTwo DEF Swept, Advance, Finish, Raise
  <2> QED
      BY <2>1, <2>2
<1>6. ControlTyped'
    BY <1>1, <1>2, <1>3, <1>4, <1>5, LanesAreTwo DEF Typed, ControlTyped, Steps
<1>7. ExchangeTyped' /\ BooksTyped' /\ HistoryTyped' /\ LaneTyped'
    BY <1>1, <1>2, <1>3, IdleTyped
       DEF Typed, ExchangeTyped, BooksTyped, HistoryTyped, LaneTyped
<1>8. VerdictInv'
    BY <1>2, <1>5, NoVerdictYet
<1>9. pc' \notin {"opening", "done", "barrier", "sweep"} /\ (pc' \in InCycle => round' <= MaxRounds)
    BY <1>2, <1>3, <1>5 DEF InCycle
<1>10. \A l \in Lanes : lane'[l] = IF l = turn THEN Idle ELSE lane[l]
    BY <1>1, <1>2 DEF Typed, LaneTyped
<1>11. LaneInv'
  <2>1. own'[turn] = 0
      BY <1>1, <1>2, <1>3, CycleAssumption
         DEF LaneInv, LaneOK, Legging, Typed, ExchangeTyped, Settled
  <2>2. ASSUME NEW l \in Lanes PROVE LaneOK(l)'
    <3>1. CASE l = turn
        BY <1>10, <2>1, <3>1, IdleTyped DEF LaneOK
    <3>2. CASE l # turn
        BY <1>1, <1>3, <1>9, <1>10, <3>2 DEF LaneInv, LaneOK
    <3> QED
        BY <3>1, <3>2
  <2> QED
      BY <2>2 DEF LaneInv
<1>12. PhaseInv'
  <2>1. \A l \in Lanes : lane'[l].job = "open" => Settled(l)'
      BY <1>1, <1>2, <1>10, IdleTyped DEF PhaseInv, Settled
  <2>2. lane'[turn].task = "idle" /\ (\A l \in Lanes : Resting(l) => Resting(l)')
      BY <1>2, <1>10, IdleTyped DEF Resting
  <2>3. pc' \in {"closing", "swept"} /\ turn' = "ETH" => Resting("BTC")'
      BY <1>2, <1>5, <2>2, IdleTyped, <1>10, LanesAreTwo DEF Resting
  <2>4. pc' \in AtRest => \A l \in Lanes : Resting(l)'
    <3>1. pc' \in AtRest => turn = "ETH"
        BY <1>2, <1>5 DEF AtRest
    <3>2. turn = "ETH" => lane'["ETH"].task = "idle" /\ lane'["BTC"].task = "idle"
        BY <1>2, <1>10, IdleTyped, LanesAreTwo DEF Resting
    <3> QED
        BY <3>1, <3>2, LanesAreTwo DEF Resting
  <2> QED
      BY <1>9, <2>1, <2>3, <2>4 DEF PhaseInv
<1>13. CloseInv'
    BY <1>1, <1>3, <1>10, IdleTyped DEF CloseInv, CloseOK
<1> QED
    BY <1>6, <1>7, <1>8, <1>11, <1>12, <1>13 DEF BaseInv, Typed

LEMMA ShutdownKeeps ==
    ASSUME BaseInv, Shutdown
    PROVE  BaseInv'
<1>1. Typed /\ LaneInv /\ PhaseInv /\ VerdictInv /\ CloseInv
    BY DEF BaseInv
<1>2. /\ pc = "shutdown" /\ AllDone /\ pc' = "done"
      /\ UNCHANGED <<held, own, stray, traded, stopping, turn, round, empty, total, laneStop,
                     verifiedAll, lane, legs, carried, doubtful, dustClosed, closes, faults, status>>
    BY DEF Shutdown, threads, books, history, AllDone, Goto
<1>3. Typed'
    BY <1>1, <1>2 DEF Typed, ControlTyped, ExchangeTyped, LaneTyped, BooksTyped, HistoryTyped, Steps
<1>4. LaneInv' /\ CloseInv'
  <2>1. LaneInv'
      BY <1>1, <1>2 DEF LaneInv, LaneOK
  <2>2. CloseInv'
      BY <1>1, <1>2 DEF CloseInv, CloseOK
  <2> QED
      BY <2>1, <2>2
<1>5. AllDone'
    BY <1>2 DEF AllDone, Settled
<1>6. PhaseInv'
    BY <1>2, <1>5 DEF PhaseInv, InCycle, AtRest, AllDone
<1>7. VerdictInv'
    BY <1>1, <1>2, <1>5 DEF VerdictInv, KnownVerdict, AllFlat, NothingWorks, Working
<1> QED
    BY <1>3, <1>4, <1>6, <1>7 DEF BaseInv

\* What a refresh may write over a leg that is pending.
LEMMA AnswersTyped ==
    ASSUME NEW leg \in LegRecords, NEW a \in Answers(leg)
    PROVE  /\ a \in LegRecords /\ a.books # "pending"
           /\ a.counted = leg.counted \/ a.counted \in 0..leg.fills
<1>1. leg.fills \in Nat /\ leg.counted \in Nat /\ leg.action \in Jobs
    BY DEF LegRecords
<1>2. \E b \in {"open", "hard", "verified"}, c \in Nat :
        a = AskedAgain(leg, b, c) /\ (c = leg.counted \/ c \in 0..leg.fills)
    BY <1>1 DEF Answers
<1>3. PICK b \in {"open", "hard", "verified"}, c \in Nat :
        a = AskedAgain(leg, b, c) /\ (c = leg.counted \/ c \in 0..leg.fills)
    BY <1>2
<1> QED
    BY <1>1, <1>3 DEF AskedAgain, LegRecords

LEMMA RefreshKeeps ==
    ASSUME BaseInv, NEW l \in Lanes, NEW i \in DOMAIN legs[l], RefreshLeg(l, i)
    PROVE  BaseInv'
<1>1. Typed
    BY DEF BaseInv
<1>2. /\ pc = "refresh" /\ pc \in AtRest /\ status = "executing"
      /\ UNCHANGED <<held, own, stray, traded, stopping, pc, turn, round, empty, total, laneStop,
                     verifiedAll, lane, carried, doubtful, dustClosed, closes, status>>
    BY AtRestFacts DEF RefreshLeg, threads, coordinator, session, history, AtRest
<1>3. legs[l] \in Seq(LegRecords) /\ i \in 1..Len(legs[l]) /\ legs[l][i] \in LegRecords
    BY <1>1 DEF Typed, BooksTyped
<1>4. PICK leg \in Answers(legs[l][i]) : /\ legs' = [legs EXCEPT ![l][i] = leg]
                                         /\ Fault(legs[l][i].match /\ leg.books # "verified")
    BY DEF RefreshLeg, Refreshed
<1>5. BooksTyped'
  <2>1. leg \in LegRecords
      BY <1>3, <1>4, AnswersTyped
  <2> DEFINE s == [legs[l] EXCEPT ![i] = leg]
  <2>2. s \in Seq(LegRecords)
      BY <1>3, <2>1
  <2>3. legs' = [legs EXCEPT ![l] = s]
      BY <1>4
  <2> HIDE DEF s
  <2>4. legs' \in [Lanes -> Seq(LegRecords)]
      BY <1>1, <2>2, <2>3 DEF Typed, BooksTyped
  <2> QED
      BY <1>1, <1>2, <2>4 DEF Typed, BooksTyped
<1>6. faults' \in 0..MaxFaults
    BY <1>4, FaultTyped
<1>7. LaneTyped' /\ ExchangeTyped' /\ ControlTyped' /\ HistoryTyped'
    BY <1>1, <1>2, <1>6 DEF Typed, LaneTyped, ExchangeTyped, ControlTyped, HistoryTyped
<1>8. CloseInv' /\ VerdictInv'
    BY <1>2 DEF BaseInv, CloseInv, CloseOK, VerdictInv, KnownVerdict
<1>9. pc' # "opening" /\ round' <= MaxRounds
    BY <1>2 DEF BaseInv, PhaseInv, InCycle
<1> QED
    BY <1>2, <1>5, <1>7, <1>8, <1>9, AtRestFacts, RestKeeps

LEMMA StutterKeeps ==
    ASSUME BaseInv, UNCHANGED vars
    PROVE  BaseInv'
<1>1. UNCHANGED <<held, own, stray, traded, stopping, pc, turn, round, empty, total, laneStop,
                  verifiedAll, lane, legs, carried, doubtful, dustClosed, closes, faults, status>>
    BY DEF vars, exchange, session, books, history
<1>2. Typed'
    BY <1>1 DEF BaseInv, Typed, ExchangeTyped, ControlTyped, LaneTyped, BooksTyped, HistoryTyped
<1>3. LaneInv'
    BY <1>1 DEF BaseInv, LaneInv, LaneOK
<1>4. CloseInv'
    BY <1>1 DEF BaseInv, CloseInv, CloseOK
<1>5. PhaseInv'
    BY <1>1 DEF BaseInv, PhaseInv, Resting, AllDone, Settled
<1>6. VerdictInv'
    BY <1>1 DEF BaseInv, VerdictInv, KnownVerdict, AllDone, Settled, AllFlat, NothingWorks, Working
<1> QED
    BY <1>2, <1>3, <1>4, <1>5, <1>6 DEF BaseInv

LEMMA NextBase == BaseInv /\ [Next]_vars => BaseInv'
<1> SUFFICES ASSUME BaseInv, [Next]_vars PROVE BaseInv'
    OBVIOUS
<1>1. CASE Coordinator
    BY <1>1, BeginKeeps, PrepareKeeps, OpenedKeeps, HoldKeeps, BarrierKeeps, CollectKeeps,
       CheckpointKeeps, GapKeeps, SafeCancelKeeps, ShutdownKeeps, RefreshKeeps DEF Coordinator
<1>2. CASE \E l \in Lanes : LaneStep(l) \/ FillOwn(l) \/ FillStray(l)
    BY <1>2, LaneStepMoves, MovesKeep, FillOwnKeeps, FillStrayKeeps
<1>3. CASE RequestStop
    BY <1>3, RequestKeeps
<1>4. CASE Done \/ UNCHANGED vars
    BY <1>4, StutterKeeps DEF Done
<1> QED
    BY <1>1, <1>2, <1>3, <1>4 DEF Next

(***************************************************************************)
(* The volume.  Each leg claims what it counts, or, while its fills are    *)
(* still asked for, what it may come to count; a leg that runs claims what *)
(* its own orders have filled.  All claims together never exceed what the  *)
(* exchange traded and the session has not counted yet.                    *)
(***************************************************************************)
FillsCounted(leg) == leg.books = "pending" => leg.counted <= leg.fills
Weight(leg) == IF leg.books = "pending" THEN leg.fills ELSE leg.counted
Weights(s) == [i \in DOMAIN s |-> Weight(s[i])]
Live(l) == IF lane[l].task = "orders" THEN 0 ELSE lane[l].fills
Claim(l) == Total(Weights(legs[l])) + Live(l)
Uncounted == {"begin", "round", "prepare", "opening", "hold", "gate", "barrier",
              "closing", "account", "refresh", "checkpoint"}
VolumeInv ==
    /\ \A l \in Lanes : \A i \in DOMAIN legs[l] : FillsCounted(legs[l][i])
    /\ total <= traded
    /\ pc \in Uncounted => total + Claim("BTC") + Claim("ETH") <= traded
IInv == BaseInv /\ VolumeInv

LEMMA WeightsTyped ==
    ASSUME NEW s \in Seq(LegRecords)
    PROVE  Weights(s) \in Seq(Nat) /\ Weights(s) \in Seq(Int) /\ Len(Weights(s)) = Len(s)
           /\ Total(Weights(s)) \in Nat
<1>1. \A leg \in LegRecords : Weight(leg) \in Nat
    BY DEF Weight, LegRecords
<1>2. \A i \in 1..Len(s) : Weight(s[i]) \in Nat
    BY <1>1
<1>3. DOMAIN s = 1..Len(s) /\ Len(s) \in Nat
    OBVIOUS
<1>4. Weights(s) = [i \in 1..Len(s) |-> Weight(s[i])]
    BY <1>3 DEF Weights
<1>5. Weights(s) \in Seq(Nat) /\ Len(Weights(s)) = Len(s)
    BY <1>2, <1>3, <1>4
<1>6. Weights(s) \in Seq(Int)
    BY <1>5
<1> QED
    BY <1>5, <1>6, TotalNat

LEMMA WeightsAppend ==
    ASSUME NEW s \in Seq(LegRecords), NEW leg \in LegRecords
    PROVE  Total(Weights(Append(s, leg))) = Total(Weights(s)) + Weight(leg)
<1>1. Weight(leg) \in Int
    BY DEF Weight, LegRecords
<1>2. Weights(Append(s, leg)) = Append(Weights(s), Weight(leg))
    BY WeightsTyped DEF Weights
<1> QED
    BY <1>1, <1>2, WeightsTyped, TotalAppend

LEMMA WeightsExcept ==
    ASSUME NEW s \in Seq(LegRecords), NEW i \in 1..Len(s), NEW leg \in LegRecords
    PROVE  Total(Weights([s EXCEPT ![i] = leg]))
              = Total(Weights(s)) - Weight(s[i]) + Weight(leg)
<1>1. Weight(leg) \in Int
    BY DEF Weight, LegRecords
<1>2. Weights([s EXCEPT ![i] = leg]) = [Weights(s) EXCEPT ![i] = Weight(leg)]
    BY DEF Weights
<1>3. Weights(s)[i] = Weight(s[i])
    BY DEF Weights
<1>4. Weights(s) \in Seq(Int) /\ i \in 1..Len(Weights(s))
    BY WeightsTyped
<1> QED
    BY <1>1, <1>2, <1>3, <1>4, TotalExcept

LEMMA ClaimTyped ==
    ASSUME BaseInv, NEW l \in Lanes
    PROVE  Claim(l) \in Nat /\ Total(Weights(legs[l])) \in Nat /\ Live(l) \in Nat
<1>1. legs[l] \in Seq(LegRecords) /\ lane[l].fills \in Nat
    BY DEF BaseInv, Typed, BooksTyped, LaneTyped, LaneRecords
<1>2. Total(Weights(legs[l])) \in Nat /\ Live(l) \in Nat
    BY <1>1, WeightsTyped DEF Live
<1> QED
    BY <1>2 DEF Claim

\* A step of lane l that claims no more than the exchange traded in it.
LEMMA LaneVolume ==
    ASSUME IInv, BaseInv', NEW l \in Lanes, UNCHANGED <<pc, total>>,
           \A m \in Lanes : m # l => lane'[m] = lane[m] /\ legs'[m] = legs[m],
           \A i \in DOMAIN legs'[l] : FillsCounted(legs'[l][i]),
           traded <= traded', Claim(l)' + traded <= Claim(l) + traded'
    PROVE  VolumeInv'
<1>1. VolumeInv /\ BaseInv
    BY DEF IInv
<1>2. \A m \in Lanes : Claim(m) \in Nat
    BY <1>1, ClaimTyped
<1>3. \A m \in Lanes : Claim(m)' \in Nat
  <2>1. ASSUME NEW m \in Lanes PROVE Claim(m)' \in Nat
    <3>1. legs'[m] \in Seq(LegRecords) /\ lane'[m].fills \in Nat
        BY DEF BaseInv, Typed, BooksTyped, LaneTyped, LaneRecords
    <3>2. Total(Weights(legs'[m])) \in Nat
        BY <3>1, WeightsTyped
    <3> QED
        BY <3>1, <3>2 DEF Claim, Live
  <2> QED
      BY <2>1
<1>4. \A m \in Lanes : m # l => Claim(m)' = Claim(m)
    BY DEF Claim, Live
<1>5. total \in Nat /\ traded \in Nat /\ traded' \in Nat
    BY <1>1 DEF BaseInv, Typed, ControlTyped, ExchangeTyped
<1>6. total' <= traded'
    BY <1>1, <1>5 DEF VolumeInv
<1>7. pc' \in Uncounted => total' + Claim("BTC")' + Claim("ETH")' <= traded'
  <2>1. SUFFICES ASSUME pc \in Uncounted
                 PROVE  total + Claim("BTC")' + Claim("ETH")' <= traded'
      OBVIOUS
  <2>2. total + Claim("BTC") + Claim("ETH") <= traded
      BY <1>1, <2>1 DEF VolumeInv
  <2>3. /\ Claim("BTC") \in Nat /\ Claim("ETH") \in Nat
        /\ Claim("BTC")' \in Nat /\ Claim("ETH")' \in Nat
      BY <1>2, <1>3, LanesAreTwo
  <2>4. CASE l = "BTC"
    <3>1. Claim("ETH")' = Claim("ETH") /\ Claim("BTC")' + traded <= Claim("BTC") + traded'
        BY <1>4, <2>4, LanesAreTwo
    <3> QED
        BY <1>5, <2>2, <2>3, <3>1
  <2>5. CASE l = "ETH"
    <3>1. Claim("BTC")' = Claim("BTC") /\ Claim("ETH")' + traded <= Claim("ETH") + traded'
        BY <1>4, <2>5, LanesAreTwo
    <3> QED
        BY <1>5, <2>2, <2>3, <3>1
  <2> QED
      BY <2>4, <2>5, LanesAreTwo
<1>8. \A m \in Lanes : \A i \in DOMAIN legs'[m] : FillsCounted(legs'[m][i])
    BY <1>1 DEF VolumeInv
<1> QED
    BY <1>6, <1>7, <1>8 DEF VolumeInv

\* ... which adds no leg,
LEMMA SameLegs ==
    ASSUME IInv, NEW l \in Lanes, Moves(l), legs' = legs,
           traded <= traded', Live(l)' + traded <= Live(l) + traded'
    PROVE  VolumeInv'
<1>1. BaseInv /\ BaseInv'
    BY MovesKeep DEF IInv
<1>2. \A m \in Lanes : m # l => lane'[m] = lane[m]
    BY <1>1 DEF Moves, BaseInv, Typed, LaneTyped
<1>3. \A i \in DOMAIN legs'[l] : FillsCounted(legs'[l][i])
    BY DEF IInv, VolumeInv
<1>4. Claim(l)' + traded <= Claim(l) + traded'
  <2>1. /\ Total(Weights(legs[l])) \in Nat /\ Live(l) \in Nat
        /\ traded \in Nat /\ traded' \in Nat
      BY <1>1, ClaimTyped DEF BaseInv, Typed, ExchangeTyped
  <2>2. Live(l)' \in Nat
      BY <1>1 DEF Live, BaseInv, Typed, LaneTyped, LaneRecords
  <2> QED
      BY <2>1, <2>2 DEF Claim
<1>5. UNCHANGED <<pc, total>>
    BY DEF Moves, coordinator, session
<1> QED
    BY <1>1, <1>2, <1>3, <1>4, <1>5, LaneVolume

\* ... or adds one.
LEMMA OneMoreLeg ==
    ASSUME IInv, NEW l \in Lanes, Moves(l), NEW leg \in LegRecords, AddLeg(l, leg),
           FillsCounted(leg), traded <= traded',
           Weight(leg) + Live(l)' + traded <= Live(l) + traded'
    PROVE  VolumeInv'
<1>1. BaseInv /\ BaseInv'
    BY MovesKeep DEF IInv
<1>2. legs[l] \in Seq(LegRecords) /\ legs' = [legs EXCEPT ![l] = Append(legs[l], leg)]
      /\ legs \in [Lanes -> Seq(LegRecords)]
    BY <1>1 DEF AddLeg, BaseInv, Typed, BooksTyped
<1>3. \A m \in Lanes : m # l => lane'[m] = lane[m] /\ legs'[m] = legs[m]
    BY <1>1, <1>2 DEF Moves, BaseInv, Typed, LaneTyped
<1>4. legs'[l] = Append(legs[l], leg)
    BY <1>2
<1>5. \A i \in DOMAIN legs'[l] : FillsCounted(legs'[l][i])
  <2>1. ASSUME NEW i \in DOMAIN legs'[l] PROVE FillsCounted(legs'[l][i])
    <3>1. \/ i \in DOMAIN legs[l] /\ legs'[l][i] = legs[l][i]
          \/ legs'[l][i] = leg
        BY <1>2, <1>4
    <3> QED
        BY <3>1 DEF IInv, VolumeInv
  <2> QED
      BY <2>1
<1>6. Claim(l)' + traded <= Claim(l) + traded'
  <2>1. /\ Total(Weights(legs[l])) \in Nat /\ Live(l) \in Nat
        /\ traded \in Nat /\ traded' \in Nat
      BY <1>1, ClaimTyped DEF BaseInv, Typed, ExchangeTyped
  <2>2. Live(l)' \in Nat
      BY <1>1 DEF Live, BaseInv, Typed, LaneTyped, LaneRecords
  <2>3. Total(Weights(legs'[l])) = Total(Weights(legs[l])) + Weight(leg)
      BY <1>2, <1>4, WeightsAppend
  <2>4. Weight(leg) \in Nat
      BY DEF Weight, LegRecords
  <2> QED
      BY <2>1, <2>2, <2>3, <2>4 DEF Claim
<1>7. UNCHANGED <<pc, total>>
    BY DEF Moves, coordinator, session
<1> QED
    BY <1>1, <1>3, <1>5, <1>6, <1>7, LaneVolume

LEMMA InitVolume == Init => VolumeInv
<1> SUFFICES ASSUME Init PROVE VolumeInv
    OBVIOUS
<1>1. \A l \in Lanes : legs[l] = <<>> /\ lane[l] = Idle
    BY DEF Init
<1>2. Total(Weights(<<>>)) = 0
  <2>1. Weights(<<>>) = <<>>
      BY DEF Weights
  <2> QED
      BY <2>1, TotalEmpty
<1>3. \A l \in Lanes : Claim(l) = 0
    BY <1>1, <1>2, IdleTyped DEF Claim, Live
<1> QED
    BY <1>1, <1>3, LanesAreTwo DEF Init, VolumeInv

\* A thread between two legs claims nothing besides its legs.
LEMMA LiveTyped ==
    ASSUME BaseInv, NEW l \in Lanes
    PROVE  /\ Live(l) \in Nat /\ lane[l].fills \in Nat /\ Live(l) <= lane[l].fills
           /\ traded \in Nat
           /\ lane[l].task # "orders" => Live(l) = lane[l].fills
           /\ lane[l].task \notin Legging => lane[l].fills = 0
<1>1. lane[l].fills \in Nat /\ LaneOK(l) /\ traded \in Nat
    BY DEF BaseInv, Typed, LaneTyped, LaneRecords, LaneInv, ExchangeTyped
<1> QED
    BY <1>1 DEF Live, LaneOK

\* A step after which the thread knows of no fills.
LEMMA SettledLegs ==
    ASSUME IInv, NEW l \in Lanes, Moves(l), legs' = legs, traded' = traded,
           lane'[l].task \notin Legging
    PROVE  VolumeInv'
<1>1. BaseInv /\ Live(l) \in Nat /\ traded \in Nat
    BY LiveTyped DEF IInv
<1>2. Live(l)' = 0
    BY DEF Moves, LaneOK, Live
<1> QED
    BY <1>1, <1>2, SameLegs

\* A leg that ends in an exception claims nothing.
LEMMA ExceptionLeg ==
    ASSUME IInv, NEW l \in Lanes, Moves(l), AddLeg(l, ExceptionSummary(l)), traded' = traded,
           lane'[l].task \notin Legging
    PROVE  VolumeInv'
<1>1. BaseInv /\ Live(l) \in Nat /\ traded \in Nat
    BY LiveTyped DEF IInv
<1>2. Live(l)' = 0
    BY DEF Moves, LaneOK, Live
<1>3. ExceptionSummary(l) \in LegRecords
    BY <1>1, ExceptionTyped
<1>4. FillsCounted(ExceptionSummary(l)) /\ Weight(ExceptionSummary(l)) = 0
    BY DEF ExceptionSummary, FillsCounted, Weight
<1> QED
    BY <1>1, <1>2, <1>3, <1>4, OneMoreLeg

\* A step within a leg that leaves its fills alone.
LEMMA SameFills ==
    ASSUME IInv, NEW l \in Lanes, Moves(l), legs' = legs, traded' = traded,
           lane[l].task # "orders", lane'[l].fills = lane[l].fills
    PROVE  VolumeInv'
<1>1. BaseInv /\ Live(l) \in Nat /\ traded \in Nat /\ Live(l) = lane[l].fills
    BY LiveTyped DEF IInv
<1>2. Live(l)' <= Live(l) /\ Live(l)' \in Nat
    BY <1>1 DEF Live
<1> QED
    BY <1>1, <1>2, SameLegs

LEMMA LegDoneTask ==
    ASSUME BaseInv, NEW l \in Lanes, NEW stop, LegDone(l, stop)
    PROVE  lane'[l].task \notin Legging
BY DEF LegDone, Thread, Legging, BaseInv, Typed, LaneTyped

LEMMA ReturnTask ==
    ASSUME BaseInv, NEW l \in Lanes, NEW flat, NEW stop, Return(l, flat, stop)
    PROVE  lane'[l].task \notin Legging
BY DEF Return, Thread, Legging, BaseInv, Typed, LaneTyped

LEMMA BeginLegVolume ==
    ASSUME IInv, NEW l \in Lanes, BeginLeg(l)
    PROVE  VolumeInv'
<1>1. BaseInv /\ Moves(l) /\ traded' = traded
    BY BeginLegMoves DEF IInv, BeginLeg, exchange
<1>2. CASE LegDone(l, "observation") /\ AddLeg(l, ExceptionSummary(l))
    BY <1>1, <1>2, LegDoneTask, ExceptionLeg
<1>3. CASE lane' = [lane EXCEPT ![l].task = "trade", ![l].begin = held[l]] /\ legs' = legs
  <2>1. lane'[l].fills = lane[l].fills /\ lane[l].task # "orders"
      BY <1>1, <1>3 DEF BeginLeg, Task, BaseInv, Typed, LaneTyped, LaneRecords
  <2> QED
      BY <1>1, <1>3, <2>1, SameFills
<1> QED
    BY <1>2, <1>3 DEF BeginLeg

LEMMA WithinLegVolume ==
    ASSUME IInv, NEW l \in Lanes, Quote(l) \/ Withdraw(l) \/ LegReturns(l) \/ ReadEnd(l)
    PROVE  VolumeInv'
<1>1. BaseInv /\ Moves(l)
    BY QuoteMoves, LegReturnsMoves, ReadEndMoves DEF IInv
<1>2. legs' = legs /\ traded' = traded /\ lane[l].task # "orders"
    BY DEF Quote, Withdraw, LegReturns, ReadEnd, books, exchange, Task
<1>3. lane'[l].fills = lane[l].fills
    BY <1>1 DEF Quote, Withdraw, LegReturns, ReadEnd, BaseInv, Typed, LaneTyped, LaneRecords
<1> QED
    BY <1>1, <1>2, <1>3, SameFills

LEMMA LegRaisesVolume ==
    ASSUME IInv, NEW l \in Lanes, LegRaises(l) \/ DeadlineCleanup(l)
    PROVE  VolumeInv'
<1>1. BaseInv /\ Moves(l) /\ traded' = traded
    BY LegRaisesMoves, CleanupMoves DEF IInv, LegRaises, DeadlineCleanup
<1>2. ASSUME NEW stop, LegDone(l, stop), AddLeg(l, ExceptionSummary(l))
      PROVE  VolumeInv'
    BY <1>1, <1>2, LegDoneTask, ExceptionLeg
<1>3. CASE lane' = [lane EXCEPT ![l].task = "cleanup"] /\ legs' = legs /\ LegRaises(l)
  <2>1. lane'[l].fills = lane[l].fills /\ lane[l].task # "orders"
      BY <1>1, <1>3 DEF LegRaises, Task, BaseInv, Typed, LaneTyped, LaneRecords
  <2> QED
      BY <1>1, <1>3, <2>1, SameFills
<1> QED
    BY <1>2, <1>3 DEF LegRaises, DeadlineCleanup

\* What a leg counts, or may come to count, is what its orders filled.
LEMMA ReconcileVolume ==
    ASSUME IInv, NEW l \in Lanes, Reconcile(l)
    PROVE  VolumeInv'
<1>1. BaseInv /\ Moves(l) /\ traded' = traded
    BY ReconcileMoves DEF IInv, Reconcile, exchange
<1>2. lane[l].fills \in Nat /\ traded \in Nat /\ Live(l) = lane[l].fills /\ lane[l].job \in Jobs
    BY <1>1, LiveTyped DEF Reconcile, Task, BaseInv, Typed, LaneTyped, LaneRecords
<1>3. PICK counted \in 0..lane[l].fills, kept \in {"none", "verified", "pending", "hard", "open"},
           match \in BOOLEAN, stop \in Stops \ {"raised"} :
             /\ AddLeg(l, [action |-> lane[l].job, counted |-> counted, books |-> kept,
                           fills |-> IF kept = "pending" THEN lane[l].fills ELSE 0,
                           match |-> match])
             /\ lane' = [lane EXCEPT ![l].task = "orders", ![l].stop = stop]
             /\ faults' \in 0..MaxFaults
    BY <1>1, ReconcileWrites
<1> DEFINE leg == [action |-> lane[l].job, counted |-> counted, books |-> kept,
                   fills |-> IF kept = "pending" THEN lane[l].fills ELSE 0, match |-> match]
<1>4. leg \in LegRecords
    BY <1>2 DEF LegRecords
<1>5. FillsCounted(leg) /\ Weight(leg) \in Nat /\ Weight(leg) <= lane[l].fills
    BY <1>2 DEF FillsCounted, Weight
<1>6. AddLeg(l, leg)
    BY <1>3
<1>7. Live(l)' = 0
  <2>1. lane'[l].task = "orders"
      BY <1>1, <1>3 DEF BaseInv, Typed, LaneTyped, LaneRecords
  <2> QED
      BY <2>1 DEF Live
<1> HIDE DEF leg
<1> QED
    BY <1>1, <1>2, <1>4, <1>5, <1>6, <1>7, OneMoreLeg

LEMMA BetweenVolume ==
    ASSUME IInv, NEW l \in Lanes,
           OrdersAfterLeg(l) \/ FlattenHead(l) \/ FlattenAfterLeg(l) \/ DustIntent(l)
    PROVE  VolumeInv'
<1>1. BaseInv /\ Moves(l)
    BY OrdersMoves, FlattenHeadMoves, FlattenAfterMoves, DustIntentMoves DEF IInv
<1>2. legs' = legs /\ traded' = traded
    BY DEF OrdersAfterLeg, FlattenHead, FlattenAfterLeg, DustIntent, books, exchange
<1>3. lane'[l].task \notin Legging
  <2>1. ASSUME NEW t \in {"start", "dust", "dust_send"}, lane' = [lane EXCEPT ![l].task = t]
        PROVE  lane'[l].task \notin Legging
      BY <1>1, <2>1 DEF Legging, BaseInv, Typed, LaneTyped, LaneRecords
  <2>2. ASSUME NextAttempt(l)
        PROVE  lane'[l].task \notin Legging
      BY <1>1, <2>2 DEF NextAttempt, Legging, BaseInv, Typed, LaneTyped, LaneRecords
  <2>3. CASE OrdersAfterLeg(l)
      BY <1>1, <2>3, LegDoneTask DEF OrdersAfterLeg
  <2>4. CASE FlattenHead(l)
      BY <1>1, <2>1, <2>4, ReturnTask DEF FlattenHead
  <2>5. CASE FlattenAfterLeg(l)
      BY <1>1, <2>1, <2>2, <2>5, ReturnTask DEF FlattenAfterLeg
  <2>6. CASE DustIntent(l)
      BY <1>1, <2>1, <2>6, ReturnTask DEF DustIntent
  <2> QED
      BY <2>3, <2>4, <2>5, <2>6
<1> QED
    BY <1>1, <1>2, <1>3, SettledLegs

\* A market close counts no more than it closed.
LEMMA DustSendVolume ==
    ASSUME IInv, NEW l \in Lanes, DustSend(l)
    PROVE  VolumeInv'
<1>1. BaseInv /\ Moves(l) /\ held[l] \in 0..Lots
    BY DustSendMoves DEF IInv, BaseInv, Typed, ExchangeTyped
<1>2. Live(l) \in Nat /\ traded \in Nat
    BY <1>1, LiveTyped
<1> DEFINE Leg(counted, kept) == [action |-> "flatten", counted |-> counted, books |-> kept,
                                  fills |-> 0, match |-> FALSE]
<1>3. PICK lots \in {0, held[l]} : \E counted \in {0, lots}, kept \in {"verified", "hard"},
              flat \in BOOLEAN, stop \in {"none", "audit", "submission"} :
             /\ held' = [held EXCEPT ![l] = @ - lots] /\ traded' = traded + lots
             /\ AddLeg(l, Leg(counted, kept))
             /\ Return(l, flat, stop) /\ faults' \in 0..MaxFaults
    BY <1>1, DustSendWrites
<1>4. PICK counted \in {0, lots}, kept \in {"verified", "hard"},
           flat \in BOOLEAN, stop \in {"none", "audit", "submission"} :
             /\ traded' = traded + lots /\ AddLeg(l, Leg(counted, kept))
             /\ Return(l, flat, stop)
    BY <1>3
<1>5. lots \in Nat /\ counted \in Nat /\ counted <= lots
    BY <1>1, CycleAssumption
<1>6. Leg(counted, kept) \in LegRecords /\ FillsCounted(Leg(counted, kept))
      /\ Weight(Leg(counted, kept)) = counted
    BY <1>5 DEF LegRecords, Jobs, FillsCounted, Weight
<1>7. Live(l)' = 0
    BY <1>1, <1>4, ReturnTask DEF Moves, LaneOK, Live
<1> HIDE DEF Leg
<1> QED
    BY <1>1, <1>2, <1>4, <1>5, <1>6, <1>7, OneMoreLeg

LEMMA LaneStepVolume ==
    ASSUME IInv, NEW l \in Lanes, LaneStep(l)
    PROVE  VolumeInv'
BY BeginLegVolume, WithinLegVolume, LegRaisesVolume, ReconcileVolume, BetweenVolume,
   DustSendVolume DEF LaneStep

LEMMA FillsVolume ==
    ASSUME IInv, NEW l \in Lanes, FillOwn(l) \/ FillStray(l)
    PROVE  VolumeInv'
<1>1. BaseInv /\ traded' = traded + 1 /\ traded \in Nat /\ Live(l) \in Nat
    BY LiveTyped DEF IInv, FillOwn, FillStray, Filled
<1>2. CASE FillOwn(l)
  <2>1. Moves(l) /\ lane'[l].fills = lane[l].fills + 1 /\ lane'[l].task = lane[l].task
      BY <1>1, <1>2, FillOwnMoves
  <2>2. Live(l)' <= Live(l) + 1 /\ Live(l)' \in Nat
      BY <1>1, <2>1, LiveTyped DEF Live
  <2>3. legs' = legs
      BY <1>2 DEF FillOwn, books
  <2> QED
      BY <1>1, <2>1, <2>2, <2>3, SameLegs
<1>3. CASE FillStray(l)
  <2>1. UNCHANGED <<pc, lane, legs, total>>
      BY <1>3 DEF FillStray, books, session
  <2>2. \A m \in Lanes : Claim(m)' = Claim(m)
      BY <2>1 DEF Claim, Live
  <2>3. total \in Nat /\ Claim("BTC") \in Nat /\ Claim("ETH") \in Nat
      BY <1>1, ClaimTyped, LanesAreTwo DEF BaseInv, Typed, ControlTyped
  <2> QED
      BY <1>1, <2>1, <2>2, <2>3, LanesAreTwo DEF IInv, VolumeInv
<1> QED
    BY <1>2, <1>3

(***************************************************************************)
(* The volume while the coordinator works.                                 *)
(***************************************************************************)
\* A step that leaves the books alone, and launches or collects threads.
LEMMA SameVolume ==
    ASSUME IInv, UNCHANGED <<traded, total, legs>>,
           \A l \in Lanes : lane'[l] = lane[l] \/ lane'[l].fills = 0,
           pc' \in Uncounted => pc \in Uncounted
    PROVE  VolumeInv'
<1>1. BaseInv /\ VolumeInv
    BY DEF IInv
<1>2. ASSUME NEW l \in Lanes
      PROVE  Claim(l)' <= Claim(l) /\ Claim(l) \in Nat /\ Claim(l)' \in Nat
  <2>1. Total(Weights(legs[l])) \in Nat /\ Live(l) \in Nat
      BY <1>1, ClaimTyped
  <2>2. Live(l)' \in Nat /\ Live(l)' <= Live(l)
      BY <2>1 DEF Live
  <2> QED
      BY <2>1, <2>2 DEF Claim
<1>3. total \in Nat /\ traded \in Nat
    BY <1>1 DEF BaseInv, Typed, ControlTyped, ExchangeTyped
<1> QED
    BY <1>1, <1>2, <1>3, LanesAreTwo DEF VolumeInv

LEMMA QuietVolume ==
    ASSUME IInv, \/ Begin \/ RoundHead \/ Hold \/ Gate \/ AfterClose \/ RefreshDone
                 \/ FinalAcceptance \/ SafeCancel \/ Prove \/ Shutdown
    PROVE  VolumeInv'
<1>1. UNCHANGED <<traded, total, legs, lane>>
    BY DEF Begin, RoundHead, Hold, Gate, AfterClose, RefreshDone, FinalAcceptance, SafeCancel,
           Prove, Shutdown, threads, books
<1>2. pc' \in Uncounted => pc \in Uncounted
    BY DEF Begin, RoundHead, Hold, Gate, AfterClose, RefreshDone, FinalAcceptance, SafeCancel,
           Prove, Shutdown, Goto, Finish, Uncounted
<1> QED
    BY <1>1, <1>2, SameVolume

LEMMA ThreadsVolume ==
    ASSUME IInv, Prepare \/ Opened \/ CloseBarrier \/ Sweep \/ Closed \/ Swept
    PROVE  VolumeInv'
<1>1. LaneTyped /\ turn \in Lanes
    BY DEF IInv, BaseInv, Typed, ControlTyped
<1>2. UNCHANGED <<traded, total, legs>>
    BY DEF Prepare, Opened, CloseBarrier, Sweep, Closed, Swept, exchange, books, session
<1>3. \A l \in Lanes : lane'[l] = lane[l] \/ lane'[l].fills = 0
  <2>1. ASSUME NEW ls, NEW job, NEW task, NEW owned, Launch(ls, job, task, owned)
        PROVE  \A l \in Lanes : lane'[l] = lane[l] \/ lane'[l].fills = 0
      BY <2>1 DEF Launch, Thread
  <2>2. CASE Prepare
      BY <2>1, <2>2 DEF Prepare
  <2>3. CASE Opened
      BY <2>3, IdleTyped DEF Opened
  <2>4. CASE CloseBarrier \/ Sweep
      BY <2>1, <2>4 DEF CloseBarrier, Sweep
  <2>5. CASE Closed \/ Swept
      BY <1>1, <2>5, IdleTyped DEF Closed, Swept, Collect, LaneTyped
  <2> QED
      BY <2>2, <2>3, <2>4, <2>5
<1>4. pc' \in Uncounted => pc \in Uncounted
    BY DEF Prepare, Opened, CloseBarrier, Sweep, Closed, Swept, Goto, Finish, Raise, Advance,
           Uncounted
<1> QED
    BY <1>2, <1>3, <1>4, SameVolume

\* An answer replaces what its leg counted, and stays within what the leg claimed.
LEMMA RefreshVolume ==
    ASSUME IInv, NEW l \in Lanes, NEW i \in DOMAIN legs[l], RefreshLeg(l, i)
    PROVE  VolumeInv'
<1>1. BaseInv /\ BaseInv' /\ VolumeInv
    BY RefreshKeeps DEF IInv
<1>2. legs[l] \in Seq(LegRecords) /\ i \in 1..Len(legs[l]) /\ legs[l][i] \in LegRecords
      /\ legs \in [Lanes -> Seq(LegRecords)] /\ FillsCounted(legs[l][i])
    BY <1>1 DEF BaseInv, Typed, BooksTyped, VolumeInv
<1>3. PICK leg \in Answers(legs[l][i]) : legs' = [legs EXCEPT ![l][i] = leg]
    BY DEF RefreshLeg, Refreshed
<1>4. /\ leg \in LegRecords /\ leg.books # "pending"
      /\ leg.counted = legs[l][i].counted \/ leg.counted \in 0..legs[l][i].fills
    BY <1>2, <1>3, AnswersTyped
<1>5. legs[l][i].books = "pending" /\ UNCHANGED <<lane, traded, pc, total>>
    BY DEF RefreshLeg, threads, coordinator, session
<1>6. FillsCounted(leg) /\ Weight(leg) \in Nat /\ Weight(leg) <= Weight(legs[l][i])
      /\ Weight(legs[l][i]) \in Nat
    BY <1>2, <1>4, <1>5 DEF FillsCounted, Weight, LegRecords
<1> DEFINE s == [legs[l] EXCEPT ![i] = leg]
<1>7. legs'[l] = s /\ \A m \in Lanes : m # l => legs'[m] = legs[m] /\ lane'[m] = lane[m]
    BY <1>2, <1>3, <1>5
<1>8. \A j \in DOMAIN legs'[l] : FillsCounted(legs'[l][j])
  <2>1. \A j \in DOMAIN s : j \in DOMAIN legs[l] /\ (s[j] = leg \/ s[j] = legs[l][j])
      BY <1>2
  <2> HIDE DEF s
  <2> QED
      BY <1>1, <1>6, <1>7, <2>1 DEF VolumeInv
<1>9. Claim(l)' + traded <= Claim(l) + traded'
  <2>1. Total(Weights(s)) = Total(Weights(legs[l])) - Weight(legs[l][i]) + Weight(leg)
      BY <1>2, <1>4, WeightsExcept
  <2> HIDE DEF s
  <2>2. Total(Weights(legs[l])) \in Nat /\ Live(l) \in Nat /\ traded \in Nat
      BY <1>1, ClaimTyped, LiveTyped
  <2>3. Live(l)' = Live(l)
      BY <1>5 DEF Live
  <2> QED
      BY <1>5, <1>6, <1>7, <2>1, <2>2, <2>3 DEF Claim
<1>10. traded <= traded'
    BY <1>1, <1>5, LiveTyped
<1> HIDE DEF s
<1> QED
    BY <1>1, <1>5, <1>7, <1>8, <1>9, <1>10, LaneVolume

\* What the legs of a lane count is within what they weigh.
LEMMA CountsWithinWeights ==
    ASSUME NEW s \in Seq(LegRecords), \A i \in DOMAIN s : FillsCounted(s[i])
    PROVE  Total([i \in DOMAIN s |-> s[i].counted]) <= Total(Weights(s))
<1> DEFINE counts == [i \in DOMAIN s |-> s[i].counted]
           weights == [i \in DOMAIN s |-> Weight(s[i])]
<1>1. \A leg \in LegRecords :
         FillsCounted(leg) => /\ leg.counted \in Nat /\ Weight(leg) \in Nat
                         /\ leg.counted <= Weight(leg)
    BY DEF LegRecords, FillsCounted, Weight
<1>2. \A i \in 1..Len(s) : /\ s[i].counted \in Nat /\ Weight(s[i]) \in Nat
                           /\ s[i].counted <= Weight(s[i])
    BY <1>1
<1>3. counts \in Seq(Int) /\ Len(counts) = Len(s)
    BY <1>2
<1>4. weights \in Seq(Int) /\ Len(weights) = Len(s)
    BY <1>2
<1>5. \A i \in 1..Len(s) : counts[i] <= weights[i]
    BY <1>2
<1>6. Weights(s) = weights
    BY DEF Weights
<1> HIDE DEF counts, weights
<1>7. Total(counts) <= Total(weights)
    BY <1>3, <1>4, <1>5, TotalMonotone
<1> QED
    BY <1>6, <1>7 DEF counts

\* The volume of a lane is within what its legs claim.
LEMMA VolumeWithinClaim ==
    ASSUME IInv, NEW l \in Lanes
    PROVE  Volume(l) \in Nat /\ Claim(l) \in Nat /\ Volume(l) <= Claim(l)
<1>1. BaseInv /\ legs[l] \in Seq(LegRecords) /\ \A i \in DOMAIN legs[l] : FillsCounted(legs[l][i])
    BY DEF IInv, BaseInv, Typed, BooksTyped, VolumeInv
<1>2. Volume(l) \in Nat
    BY <1>1, VolumeTyped DEF BaseInv, Typed
<1>3. Volume(l) <= Total(Weights(legs[l]))
    BY <1>1, CountsWithinWeights DEF Volume
<1>4. Claim(l) \in Nat /\ Total(Weights(legs[l])) \in Nat /\ Live(l) \in Nat
    BY <1>1, ClaimTyped
<1> QED
    BY <1>2, <1>3, <1>4 DEF Claim

LEMMA CheckpointVolume ==
    ASSUME IInv, Checkpoint
    PROVE  VolumeInv'
<1>1. VolumeInv /\ total \in Nat /\ traded \in Nat
    BY DEF IInv, BaseInv, Typed, ControlTyped, ExchangeTyped
<1>2. /\ pc = "checkpoint" /\ total' = total + CycleVolume
      /\ UNCHANGED <<traded, legs>> /\ pc' \in {"shutdown", "gap"}
    BY DEF Checkpoint, threads, books, Finish, Goto
<1>3. total + Claim("BTC") + Claim("ETH") <= traded
    BY <1>1, <1>2 DEF VolumeInv, Uncounted
<1>4. total' <= traded'
    BY <1>1, <1>2, <1>3, VolumeWithinClaim, LanesAreTwo DEF CycleVolume
<1> QED
    BY <1>1, <1>2, <1>4 DEF VolumeInv, Uncounted

LEMMA GapVolume ==
    ASSUME IInv, Gap
    PROVE  VolumeInv'
<1>1. VolumeInv /\ BaseInv /\ pc = "gap" /\ pc \in AtRest
      /\ total \in Nat /\ traded \in Nat
    BY DEF IInv, Gap, AtRest, BaseInv, Typed, ControlTyped, ExchangeTyped
<1>2. UNCHANGED <<traded, total, lane>>
    BY DEF Gap, threads
<1>3. CASE pc' = "cancel" /\ legs' = legs
    BY <1>1, <1>2, <1>3 DEF VolumeInv, Uncounted
<1>4. CASE legs' = [l \in Lanes |-> <<>>]
  <2>1. Total(Weights(<<>>)) = 0
    <3>1. Weights(<<>>) = <<>>
        BY DEF Weights
    <3> QED
        BY <3>1, TotalEmpty
  <2>2. \A l \in Lanes : legs'[l] = <<>> /\ lane'[l].fills = 0
      BY <1>1, <1>2, <1>4, AtRestFacts
  <2>3. \A l \in Lanes : Claim(l)' = 0
      BY <2>1, <2>2 DEF Claim, Live
  <2> QED
      BY <1>1, <1>2, <2>2, <2>3, LanesAreTwo DEF VolumeInv
<1> QED
    BY <1>3, <1>4 DEF Gap, Goto, books

LEMMA NextInv == IInv /\ [Next]_vars => IInv'
<1> SUFFICES ASSUME IInv, [Next]_vars PROVE IInv'
    OBVIOUS
<1>1. BaseInv'
    BY NextBase DEF IInv
<1>2. VolumeInv'
  <2>1. CASE Coordinator
      BY <2>1, QuietVolume, ThreadsVolume, RefreshVolume, CheckpointVolume, GapVolume
         DEF Coordinator
  <2>2. CASE \E l \in Lanes : LaneStep(l) \/ FillOwn(l) \/ FillStray(l)
      BY <2>2, LaneStepVolume, FillsVolume
  <2>3. CASE RequestStop
    <3>1. UNCHANGED <<traded, total, legs, lane, pc>>
        BY <2>3 DEF RequestStop, exchange, books, session
    <3> QED
        BY <3>1, SameVolume
  <2>4. CASE Done \/ UNCHANGED vars
    <3>1. UNCHANGED <<traded, total, legs, lane, pc>>
        BY <2>4 DEF Done, vars, exchange, books, session
    <3> QED
        BY <3>1, SameVolume
  <2> QED
      BY <2>1, <2>2, <2>3, <2>4 DEF Next
<1> QED
    BY <1>1, <1>2 DEF IInv

(***************************************************************************)
(* The theorems.                                                           *)
(***************************************************************************)
LEMMA Invariance == Spec => []IInv
<1>1. Init => IInv
    BY InitBase, InitVolume DEF IInv
<1> QED
    BY <1>1, NextInv, PTL DEF Spec

\* Every variable of a session keeps its type for every lot size, target,
\* limit and number of faults.
THEOREM SessionTyped == Spec => []TypeOK
<1>1. IInv => TypeOK
  <2> SUFFICES ASSUME IInv PROVE TypeOK
      OBVIOUS
  <2>1. Typed
      BY DEF IInv, BaseInv
  <2>2. ASSUME NEW l \in Lanes
        PROVE  /\ lane[l].task \in Tasks /\ lane[l].job \in Jobs
               /\ lane[l].attempt \in 0..RecoveryAttempts + 1
               /\ lane[l].stop \in Stops
               /\ \A i \in DOMAIN legs[l] : legs[l][i] \in LegRecords
    <3>1. lane[l] \in LaneRecords /\ legs[l] \in Seq(LegRecords)
        BY <2>1 DEF Typed, LaneTyped, BooksTyped
    <3> QED
        BY <3>1 DEF LaneRecords
  <2> QED
      BY <2>1, <2>2 DEF Typed, TypeOK, ExchangeTyped, ControlTyped, BooksTyped, HistoryTyped
<1> QED
    BY <1>1, Invariance, PTL

\* No lane closes while the other lane still opens: _run_pair waits for both
\* threads, whatever went wrong in either.
THEOREM BarrierHolds == Spec => []OpenBarrier
<1>1. IInv => OpenBarrier
    BY DEF IInv, BaseInv, PhaseInv, OpenBarrier
<1> QED
    BY <1>1, Invariance, PTL

\* A verdict other than "uncertain" is saved only when no lane's thread runs, and
\* a completed session has left neither a position nor an order.
THEOREM VerdictIsKnown == Spec => []KnownVerdict
<1>1. IInv => KnownVerdict
    BY DEF IInv, BaseInv, VerdictInv
<1> QED
    BY <1>1, Invariance, PTL

\* A lane is closed at market at most once in a cycle, although the closing phase
\* and the safe stop may both come to it.
THEOREM ClosesOnce == Spec => []OneMarketClose
<1>1. IInv => OneMarketClose
    BY DEF IInv, BaseInv, CloseInv, CloseOK, OneMarketClose
<1> QED
    BY <1>1, Invariance, PTL

\* The volume a session counts never exceeds what the exchange traded, however
\* often fill reports are asked for again and whatever they answer.
THEOREM VolumeHolds == Spec => []NeverInflated
<1>1. IInv => NeverInflated
    BY DEF IInv, VolumeInv, NeverInflated
<1> QED
    BY <1>1, Invariance, PTL

(***************************************************************************)
(* The scan of an account's trades                                         *)
(***************************************************************************)
\* Windows of one scan: each begins right after the one before, and none ends
\* after the last.
Chain(w) ==
    /\ \A i \in 1..Len(w) : w[i][1] <= w[i][2] /\ w[i][2] <= w[Len(w)][2]
    /\ \A i \in 1..Len(w) - 1 : w[i + 1][1] = w[i][2] + 1
End(w) == w[Len(w)][2]

\* A trade from before a scan's next window is in the ledger, or it appeared so
\* late that it is within Overlap of the scan's end.
ScanInv(w) ==
    w # <<>> =>
       /\ Chain(w) /\ End(w) <= now
       /\ \A x \in trades : x[1] < w[1][1] => x \in recorded \/ End(w) <= x[1] + Overlap

Baselines == {"not_requested", "queued", "running", "complete", "pending"}
Scans == [windows : Seq(Windows), covers : BOOLEAN, truncated : BOOLEAN]
Checks == [mark : {-1} \union Clock, coverage : BOOLEAN, scan : Scans, succeeded : BOOLEAN,
           baseline : Baselines]
Turns == [at : {"none", "locking", "reading"}, reason : Reasons \union {"none"}]

ScanTyped ==
    /\ now \in Clock /\ trades \subseteq Clock \X (1..Burst) /\ recorded \subseteq trades
    /\ active \in BOOLEAN /\ check \in Checks /\ scan \in Scans
    /\ request \in Reasons \union {"none"} /\ serving \in [Servers -> Turns]

\* A step that reads has a window to read, and reads alone.
Alone ==
    /\ \A s \in Servers : serving[s].at = "reading" => scan.windows # <<>>
    /\ \A s, o \in Servers : serving[s].at = "reading" /\ serving[o].at = "reading" => s = o
HistoryInv ==
    /\ ScanTyped /\ WatermarkIsContiguous /\ check.mark <= now
    /\ ScanInv(scan.windows) /\ ScanInv(check.scan.windows) /\ Alone

LEMMA HistoryBounds ==
    /\ MaxTime \in Nat /\ MaxWindow \in Nat /\ MaxWindow > 0 /\ Overlap \in Nat
    /\ \A t \in Clock : t \in Nat
BY HistoryAssumption DEF Clock

LEMMA TradeIs ==
    ASSUME ScanTyped, NEW x \in trades
    PROVE x[1] \in Nat /\ x[1] \in Clock
BY HistoryBounds DEF ScanTyped

LEMMA WindowIs ==
    ASSUME NEW w \in Seq(Windows), NEW i \in 1..Len(w)
    PROVE w[i] \in Windows /\ w[i][1] \in Nat /\ w[i][2] \in Nat /\ w[i][1] \in Clock /\ w[i][2] \in Clock
<1>1. w[i] \in Windows
    OBVIOUS
<1> QED
    BY <1>1, HistoryBounds DEF Windows

\* What is left once the first window was read.
LEMMA RestIsChain ==
    ASSUME NEW w \in Seq(Windows), w # <<>>, Chain(w)
    PROVE /\ Tail(w) \in Seq(Windows) /\ Chain(Tail(w))
          /\ Tail(w) # <<>> => Tail(w)[1][1] = w[1][2] + 1 /\ End(Tail(w)) = End(w)
<1>1. /\ Tail(w) \in Seq(Windows) /\ Len(Tail(w)) = Len(w) - 1 /\ Len(w) \in Nat /\ Len(w) >= 1
      /\ \A i \in 1..Len(Tail(w)) : Tail(w)[i] = w[i + 1]
    BY HeadTailProperties, EmptySeq, LenProperties
<1>2. CASE Len(w) = 1
    <2>1. Len(Tail(w)) = 0
        BY <1>1, <1>2
    <2>2. Tail(w) = <<>>
        BY <1>1, <2>1, EmptySeq
    <2> QED
        BY <1>1, <2>1, <2>2 DEF Chain
<1>3. CASE Len(w) > 1
    <2> DEFINE n == Len(w)
    <2>1. n - 1 \in 1..Len(Tail(w)) /\ 1 \in 1..Len(Tail(w)) /\ Len(Tail(w)) = n - 1
        BY <1>1, <1>3
    <2>2. Tail(w)[n - 1] = w[n] /\ Tail(w)[1] = w[2]
        BY <1>1, <2>1
    <2>3. w[2][1] = w[1][2] + 1
        <3>1. 1 \in 1..Len(w) - 1
            BY <1>1, <1>3
        <3>2. w[1 + 1][1] = w[1][2] + 1
            BY <3>1 DEF Chain
        <3> QED
            BY <3>2
    <2>4. ASSUME NEW i \in 1..Len(Tail(w))
          PROVE Tail(w)[i][1] <= Tail(w)[i][2] /\ Tail(w)[i][2] <= Tail(w)[Len(Tail(w))][2]
        <3>1. i + 1 \in 1..Len(w) /\ Tail(w)[i] = w[i + 1]
            BY <1>1
        <3> QED
            BY <2>1, <2>2, <3>1 DEF Chain
    <2>5. ASSUME NEW i \in 1..Len(Tail(w)) - 1 PROVE Tail(w)[i + 1][1] = Tail(w)[i][2] + 1
        <3>1. /\ i + 1 \in 1..Len(w) - 1 /\ i \in 1..Len(Tail(w)) /\ i + 1 \in 1..Len(Tail(w))
            BY <1>1
        <3>2. Tail(w)[i] = w[i + 1] /\ Tail(w)[i + 1] = w[(i + 1) + 1]
            BY <1>1, <3>1
        <3>3. w[(i + 1) + 1][1] = w[i + 1][2] + 1
            BY <3>1 DEF Chain
        <3> QED
            BY <3>2, <3>3
    <2> QED
        BY <1>1, <2>1, <2>2, <2>3, <2>4, <2>5 DEF Chain, End
<1> QED
    BY <1>1, <1>2, <1>3

\* The halves of a window take its place.
LEMMA HalvesAreChain ==
    ASSUME NEW w \in Seq(Windows), w # <<>>, Chain(w), NEW m \in Nat, w[1][1] <= m, m < w[1][2],
           NEW h, h = << <<w[1][1], m>>, <<m + 1, w[1][2]>> >>
    PROVE /\ h \o Tail(w) \in Seq(Windows) /\ h \o Tail(w) # <<>> /\ Chain(h \o Tail(w))
          /\ (h \o Tail(w))[1][1] = w[1][1] /\ End(h \o Tail(w)) = End(w)
<1>1. Len(w) \in Nat /\ Len(w) >= 1 /\ w[1][1] \in Clock /\ w[1][2] \in Clock /\ w[1][2] <= End(w)
    <2>1. Len(w) \in Nat /\ Len(w) >= 1
        BY EmptySeq, LenProperties
    <2>2. 1 \in 1..Len(w)
        BY <2>1
    <2> QED
        BY <2>1, <2>2, WindowIs DEF Chain, End
<1>2. m \in Clock /\ m + 1 \in Clock
    BY <1>1, HistoryBounds DEF Clock
<1>3. h \in Seq(Windows) /\ Len(h) = 2
    BY <1>1, <1>2 DEF Windows
<1> DEFINE r == Tail(w)
           s == h \o r
<1>4. /\ r \in Seq(Windows) /\ Chain(r) /\ Len(r) = Len(w) - 1
      /\ r # <<>> => r[1][1] = w[1][2] + 1 /\ End(r) = End(w)
    BY RestIsChain, HeadTailProperties
<1> HIDE DEF r
<1>5. Len(r) \in Nat /\ (r # <<>> <=> Len(r) >= 1)
    BY <1>4, EmptySeq, LenProperties
<1>6. /\ s \in Seq(Windows) /\ Len(s) = Len(r) + 2
      /\ \A i \in 1..Len(r) + 2 : s[i] = IF i <= 2 THEN h[i] ELSE r[i - 2]
    BY <1>3, <1>4, <1>5, ConcatProperties
<1> HIDE DEF s
<1>7. s[1] = <<w[1][1], m>> /\ s[2] = <<m + 1, w[1][2]>>
    BY <1>5, <1>6
<1>8. \A i \in 3..Len(s) : i - 2 \in 1..Len(r) /\ s[i] = r[i - 2]
    BY <1>5, <1>6
<1>9. s[Len(s)][2] = End(w)
    <2>1. CASE r = <<>>
        <3>1. Len(r) = 0 /\ Len(w) = 1 /\ Len(s) = 2
            BY <1>1, <1>4, <1>5, <1>6, <2>1
        <3> QED
            BY <1>7, <3>1 DEF End
    <2>2. CASE r # <<>>
        <3>1. Len(s) \in 3..Len(s) /\ Len(s) - 2 = Len(r)
            BY <1>5, <1>6, <2>2
        <3>2. s[Len(s)] = r[Len(r)]
            BY <1>8, <3>1
        <3> QED
            BY <1>4, <2>2, <3>2 DEF End
    <2> QED
        BY <2>1, <2>2
<1>10. ASSUME NEW i \in 1..Len(s) PROVE s[i][1] <= s[i][2] /\ s[i][2] <= s[Len(s)][2]
    <2>1. CASE i = 1
        BY <1>1, <1>7, <1>9, <2>1, WindowIs, HistoryBounds DEF End
    <2>2. CASE i = 2
        BY <1>1, <1>7, <1>9, <2>2, HistoryBounds
    <2>3. CASE i \in 3..Len(s)
        <3>1. i - 2 \in 1..Len(r) /\ s[i] = r[i - 2] /\ r # <<>>
            BY <1>5, <1>8, <2>3
        <3> QED
            BY <1>4, <1>9, <3>1 DEF Chain, End
    <2> QED
        BY <1>5, <1>6, <2>1, <2>2, <2>3
<1>11. ASSUME NEW i \in 1..Len(s) - 1 PROVE s[i + 1][1] = s[i][2] + 1
    <2>1. CASE i = 1
        BY <1>7, <2>1
    <2>2. CASE i = 2
        <3>1. 3 \in 3..Len(s) /\ r # <<>>
            BY <1>5, <1>6, <2>2
        <3>2. s[3] = r[1]
            BY <1>8, <3>1
        <3> QED
            BY <1>4, <1>7, <2>2, <3>1, <3>2
    <2>3. CASE i \in 3..Len(s)
        <3>1. i + 1 \in 3..Len(s) /\ i - 2 \in 1..Len(r) - 1 /\ (i + 1) - 2 = (i - 2) + 1
            BY <1>5, <1>6, <2>3
        <3>2. s[i] = r[i - 2] /\ s[i + 1] = r[(i - 2) + 1]
            BY <1>8, <2>3, <3>1
        <3>3. r[(i - 2) + 1][1] = r[i - 2][2] + 1
            BY <1>4, <3>1 DEF Chain
        <3> QED
            BY <3>2, <3>3
    <2> QED
        BY <1>5, <1>6, <2>1, <2>2, <2>3
<1> QED
    <2>1. Chain(s)
        BY <1>5, <1>6, <1>10, <1>11 DEF Chain
    <2>2. s # <<>> /\ s[1][1] = w[1][1] /\ End(s) = End(w)
        BY <1>5, <1>6, <1>7, <1>9, EmptySeq DEF End
    <2> QED
        BY <1>6, <2>1, <2>2 DEF r, s

LEMMA ProductGrows ==
    ASSUME NEW i \in Nat, NEW k \in Nat, i <= k, NEW w \in Nat
    PROVE i * w <= k * w /\ i * w \in Nat
OBVIOUS

LEMMA Quotient ==
    ASSUME NEW a \in Nat, NEW b \in Nat, b > 0
    PROVE a \div b \in Nat /\ (a \div b) * b <= a /\ a < (a \div b) * b + b
OBVIOUS

LEMMA NewScanIsChain ==
    ASSUME NEW start \in Clock, NEW end \in Clock, start <= end, NEW covers \in BOOLEAN
    PROVE LET s == NewScan(start, end, covers) IN
          /\ s \in Scans /\ s.windows # <<>> /\ Chain(s.windows)
          /\ s.windows[1][1] = start /\ End(s.windows) = end
<1> DEFINE W == MaxWindow
           q == (end - start) \div W
           last(i) == start + i * W - 1
           w == [i \in 1..q + 1 |-> <<start + (i - 1) * W, IF last(i) < end THEN last(i) ELSE end>>]
<1>1. NewScan(start, end, covers) = [windows |-> w, covers |-> covers, truncated |-> FALSE]
    BY DEF NewScan
<1>2. W \in Nat /\ W > 0 /\ start \in Nat /\ end \in Nat /\ end - start \in Nat
    BY HistoryBounds DEF Clock
<1>3. q \in Nat /\ q * W <= end - start /\ end - start < q * W + W
    BY <1>2, Quotient
<1> HIDE DEF q, W
<1>4. ASSUME NEW i \in 1..q + 1
      PROVE /\ start + (i - 1) * W \in Nat /\ start + (i - 1) * W <= end
            /\ (i - 1) * W + W = i * W /\ (i - 1) * W \in Nat /\ i * W \in Nat
            /\ i <= q => last(i) < end
            /\ i = q + 1 => ~(last(i) < end)
    <2>1. i - 1 \in Nat /\ i - 1 <= q /\ i \in Nat
        BY <1>3
    <2>2. (i - 1) * W <= q * W /\ (i - 1) * W \in Nat /\ i * W \in Nat
        BY <1>2, <1>3, <2>1, ProductGrows
    <2>3. (i - 1) * W + W = i * W
        BY <1>2, <2>1
    <2>4. q * W \in Nat
        BY <1>2, <1>3, ProductGrows
    <2>5. ASSUME i <= q PROVE last(i) < end
        <3>1. i * W <= q * W
            BY <1>2, <1>3, <2>1, <2>5, ProductGrows
        <3> QED
            BY <1>2, <1>3, <2>2, <2>4, <3>1
    <2>6. ASSUME i = q + 1 PROVE ~(last(i) < end)
        <3>1. i * W = q * W + W
            BY <2>3, <2>6, <1>3
        <3> QED
            BY <1>2, <1>3, <2>4, <3>1
    <2>7. start + (i - 1) * W <= end
        BY <1>2, <1>3, <2>2, <2>4
    <2> QED
        BY <1>2, <2>2, <2>3, <2>5, <2>6, <2>7
<1> DEFINE lo(i) == start + (i - 1) * W
           hi(i) == IF last(i) < end THEN last(i) ELSE end
<1>5. ASSUME NEW i \in 1..q + 1
      PROVE lo(i) \in Clock /\ hi(i) \in Clock /\ lo(i) <= hi(i) /\ hi(i) <= end
    BY <1>2, <1>4, HistoryBounds DEF Clock
<1>6. /\ hi(q + 1) = end /\ lo(1) = start
      /\ \A i \in 1..q : lo(i + 1) = hi(i) + 1
    <2>1. q + 1 \in 1..q + 1
        BY <1>3
    <2>2. hi(q + 1) = end
        BY <1>4, <2>1
    <2>3. lo(1) = start
        BY <1>2
    <2>4. ASSUME NEW i \in 1..q PROVE lo(i + 1) = hi(i) + 1
        <3>1. i \in 1..q + 1 /\ i <= q /\ i \in Nat
            BY <1>3
        <3>2. hi(i) = last(i) /\ i * W \in Nat
            BY <1>4, <3>1
        <3>3. (i + 1) - 1 = i
            BY <3>1
        <3>4. lo(i + 1) = start + i * W
            BY <3>3
        <3> QED
            BY <1>2, <3>2, <3>4
    <2> QED
        BY <2>2, <2>3, <2>4
<1>7. w = [i \in 1..q + 1 |-> <<lo(i), hi(i)>>]
    OBVIOUS
<1> HIDE DEF lo, hi
<1> HIDE DEF w
<1>8. /\ w \in Seq(Windows) /\ Len(w) = q + 1
      /\ \A i \in 1..q + 1 : w[i] = <<lo(i), hi(i)>> /\ w[i][1] = lo(i) /\ w[i][2] = hi(i)
    <2>1. \A i \in 1..q + 1 : <<lo(i), hi(i)>> \in Windows
        BY <1>5 DEF Windows
    <2>2. w \in [1..q + 1 -> Windows]
        BY <1>7, <2>1
    <2>3. w \in Seq(Windows) /\ Len(w) = q + 1
        BY <1>3, <2>2
    <2> QED
        BY <1>7, <2>3
<1>9. Chain(w)
    BY <1>3, <1>5, <1>6, <1>8 DEF Chain
<1>10. w # <<>> /\ w[1][1] = start /\ End(w) = end
    BY <1>3, <1>6, <1>8, EmptySeq DEF End
<1> QED
    BY <1>1, <1>8, <1>9, <1>10 DEF Scans

LEMMA MiddleIs ==
    ASSUME NEW a \in Nat, NEW b \in Nat, a < b
    PROVE (a + b) \div 2 \in Nat /\ a <= (a + b) \div 2 /\ (a + b) \div 2 < b
OBVIOUS

LEMMA ScanIs ==
    ASSUME NEW s \in Scans, NEW w \in Seq(Windows), NEW t \in BOOLEAN
    PROVE /\ [s EXCEPT !.windows = w, !.truncated = t] \in Scans
          /\ [s EXCEPT !.windows = w, !.truncated = t].windows = w
BY DEF Scans

\* One window more is read, or is split: the watermark and the scan that would
\* be saved are sound with the rows that were read.
LEMMA ScanAdvances ==
    ASSUME HistoryInv, scan.windows # <<>>
    PROVE /\ Scanned \in Scans /\ Mark \in {-1} \union Clock /\ Mark <= now /\ Fills \subseteq trades
          /\ \A x \in trades : x[1] + Overlap < Mark => x \in recorded \union Fills
          /\ Scanned.windows # <<>> =>
                /\ Chain(Scanned.windows) /\ End(Scanned.windows) <= now
                /\ \A x \in trades : x[1] < Scanned.windows[1][1] =>
                      x \in recorded \union Fills \/ End(Scanned.windows) <= x[1] + Overlap
<1> DEFINE w == scan.windows
           a == w[1][1]
           b == w[1][2]
<1>1. /\ w \in Seq(Windows) /\ Chain(w) /\ End(w) <= now /\ now \in Nat /\ check.mark \in {-1} \union Clock
      /\ check.mark <= now /\ scan \in Scans /\ scan.truncated \in BOOLEAN
      /\ \A x \in trades : x[1] < a => x \in recorded \/ End(w) <= x[1] + Overlap
    BY HistoryBounds DEF HistoryInv, ScanTyped, ScanInv, Scans, Checks
<1>2. 1 \in 1..Len(w) /\ Len(w) \in 1..Len(w) /\ Head(w) = w[1]
    BY <1>1, EmptySeq, LenProperties
<1>3. /\ a \in Nat /\ b \in Nat /\ a \in Clock /\ b \in Clock /\ a <= b /\ b <= End(w)
      /\ End(w) \in Nat /\ w[1] \in Windows
    BY <1>1, <1>2, WindowIs DEF Chain, End
<1>4. Window[1] = a /\ Window[2] = b
    BY <1>2 DEF Window
<1>5. Rows \subseteq trades /\ Fills \subseteq trades
    BY DEF Rows, Fills
<1>6. \A x \in trades : x[1] \in Nat
    BY TradeIs DEF HistoryInv
<1>7. Mark \in {-1} \union Clock /\ Mark <= now
    BY <1>1, <1>3, <1>4, HistoryBounds DEF Mark
<1>8. Full \in BOOLEAN /\ Splits \in BOOLEAN
    BY DEF Full, Splits
<1> DEFINE left == IF Splits THEN Halves \o Rest ELSE Rest
           cut == scan.truncated \/ (Full /\ ~Splits)
<1>9. Scanned = [scan EXCEPT !.windows = left, !.truncated = cut]
    BY DEF Scanned
<1>10. CASE Splits
    <2> DEFINE m == (a + b) \div 2
    <2>1. a < b /\ Rest = Tail(w) /\ Halves = << <<a, m>>, <<m + 1, b>> >>
        BY <1>4, <1>10 DEF Splits, Rest, Halves
    <2>2. m \in Nat /\ a <= m /\ m < b
        BY <1>3, <2>1, MiddleIs
    <2> HIDE DEF m, w
    <2>3. PICK h : h = << <<a, m>>, <<m + 1, b>> >>
        OBVIOUS
    <2>4. /\ h \o Tail(w) \in Seq(Windows) /\ h \o Tail(w) # <<>> /\ Chain(h \o Tail(w))
          /\ (h \o Tail(w))[1][1] = a /\ End(h \o Tail(w)) = End(w)
        <3>1. w # <<>>
            BY DEF w
        <3> QED
            BY <1>1, <2>2, <2>3, <3>1, HalvesAreChain, Zenon
    <2>5. left = h \o Tail(w)
        BY <1>10, <2>1, <2>3
    <2>6. Scanned \in Scans /\ Scanned.windows = left
        <3>1. left \in Seq(Windows) /\ cut \in BOOLEAN
            BY <2>4, <2>5
        <3> HIDE DEF left, cut
        <3> QED
            BY <1>1, <1>9, <3>1, ScanIs
    <2>7. Mark = check.mark
        BY <1>10 DEF Mark
    <2>8. \A x \in trades : x[1] + Overlap < Mark => x \in recorded
        BY <2>7 DEF HistoryInv, WatermarkIsContiguous
    <2> HIDE DEF left, a
    <2> QED
        BY <1>1, <1>5, <1>7, <2>4, <2>5, <2>6, <2>8
<1>11. CASE ~Splits
    <2>1. left = Tail(w) /\ Fills = Rows
        BY <1>11 DEF Rest, Fills
    <2>2. /\ Tail(w) \in Seq(Windows) /\ Chain(Tail(w))
          /\ Tail(w) # <<>> => Tail(w)[1][1] = b + 1 /\ End(Tail(w)) = End(w)
        BY <1>1, RestIsChain
    <2>3. Scanned \in Scans /\ Scanned.windows = Tail(w)
        <3>1. left \in Seq(Windows) /\ cut \in BOOLEAN
            BY <2>1, <2>2
        <3> HIDE DEF left, cut
        <3> QED
            BY ZenonT(60), <1>1, <1>9, <2>1, <3>1, ScanIs
    <2> HIDE DEF w, a, b
    <2>4. ASSUME NEW x \in trades, x[1] <= b PROVE x \in recorded \union Fills \/ End(w) <= x[1] + Overlap
        <3>1. CASE x[1] < a
            BY <1>1, <2>4, <3>1
        <3>2. CASE ~(x[1] < a)
            <4>1. a <= x[1]
                BY <1>3, <1>6, <3>2
            <4> QED
                BY <1>4, <2>1, <2>4, <4>1 DEF Rows
        <3> QED
            BY <3>1, <3>2
    <2>5. ASSUME NEW x \in trades, x[1] + Overlap < Mark PROVE x \in recorded \union Fills
        <3>1. CASE Mark = check.mark
            BY <2>5, <3>1 DEF HistoryInv, WatermarkIsContiguous
        <3>2. CASE Mark = b
            <4>1. x[1] \in Nat /\ x[1] + Overlap < b /\ Overlap \in Nat
                BY <1>6, <2>5, <3>2, HistoryBounds
            <4>2. x[1] <= b /\ ~(End(w) <= x[1] + Overlap)
                BY <1>3, <4>1
            <4> QED
                BY <2>4, <4>2
        <3> QED
            BY <1>4, <3>1, <3>2 DEF Mark
    <2>6. ASSUME NEW x \in trades, x[1] < b + 1 PROVE x[1] <= b
        BY <1>3, <1>6, <2>6
    <2> QED
        BY <1>1, <1>5, <1>7, <2>2, <2>3, <2>4, <2>5, <2>6
<1> QED
    BY <1>8, <1>10, <1>11

\* A step that saves nothing newly read: the windows that are kept were there.
LEMMA KeptIsSound ==
    ASSUME HistoryInv, ScanTyped', Alone', UNCHANGED <<now, trades>>, recorded \subseteq recorded',
           check'.mark = -1 \/ check'.mark = check.mark,
           check'.scan.windows \in {<<>>, check.scan.windows, scan.windows},
           scan'.windows \in {<<>>, scan.windows}
    PROVE HistoryInv'
<1>1. ASSUME NEW w, ScanInv(w) PROVE ScanInv(w)'
    BY <1>1 DEF ScanInv, Chain, End
<1>2. ScanInv(<<>>)
    BY DEF ScanInv
<1>3. PICK v : v = check'.scan.windows
    OBVIOUS
<1>4. PICK u : u = scan'.windows
    OBVIOUS
<1>5. ScanInv(v) /\ ScanInv(u)
    BY <1>2, <1>3, <1>4 DEF HistoryInv
<1>6. ScanInv(v)' /\ ScanInv(u)'
    BY <1>1, <1>5
<1>7. ScanInv(check.scan.windows)' /\ ScanInv(scan.windows)'
    BY <1>3, <1>4, <1>6 DEF ScanInv, Chain, End
<1>8. check'.mark <= now'
    <2>1. now \in Nat /\ now' = now /\ check.mark <= now
        BY HistoryBounds DEF HistoryInv, ScanTyped
    <2> QED
        BY <2>1
<1>9. WatermarkIsContiguous'
    <2>1. ASSUME NEW x \in trades, x[1] + Overlap < check'.mark PROVE x \in recorded'
        <3>1. x[1] \in Nat /\ Overlap \in Nat
            BY HistoryBounds, TradeIs DEF HistoryInv
        <3>2. check'.mark # -1
            BY <2>1, <3>1
        <3> QED
            BY <2>1, <3>2 DEF HistoryInv, WatermarkIsContiguous
    <2> QED
        BY <2>1 DEF WatermarkIsContiguous
<1> QED
    BY <1>7, <1>8, <1>9 DEF HistoryInv

\* A step that saves what was read.
LEMMA ReadIsSound ==
    ASSUME HistoryInv, ScanTyped', Alone', scan.windows # <<>>, UNCHANGED <<now, trades>>,
           recorded' = recorded \union Fills, check'.mark = Mark, check'.scan = Scanned,
           scan' = NoScan
    PROVE HistoryInv'
<1>1. /\ Mark <= now
      /\ \A x \in trades : x[1] + Overlap < Mark => x \in recorded \union Fills
      /\ Scanned.windows # <<>> =>
            /\ Chain(Scanned.windows) /\ End(Scanned.windows) <= now
            /\ \A x \in trades : x[1] < Scanned.windows[1][1] =>
                  x \in recorded \union Fills \/ End(Scanned.windows) <= x[1] + Overlap
    BY ScanAdvances
<1>2. PICK u : u = Scanned.windows
    OBVIOUS
<1>3. check'.scan.windows = u
    BY <1>2
<1>4. ScanInv(u)'
    BY <1>1, <1>2 DEF ScanInv, Chain, End
<1>5. ScanInv(check.scan.windows)'
    BY <1>3, <1>4 DEF ScanInv, Chain, End
<1>6. ScanInv(scan.windows)'
    BY DEF ScanInv, NoScan
<1>7. WatermarkIsContiguous' /\ check'.mark <= now'
    BY <1>1 DEF WatermarkIsContiguous
<1> QED
    BY <1>5, <1>6, <1>7 DEF HistoryInv

LEMMA TurnsKept ==
    ASSUME serving \in [Servers -> Turns], NEW s \in Servers, NEW t \in Turns
    PROVE /\ [serving EXCEPT ![s] = t] \in [Servers -> Turns]
          /\ \A o \in Servers : [serving EXCEPT ![s] = t][o] = IF o = s THEN t ELSE serving[o]
OBVIOUS

LEMMA NoTurnIs ==
    /\ NoTurn \in Turns /\ NoTurn.at = "none" /\ NoScan \in Scans /\ NoScan.windows = <<>>
    /\ \A r \in Reasons \union {"none"} : [at |-> "locking", reason |-> r] \in Turns
BY DEF NoTurn, Turns, NoScan, Scans

LEMMA BaselineIs ==
    ASSUME NEW c \in Checks, NEW b \in Baselines
    PROVE /\ [c EXCEPT !.baseline = b] \in Checks
          /\ [c EXCEPT !.baseline = b].mark = c.mark /\ [c EXCEPT !.baseline = b].scan = c.scan
BY DEF Checks

LEMMA ForgottenIs ==
    ASSUME NEW c \in Checks
    PROVE LET d == [c EXCEPT !.baseline = "queued", !.mark = -1, !.coverage = FALSE, !.scan = NoScan]
          IN  d \in Checks /\ d.mark = -1 /\ d.scan = NoScan
BY NoTurnIs DEF Checks, Baselines

LEMMA SucceededIs ==
    ASSUME NEW c \in Checks, NEW b \in Baselines
    PROVE LET d == [c EXCEPT !.succeeded = TRUE, !.baseline = b]
          IN  d \in Checks /\ d.mark = c.mark /\ d.scan = c.scan
BY DEF Checks

LEMMA AskTyped ==
    ASSUME request \in Reasons \union {"none"}, NEW r \in Reasons \union {"none"}, Ask(r)
    PROVE request' \in Reasons \union {"none"}
BY DEF Ask

\* The clock and the venue.
LEMMA TickIsSound ==
    ASSUME HistoryInv, Tick
    PROVE HistoryInv'
<1>1. /\ now \in Nat /\ now' = now + 1 /\ now' \in Clock /\ check.mark \in {-1} \union Clock
      /\ UNCHANGED <<trades, recorded, check, request, serving, scan, active>>
    BY HistoryBounds DEF HistoryInv, ScanTyped, Tick, Clock, Checks
<1>2. ASSUME NEW w \in Seq(Windows), ScanInv(w) PROVE ScanInv(w)'
    <2>1. CASE w = <<>>
        BY <2>1 DEF ScanInv
    <2>2. CASE w # <<>>
        <3>1. Len(w) \in 1..Len(w)
            BY <2>2, EmptySeq, LenProperties
        <3>2. End(w) \in Nat
            BY <3>1, WindowIs DEF End
        <3>3. End(w) <= now'
            BY <1>1, <1>2, <2>2, <3>2 DEF ScanInv
        <3> QED
            BY <1>1, <1>2, <2>2, <3>3 DEF ScanInv, Chain, End
    <2> QED
        BY <2>1, <2>2
<1>3. scan.windows \in Seq(Windows) /\ check.scan.windows \in Seq(Windows)
    BY DEF HistoryInv, ScanTyped, Checks, Scans
<1>4. ScanInv(scan.windows)' /\ ScanInv(check.scan.windows)'
    <2>1. PICK u : u = scan.windows
        OBVIOUS
    <2>2. PICK v : v = check.scan.windows
        OBVIOUS
    <2>3. ScanInv(u)' /\ ScanInv(v)'
        BY <1>2, <1>3, <2>1, <2>2 DEF HistoryInv
    <2> QED
        BY <1>1, <2>1, <2>2, <2>3 DEF ScanInv, Chain, End
<1>5. check'.mark <= now'
    <2>1. PICK m : m = check.mark
        OBVIOUS
    <2>2. m \in {-1} \union Clock /\ m <= now
        BY <1>1, <2>1 DEF HistoryInv
    <2>3. m \in Int
        BY <2>2, HistoryBounds
    <2>4. m <= now + 1
        BY <1>1, <2>2, <2>3
    <2> QED
        BY <1>1, <2>1, <2>4
<1> QED
    BY <1>1, <1>4, <1>5 DEF HistoryInv, ScanTyped, WatermarkIsContiguous, Alone

\* A trade that appears late is within Overlap of the clock, and so of the
\* watermark and of the end of every scan.
LEMMA TradeIsSound ==
    ASSUME HistoryInv, NEW t \in Clock, NEW n \in 1..Burst, Trade(t, n)
    PROVE HistoryInv'
<1>1. /\ t \in Nat /\ now \in Nat /\ now - t <= Overlap /\ trades' = trades \union {<<t, n>>}
      /\ UNCHANGED <<now, recorded, check, request, serving, scan, active>>
    BY HistoryBounds DEF Trade, HistoryInv, ScanTyped
<1>2. now <= t + Overlap
    BY <1>1, HistoryBounds
<1>3. ScanTyped'
    BY <1>1 DEF HistoryInv, ScanTyped
<1>4. ASSUME NEW w \in Seq(Windows), ScanInv(w) PROVE ScanInv(w)'
    <2>1. CASE w = <<>>
        BY <2>1 DEF ScanInv
    <2>2. CASE w # <<>>
        <3>1. Len(w) \in 1..Len(w)
            BY <2>2, EmptySeq, LenProperties
        <3>2. End(w) \in Nat
            BY <3>1, WindowIs DEF End
        <3>3. End(w) <= t + Overlap
            BY <1>1, <1>2, <1>4, <2>2, <3>2, HistoryBounds DEF ScanInv
        <3>4. ASSUME NEW x \in trades', x[1] < w[1][1]
              PROVE x \in recorded \/ End(w) <= x[1] + Overlap
            <4>1. CASE x \in trades
                BY <1>4, <2>2, <3>4, <4>1 DEF ScanInv
            <4>2. CASE x = <<t, n>>
                BY <3>3, <4>2
            <4> QED
                BY <1>1, <3>4, <4>1, <4>2
        <3>5. Chain(w) /\ End(w) <= now
            BY <1>4, <2>2 DEF ScanInv
        <3> QED
            BY <1>1, <2>2, <3>4, <3>5 DEF ScanInv, Chain, End
    <2> QED
        BY <2>1, <2>2
<1>5. scan.windows \in Seq(Windows) /\ check.scan.windows \in Seq(Windows)
    BY DEF HistoryInv, ScanTyped, Checks, Scans
<1>6. ScanInv(scan.windows)' /\ ScanInv(check.scan.windows)'
    <2>1. PICK u : u = scan.windows
        OBVIOUS
    <2>2. PICK v : v = check.scan.windows
        OBVIOUS
    <2>3. ScanInv(u)' /\ ScanInv(v)'
        BY <1>4, <1>5, <2>1, <2>2 DEF HistoryInv
    <2> QED
        BY <1>1, <2>1, <2>2, <2>3 DEF ScanInv, Chain, End
<1>7. WatermarkIsContiguous'
    <2>1. check.mark \in Int /\ check.mark <= now
        BY HistoryBounds DEF HistoryInv, ScanTyped, Checks
    <2>2. ~(t + Overlap < check.mark)
        BY <1>1, <1>2, <2>1, HistoryBounds
    <2> QED
        BY <1>1, <2>2 DEF HistoryInv, WatermarkIsContiguous
<1> QED
    BY <1>1, <1>3, <1>6, <1>7 DEF HistoryInv, Alone

\* The scheduler's steps.
LEMMA SchedulerIsSound ==
    ASSUME HistoryInv,
           \/ Activity \/ QueueBaseline \/ ResumeBaseline \/ RunDue \/ RefreshNow
           \/ \E r \in Occasions \union {"active_fallback"} : Event(r)
    PROVE HistoryInv'
<1> USE DEF HistoryInv
<1>1. /\ ScanTyped /\ Alone /\ check \in Checks /\ serving \in [Servers -> Turns]
      /\ request \in Reasons \union {"none"}
    BY DEF ScanTyped
<1>2. \A r \in Occasions \union {"active_fallback", "initial_baseline"} : r \in Reasons \union {"none"}
    BY HistoryAssumption DEF Reasons
<1>3. ASSUME Activity PROVE HistoryInv'
    <2>1. UNCHANGED <<now, trades, recorded, check, request, serving, scan>> /\ active' \in BOOLEAN
        BY <1>3 DEF Activity, ScanTyped
    <2>2. ScanTyped' /\ Alone'
        BY <1>1, <2>1 DEF ScanTyped, Alone
    <2> QED
        BY <2>1, <2>2, KeptIsSound
<1>4. ASSUME QueueBaseline \/ ResumeBaseline PROVE HistoryInv'
    <2>1. UNCHANGED <<now, trades, recorded, serving, scan, active>> /\ Ask("initial_baseline")
        BY <1>4 DEF QueueBaseline, ResumeBaseline
    <2>2. \/ check' = [check EXCEPT !.baseline = "queued", !.mark = -1, !.coverage = FALSE, !.scan = NoScan]
          \/ check' = [check EXCEPT !.baseline = "queued"]
        BY <1>4 DEF QueueBaseline, ResumeBaseline
    <2>3. /\ check' \in Checks /\ (check'.mark = -1 \/ check'.mark = check.mark)
          /\ check'.scan \in {NoScan, check.scan}
        <3>1. "queued" \in Baselines
            BY DEF Baselines
        <3>2. CASE check' = [check EXCEPT !.baseline = "queued"]
            BY <1>1, <3>1, <3>2, BaselineIs
        <3>3. CASE check' = [check EXCEPT !.baseline = "queued", !.mark = -1, !.coverage = FALSE,
                                          !.scan = NoScan]
            BY <1>1, <3>3, ForgottenIs
        <3> QED
            BY <2>2, <3>2, <3>3
    <2>4. request' \in Reasons \union {"none"}
        BY <1>1, <1>2, <2>1, AskTyped
    <2>5. ScanTyped' /\ Alone'
        BY <1>1, <2>1, <2>3, <2>4 DEF ScanTyped, Alone
    <2> QED
        BY <2>1, <2>3, <2>5, NoTurnIs, KeptIsSound
<1>5. ASSUME RunDue \/ RefreshNow PROVE HistoryInv'
    <2>1. UNCHANGED <<now, trades, recorded, check, scan, active>> /\ request' = "none"
        BY <1>5 DEF RunDue, RefreshNow
    <2>2. \/ serving' = serving
          \/ \E s \in Servers, r \in Reasons \union {"none"} :
                serving' = [serving EXCEPT ![s] = [at |-> "locking", reason |-> r]]
        <3>1. "loop" \in Servers /\ "manual_audit" \in Reasons
            BY HistoryAssumption DEF Reasons
        <3> QED
            BY <1>1, <1>5, <3>1 DEF RunDue, RefreshNow
    <2>3. /\ serving' \in [Servers -> Turns]
          /\ \A s \in Servers : serving'[s].at = "reading" => serving[s].at = "reading"
        <3>1. ASSUME NEW s \in Servers, NEW r \in Reasons \union {"none"},
                     serving' = [serving EXCEPT ![s] = [at |-> "locking", reason |-> r]]
              PROVE /\ serving' \in [Servers -> Turns]
                    /\ \A o \in Servers : serving'[o].at = "reading" => serving[o].at = "reading"
            <4>1. PICK t : t = [at |-> "locking", reason |-> r]
                OBVIOUS
            <4>2. t \in Turns /\ t.at = "locking"
                BY <4>1, NoTurnIs
            <4> QED
                BY <1>1, <3>1, <4>1, <4>2, TurnsKept
        <3> QED
            BY <1>1, <2>2, <3>1
    <2>4. ScanTyped' /\ Alone'
        BY <1>1, <2>1, <2>3 DEF ScanTyped, Alone
    <2> QED
        BY <2>1, <2>4, KeptIsSound
<1>6. ASSUME NEW r \in Occasions \union {"active_fallback"}, Event(r) PROVE HistoryInv'
    <2>1. UNCHANGED <<now, trades, recorded, check, serving, scan, active>> /\ Ask(r)
        BY <1>6 DEF Event
    <2>2. request' \in Reasons \union {"none"}
        BY <1>1, <1>2, <2>1, AskTyped
    <2>3. ScanTyped' /\ Alone'
        BY <1>1, <2>1, <2>2 DEF ScanTyped, Alone
    <2> QED
        BY <2>1, <2>3, KeptIsSound
<1> QED
    BY <1>3, <1>4, <1>5, <1>6

\* The steps of a scan.
LEMMA BeginIsSound ==
    ASSUME HistoryInv, NEW s \in Servers, BeginStep(s)
    PROVE HistoryInv'
<1>1. /\ serving[s].at = "locking" /\ \A o \in Servers : serving[o].at # "reading"
      /\ serving' = [serving EXCEPT ![s].at = "reading"]
      /\ scan' = IF check.scan.windows # <<>> THEN check.scan ELSE NewScan(ScanStart, now, Covers)
      /\ check' = [check EXCEPT !.baseline =
                     IF serving[s].reason = "initial_baseline" THEN "running" ELSE check.baseline]
      /\ UNCHANGED <<now, trades, recorded, request, active>>
    BY DEF BeginStep
<1>2. ScanTyped /\ check \in Checks /\ check.baseline \in Baselines /\ check.scan \in Scans
    BY DEF HistoryInv, ScanTyped, Checks
<1>3. check' \in Checks /\ check'.mark = check.mark /\ check'.scan = check.scan
    <2>1. PICK b : b = IF serving[s].reason = "initial_baseline" THEN "running" ELSE check.baseline
        OBVIOUS
    <2>2. b \in Baselines
        BY <1>2, <2>1 DEF Baselines
    <2> QED
        BY <1>1, <1>2, <2>1, <2>2, BaselineIs
<1>4. /\ serving' \in [Servers -> Turns]
      /\ \A o \in Servers : serving'[o].at = "reading" => o = s
    <2>1. serving \in [Servers -> Turns] /\ serving[s] \in Turns
        BY <1>2 DEF ScanTyped
    <2>2. PICK t : t = [serving[s] EXCEPT !.at = "reading"]
        OBVIOUS
    <2>3. t \in Turns
        BY <2>1, <2>2 DEF Turns
    <2>4. serving' = [serving EXCEPT ![s] = t]
        BY <1>1, <2>2
    <2> QED
        BY <1>1, <2>1, <2>3, <2>4, TurnsKept
<1>5. scan' \in Scans /\ scan'.windows # <<>> /\ ScanInv(scan.windows)'
    <2>1. CASE check.scan.windows # <<>>
        <3>1. scan' = check.scan
            BY <1>1, <2>1
        <3>2. PICK w : w = check.scan.windows
            OBVIOUS
        <3>3. ScanInv(w)'
            BY <1>1, <3>2 DEF HistoryInv, ScanInv, Chain, End
        <3> QED
            BY <1>2, <2>1, <3>1, <3>2, <3>3 DEF ScanInv, Chain, End
    <2>2. CASE check.scan.windows = <<>>
        <3>1. scan' = NewScan(ScanStart, now, Covers) /\ Covers \in BOOLEAN
            BY <1>1, <1>2, <2>2 DEF Covers, Checks
        <3>2. /\ check.mark \in Int /\ check.mark <= now /\ now \in Clock /\ now \in Nat
              /\ now <= MaxTime /\ MaxTime \in Nat /\ Overlap \in Nat
            <4>1. check.mark \in Int /\ now \in Clock
                BY <1>2, HistoryBounds DEF ScanTyped, Checks
            <4>2. check.mark <= now
                BY DEF HistoryInv
            <4> QED
                BY <4>1, <4>2, HistoryBounds DEF Clock
        <3>3. ScanStart \in Clock /\ ScanStart <= now /\ (ScanStart = 0 \/ ScanStart = check.mark - Overlap)
            BY <3>2 DEF ScanStart, Clock
        <3>4. /\ NewScan(ScanStart, now, Covers) \in Scans
              /\ NewScan(ScanStart, now, Covers).windows # <<>>
              /\ Chain(NewScan(ScanStart, now, Covers).windows)
              /\ NewScan(ScanStart, now, Covers).windows[1][1] = ScanStart
              /\ End(NewScan(ScanStart, now, Covers).windows) = now
            BY <3>1, <3>2, <3>3, NewScanIsChain
        <3>5. PICK w : w = NewScan(ScanStart, now, Covers).windows
            OBVIOUS
        <3>6. w # <<>> /\ Chain(w) /\ w[1][1] = ScanStart /\ End(w) = now
            BY <3>4, <3>5
        <3>7. ASSUME NEW x \in trades, x[1] < ScanStart PROVE x \in recorded
            <4>1. x[1] \in Nat
                BY <1>2, TradeIs
            <4>2. x[1] + Overlap < check.mark
                BY <3>2, <3>3, <3>7, <4>1
            <4> QED
                BY <4>2 DEF HistoryInv, WatermarkIsContiguous
        <3>8. ScanInv(w)'
            BY <1>1, <3>2, <3>6, <3>7 DEF ScanInv, Chain, End
        <3>9. scan'.windows = w
            BY <3>1, <3>5
        <3> QED
            BY <3>1, <3>4, <3>6, <3>8, <3>9 DEF ScanInv, Chain, End
    <2> QED
        BY <2>1, <2>2
<1>6. ScanTyped' /\ Alone'
    BY <1>1, <1>2, <1>3, <1>4, <1>5 DEF ScanTyped, Alone
<1>7. ScanInv(check.scan.windows)'
    <2>1. PICK w : w = check.scan.windows
        OBVIOUS
    <2>2. ScanInv(w)'
        BY <1>1, <2>1 DEF HistoryInv, ScanInv, Chain, End
    <2> QED
        BY <1>3, <2>1, <2>2 DEF ScanInv, Chain, End
<1>8. WatermarkIsContiguous' /\ check'.mark <= now'
    BY <1>1, <1>3 DEF HistoryInv, WatermarkIsContiguous
<1> QED
    BY <1>5, <1>6, <1>7, <1>8 DEF HistoryInv

\* What is saved of a step: Saved, and the baseline with it.
LEMMA SavedTyped ==
    ASSUME HistoryInv, scan.windows # <<>>
    PROVE Saved \in Checks /\ Saved.mark = Mark /\ Saved.scan = Scanned
<1>1. check \in Checks /\ Mark \in {-1} \union Clock /\ Scanned \in Scans
    BY ScanAdvances DEF HistoryInv, ScanTyped
<1>2. Whole \in BOOLEAN
    BY DEF Whole
<1>3. PICK m, v, s : m = Mark /\ v = Whole /\ s = Scanned
    OBVIOUS
<1>4. Saved = [check EXCEPT !.mark = m, !.coverage = v, !.scan = s]
    BY <1>3 DEF Saved
<1>5. m \in {-1} \union Clock /\ v \in BOOLEAN /\ s \in Scans /\ check \in Checks
    BY <1>1, <1>2, <1>3
<1>6. Saved \in Checks /\ Saved.mark = m /\ Saved.scan = s
    BY <1>4, <1>5 DEF Checks
<1> QED
    BY <1>3, <1>6

LEMMA StepEndsIsSound ==
    ASSUME HistoryInv, NEW s \in Servers, StepSucceeds(s)
    PROVE HistoryInv'
<1>1. /\ serving[s].at = "reading" /\ recorded' = recorded \union Fills
      /\ check' = AfterStep(serving[s].reason)
      /\ IF More THEN Ask(serving[s].reason) ELSE request' = request
      /\ serving' = [serving EXCEPT ![s] = NoTurn] /\ scan' = NoScan
      /\ UNCHANGED <<now, trades, active>>
    BY DEF StepSucceeds
<1>2. ScanTyped /\ Alone /\ scan.windows # <<>>
    BY <1>1 DEF HistoryInv, Alone
<1>3. check' \in Checks /\ check'.mark = Mark /\ check'.scan = Scanned
    <2> DEFINE b == IF ~More /\ (serving[s].reason = "initial_baseline" \/ Saved.baseline = "running")
                    THEN IF Whole THEN "complete" ELSE "pending" ELSE Saved.baseline
    <2>1. Saved \in Checks /\ Saved.mark = Mark /\ Saved.scan = Scanned
        BY <1>2, SavedTyped
    <2>2. b \in Baselines
        BY <2>1 DEF Checks, Baselines
    <2>3. check' = [Saved EXCEPT !.succeeded = TRUE, !.baseline = b]
        BY <1>1 DEF AfterStep
    <2> HIDE DEF b
    <2> QED
        BY <2>1, <2>2, <2>3, SucceededIs
<1>4. /\ serving' \in [Servers -> Turns] /\ \A o \in Servers : serving'[o].at # "reading"
    <2>1. serving \in [Servers -> Turns]
        BY <1>2 DEF ScanTyped
    <2>2. \A o \in Servers : serving[o].at = "reading" => o = s
        BY <1>1, <1>2 DEF Alone
    <2> QED
        BY <1>1, <2>1, <2>2, NoTurnIs, TurnsKept
<1>5. request' \in Reasons \union {"none"}
    <2>1. serving[s].reason \in Reasons \union {"none"} /\ request \in Reasons \union {"none"}
        BY <1>2 DEF ScanTyped, Turns
    <2> QED
        BY <1>1, <2>1, AskTyped
<1>6. recorded' \subseteq trades'
    BY <1>1, <1>2, ScanAdvances DEF ScanTyped
<1>7. ScanTyped' /\ Alone'
    BY <1>1, <1>2, <1>3, <1>4, <1>5, <1>6, NoTurnIs DEF ScanTyped, Alone
<1> QED
    BY <1>1, <1>2, <1>3, <1>7, ReadIsSound

LEMMA StepFailsIsSound ==
    ASSUME HistoryInv, NEW s \in Servers, NEW cancelled \in BOOLEAN, StepFails(s, cancelled)
    PROVE HistoryInv'
<1>1. /\ serving[s].at = "reading"
      /\ serving' = [serving EXCEPT ![s] = NoTurn] /\ scan' = NoScan
      /\ UNCHANGED <<now, trades, recorded, request, active>>
    BY DEF StepFails
<1>2. ScanTyped /\ Alone /\ check \in Checks /\ scan \in Scans
    BY DEF HistoryInv, ScanTyped
<1>3. check' \in Checks /\ check'.mark = check.mark /\ check'.scan \in {check.scan, scan}
    <2>1. PICK u : u = IF cancelled THEN check.scan ELSE scan
        OBVIOUS
    <2>2. PICK b : b = IF serving[s].reason = "initial_baseline" THEN "pending" ELSE check.baseline
        OBVIOUS
    <2>3. u \in Scans /\ b \in Baselines
        BY <1>2, <2>1, <2>2 DEF Checks, Baselines
    <2>4. check' = [check EXCEPT !.scan = u, !.baseline = b]
        BY <2>1, <2>2 DEF StepFails, Unread
    <2>5. PICK d : d = [check EXCEPT !.scan = u, !.baseline = b]
        OBVIOUS
    <2>6. d \in Checks /\ d.mark = check.mark /\ d.scan = u
        <3>1. check \in Checks /\ u \in Scans /\ b \in Baselines
            BY <1>2, <2>3
        <3> QED
            BY <2>5, <3>1 DEF Checks
    <2>7. check' = d
        BY <2>4, <2>5
    <2>8. u \in {check.scan, scan}
        BY <2>1
    <2> QED
        BY <2>6, <2>7, <2>8
<1>4. serving' \in [Servers -> Turns] /\ \A o \in Servers : serving'[o].at # "reading"
    <2>1. serving \in [Servers -> Turns]
        BY <1>2 DEF ScanTyped
    <2>2. \A o \in Servers : serving[o].at = "reading" => o = s
        BY <1>1, <1>2 DEF Alone
    <2> QED
        BY <1>1, <2>1, <2>2, NoTurnIs, TurnsKept
<1>5. ScanTyped' /\ Alone'
    BY <1>1, <1>2, <1>3, <1>4, NoTurnIs DEF ScanTyped, Alone
<1> QED
    BY <1>1, <1>3, <1>5, NoTurnIs, KeptIsSound

LEMMA DieIsSound ==
    ASSUME HistoryInv, Die
    PROVE HistoryInv'
<1>1. /\ serving' = [s \in Servers |-> NoTurn] /\ scan' = NoScan
      /\ UNCHANGED <<now, trades, active>>
    BY DEF Die
<1>2. ScanTyped /\ Alone /\ check \in Checks
    BY DEF HistoryInv, ScanTyped
<1>3. request' \in Reasons \union {"none"}
    <2>1. \/ request' = "initial_baseline" \/ request' = "active_fallback" \/ request' = "none"
        BY Zenon DEF Die
    <2> QED
        BY <2>1 DEF Reasons
<1>4. serving' \in [Servers -> Turns] /\ Alone'
    BY <1>1, NoTurnIs DEF Alone
<1>5. CASE recorded' = recorded /\ check' = check
    <2>1. ScanTyped'
        BY <1>1, <1>2, <1>3, <1>4, <1>5, NoTurnIs DEF ScanTyped
    <2> QED
        BY <1>1, <1>4, <1>5, <2>1, NoTurnIs, KeptIsSound
<1>6. CASE /\ \E s \in Servers : serving[s].at = "reading"
           /\ recorded' = recorded \union Fills /\ check' \in {check, Saved}
    <2>1. scan.windows # <<>>
        BY <1>2, <1>6 DEF Alone
    <2>2. /\ Saved \in Checks /\ Saved.mark = Mark /\ Saved.scan = Scanned
          /\ Fills \subseteq trades
        BY <2>1, SavedTyped, ScanAdvances
    <2>3. ScanTyped'
        BY <1>1, <1>2, <1>3, <1>4, <1>6, <2>2, NoTurnIs DEF ScanTyped
    <2>4. CASE check' = check
        BY <1>1, <1>4, <1>6, <2>3, <2>4, NoTurnIs, KeptIsSound
    <2>5. CASE check' = Saved
        BY <1>1, <1>4, <1>6, <2>1, <2>2, <2>3, <2>5, ReadIsSound
    <2> QED
        BY <1>6, <2>4, <2>5
<1>7. \/ recorded' = recorded /\ check' = check
      \/ /\ \E s \in Servers : serving[s].at = "reading"
         /\ recorded' = recorded \union Fills /\ check' \in {check, Saved}
    BY DEF Die
<1> QED
    BY <1>5, <1>6, <1>7

LEMMA HistorySteps ==
    ASSUME HistoryInv, HistoryNext
    PROVE HistoryInv'
<1>1. ASSUME Reads PROVE HistoryInv'
    BY <1>1, BeginIsSound, StepEndsIsSound, StepFailsIsSound DEF Reads
<1> QED
    BY <1>1, TickIsSound, TradeIsSound, SchedulerIsSound, DieIsSound DEF HistoryNext

LEMMA HistoryBegins ==
    ASSUME HistoryInit
    PROVE HistoryInv
<1>1. 0 \in Clock /\ -1 <= 0
    BY HistoryBounds DEF Clock
<1>2. check \in Checks /\ check.mark = -1 /\ check.scan = NoScan
    BY NoTurnIs DEF HistoryInit, Checks, Baselines
<1>3. ScanTyped /\ Alone
    BY <1>1, <1>2, NoTurnIs DEF HistoryInit, ScanTyped, Alone
<1>4. WatermarkIsContiguous /\ ScanInv(scan.windows) /\ ScanInv(check.scan.windows)
    BY <1>2, NoTurnIs DEF HistoryInit, WatermarkIsContiguous, ScanInv
<1> QED
    BY <1>1, <1>2, <1>3, <1>4 DEF HistoryInv, HistoryInit

LEMMA HistorySame ==
    ASSUME HistoryInv, UNCHANGED historyVars
    PROVE HistoryInv'
BY DEF HistoryInv, ScanTyped, WatermarkIsContiguous, Alone, ScanInv, Chain, End, historyVars

LEMMA HistoryInvSays ==
    ASSUME HistoryInv
    PROVE HistoryTypeOK /\ WatermarkIsContiguous
BY DEF HistoryInv, ScanTyped, Checks, Scans, Turns, Baselines, HistoryTypeOK

\* A step of the parts is a step of the history, or leaves the history alone.
LEMMA PartsSteps ==
    ASSUME HistoryInv, [PartsNext]_<<part, vars, streamVars, historyVars>>
    PROVE HistoryInv'
<1>1. HistoryNext \/ UNCHANGED historyVars
    BY Zenon DEF PartsNext
<1> QED
    BY <1>1, HistorySteps, HistorySame

\* The checkpoint's watermark is contiguous: every trade up to it that the venue
\* shows is in the ledger, but for those of the last Overlap milliseconds, over
\* windows that are split, timeouts, concurrent refreshes and restarts between
\* the ledger and the checkpoint.
THEOREM HistoryIsContiguous == PartsSpec => []TypedAndContiguous
<1>1. PartsInit => HistoryInv
    BY HistoryBegins DEF PartsInit
<1>2. HistoryInv /\ [PartsNext]_<<part, vars, streamVars, historyVars>> => HistoryInv'
    BY PartsSteps
<1>3. HistoryInv => TypedAndContiguous
    BY HistoryInvSays DEF TypedAndContiguous
<1> QED
    BY <1>1, <1>2, <1>3, PTL DEF PartsSpec

(***************************************************************************)
(* The streams                                                             *)
(***************************************************************************)
\* A row that is kept is the one of the last frame that was taken: the frames
\* that were not lost are the changes since, one by one.
Frames == [ids : {{"id"}, Ids}, row : 1..MaxChanges]
OrderInv ==
    /\ OrderTypeOK /\ RowIsOfThisConnection /\ AnswerIsRecent
    /\ frames \in Seq(Frames) /\ since \in 0..changes
    /\ byId <= changes /\ byClient <= changes
    /\ ~online => frames = <<>> /\ byId = NoRow /\ byClient = NoRow
    /\ byId = NoRow => byClient = NoRow
    /\ byId # NoRow => byId > since
    /\ \A i \in 1..Len(frames) : frames[i].row > since /\ frames[i].row <= changes
    /\ online /\ ~missed =>
          /\ since + Len(frames) <= changes
          /\ \A i \in 1..Len(frames) : frames[i].row = changes - Len(frames) + i
          /\ byId # NoRow => byId = changes - Len(frames)

LEMMA OrderBegins == ASSUME OrderInit PROVE OrderInv
<1>1. /\ changes = 0 /\ frames = <<>> /\ byId = -1 /\ byClient = -1 /\ online = FALSE /\ since = 0
      /\ missed = FALSE /\ answer = [behind |-> 0, waiting |-> 0, lost |-> FALSE]
      /\ MaxChanges \in Nat /\ MaxLag \in Nat
    BY OrderAssumption DEF OrderInit, NoRow
<1>2. frames \in Seq(Frames) /\ Len(frames) = 0 /\ DOMAIN frames = {}
    BY <1>1
<1>3. answer.behind = 0 /\ answer.lost = FALSE /\ AnswerIsRecent
    BY <1>1 DEF AnswerIsRecent
<1>4. \A i \in DOMAIN frames : frames[i].row \in 1..changes
    BY <1>2
<1>5. OrderTypeOK
    <2>1. /\ changes \in 0..MaxChanges /\ byId \in -1..MaxChanges /\ byClient \in -1..MaxChanges
          /\ answer.behind \in 0..MaxChanges
        BY <1>1, <1>3
    <2>2. online \in BOOLEAN /\ missed \in BOOLEAN
        BY <1>1
    <2> QED
        BY <1>4, <2>1, <2>2 DEF OrderTypeOK
<1> QED
    BY <1>1, <1>2, <1>3, <1>5 DEF OrderInv, RowIsOfThisConnection, NoRow

LEMMA ChangeKeeps == ASSUME OrderInv, Change PROVE OrderInv'
<1>1. /\ changes \in 0..MaxChanges /\ changes < MaxChanges /\ changes' = changes + 1
      /\ changes' \in 0..MaxChanges
      /\ UNCHANGED <<byId, byClient, online, since, answer>>
      /\ MaxChanges \in Nat
    BY OrderAssumption DEF OrderInv, OrderTypeOK, Change
<1>2. CASE ~online
    <2>1. UNCHANGED frames /\ missed' = FALSE /\ frames = <<>> /\ Len(frames) = 0 /\ DOMAIN frames = {}
        BY <1>2 DEF Change, OrderInv, OrderTypeOK
    <2>2. OrderTypeOK'
        BY <1>1, <2>1 DEF OrderInv, OrderTypeOK
    <2>3. AnswerIsRecent' /\ RowIsOfThisConnection'
        BY <1>1, <1>2 DEF OrderInv, AnswerIsRecent, RowIsOfThisConnection
    <2>4. /\ byId <= changes /\ byClient <= changes /\ byId = NoRow /\ byClient = NoRow
          /\ since \in 0..changes /\ frames \in Seq(Frames)
        BY <1>2 DEF OrderInv
    <2> QED
        BY <1>1, <1>2, <2>1, <2>2, <2>3, <2>4 DEF OrderInv, NoRow
<1>3. CASE online /\ UNCHANGED frames /\ missed' = online
    BY <1>1, <1>3 DEF OrderInv, OrderTypeOK, RowIsOfThisConnection, AnswerIsRecent, Pushed, NoRow
<1>4. CASE /\ online /\ UNCHANGED missed
           /\ \E ids \in {{"id"}, Ids} : frames' = Append(frames, [ids |-> ids, row |-> changes'])
    <2>1. PICK ids \in {{"id"}, Ids} : frames' = Append(frames, [ids |-> ids, row |-> changes'])
        BY <1>4
    <2> DEFINE frame == [ids |-> ids, row |-> changes']
               n == Len(frames)
    <2>2. frame \in Frames /\ frame.row = changes + 1
        BY <1>1 DEF Frames
    <2>3. frames \in Seq(Frames)
        BY DEF OrderInv
    <2> HIDE DEF frame
    <2>4. /\ frames' \in Seq(Frames) /\ Len(frames') = n + 1 /\ frames'[n + 1] = frame
          /\ \A i \in 1..n : frames'[i] = frames[i]
        BY <2>1, <2>2, <2>3, AppendProperties DEF frame
    <2>5. n \in Nat /\ DOMAIN frames' = 1..(n + 1) /\ DOMAIN frames = 1..n
        BY <2>3, <2>4
    <2>6. /\ \A i \in 1..n : frames[i].row > since /\ frames[i].row <= changes /\ frames[i].row \in 1..changes
          /\ since \in 0..changes
        BY <2>5 DEF OrderInv, OrderTypeOK
    <2> HIDE DEF n
    <2>7. \A i \in 1..(n + 1) : /\ frames'[i].row > since /\ frames'[i].row <= changes + 1
                                /\ frames'[i].row \in 1..(changes + 1)
        BY <1>1, <2>2, <2>4, <2>5, <2>6
    <2>8. ~missed => /\ since + (n + 1) <= changes + 1
                     /\ \A i \in 1..(n + 1) : frames'[i].row = (changes + 1) - (n + 1) + i
                     /\ byId # NoRow => byId = (changes + 1) - (n + 1)
        <3>1. ~missed => /\ since + n <= changes
                         /\ \A i \in 1..n : frames[i].row = changes - n + i
                         /\ byId # NoRow => byId = changes - n
            BY <1>4, Zenon DEF OrderInv, n
        <3>2. \A i \in 1..(n + 1) : i = n + 1 \/ (i \in 1..n /\ frames'[i] = frames[i])
            BY <2>4, <2>5
        <3>3. changes \in Nat
            BY <1>1
        <3>4. ~missed => \A i \in 1..(n + 1) : frames'[i].row = (changes + 1) - (n + 1) + i
            <4>1. frames'[n + 1].row = changes + 1
                BY <1>1, <2>2, <2>4, <2>5
            <4> QED
                BY <2>5, <3>1, <3>2, <3>3, <4>1
        <3>5. ~missed => since + (n + 1) <= changes + 1
            BY <2>5, <2>6, <3>1, <3>3
        <3>6. ~missed /\ byId # NoRow => byId = (changes + 1) - (n + 1)
            BY <2>5, <3>1, <3>3
        <3> QED
            BY <3>4, <3>5, <3>6, Zenon
    <2>9. OrderTypeOK'
        BY <1>1, <1>4, <2>5, <2>7 DEF OrderInv, OrderTypeOK
    <2>10. RowIsOfThisConnection' /\ AnswerIsRecent'
        BY <1>1 DEF OrderInv, RowIsOfThisConnection, AnswerIsRecent, Pushed
    <2>11. /\ byId <= changes /\ byClient <= changes /\ (byId = NoRow => byClient = NoRow)
           /\ byId # NoRow => byId > since
        BY DEF OrderInv
    <2>12. /\ online' = online /\ online /\ missed' = missed
           /\ UNCHANGED <<byId, byClient, since>> /\ changes' = changes + 1 /\ Len(frames') = n + 1
        BY <1>1, <1>4, <2>4, Zenon
    <2>13. since' \in 0..changes' /\ byId' <= changes' /\ byClient' <= changes'
        <3>1. /\ byId \in -1..MaxChanges /\ byClient \in -1..MaxChanges /\ MaxChanges \in Nat
              /\ changes \in Nat
            BY <1>1 DEF OrderInv, OrderTypeOK
        <3> QED
            BY <2>6, <2>11, <2>12, <3>1
    <2>14. \A i \in 1..Len(frames') : frames'[i].row > since' /\ frames'[i].row <= changes'
        BY <2>7, <2>12, Zenon
    <2>15. online' /\ ~missed' =>
              /\ since' + Len(frames') <= changes'
              /\ \A i \in 1..Len(frames') : frames'[i].row = changes' - Len(frames') + i
              /\ byId' # NoRow => byId' = changes' - Len(frames')
        BY <2>8, <2>12, Zenon DEF NoRow
    <2> QED
        BY <2>4, <2>9, <2>10, <2>11, <2>12, <2>13, <2>14, <2>15, Zenon DEF OrderInv, NoRow
<1> QED
    BY <1>2, <1>3, <1>4 DEF Change

LEMMA LinkKeeps == ASSUME OrderInv, GoOnline \/ GoOffline PROVE OrderInv'
<1>0. /\ changes \in 0..MaxChanges /\ since \in 0..changes /\ MaxChanges \in Nat /\ online \in BOOLEAN
      /\ missed \in BOOLEAN /\ answer.behind \in 0..MaxChanges /\ AnswerIsRecent
    BY OrderAssumption DEF OrderInv, OrderTypeOK
<1>1. UNCHANGED <<changes, answer>> /\ since' \in 0..changes /\ online' \in BOOLEAN /\ missed' \in BOOLEAN
    <2>1. CASE GoOnline
        <3>1. changes \in 0..changes
            BY <1>0
        <3> QED
            BY <2>1, <3>1 DEF GoOnline
    <2>2. CASE GoOffline
        BY <1>0, <2>2 DEF GoOffline
    <2> QED
        BY <2>1, <2>2
<1>2. byId' = -1 /\ byClient' = -1 /\ frames' = <<>>
    BY DEF GoOnline, GoOffline, RowsCleared, OrderInv, NoRow
<1>3. frames' \in Seq(Frames) /\ Len(frames') = 0 /\ DOMAIN frames' = {}
    BY <1>2
<1>4. ~missed' => since' <= changes'
    BY <1>0, <1>1
<1>5. AnswerIsRecent' /\ RowIsOfThisConnection'
    BY <1>0, <1>1, <1>2 DEF AnswerIsRecent, RowIsOfThisConnection, Pushed, NoRow
<1>6. OrderTypeOK'
    <2>1. /\ changes' \in 0..MaxChanges /\ byId' \in -1..MaxChanges /\ byClient' \in -1..MaxChanges
          /\ answer'.behind \in 0..MaxChanges
        BY <1>0, <1>1, <1>2
    <2> QED
        BY <1>1, <1>3, <2>1 DEF OrderTypeOK
<1>7. /\ byId' <= changes' /\ byClient' <= changes' /\ byId' = NoRow /\ byClient' = NoRow
      /\ since' \in 0..changes'
    BY <1>0, <1>1, <1>2 DEF NoRow
<1>8. since' + Len(frames') <= changes'
    <2>1. Len(frames') = 0 /\ since' \in Int /\ since' <= changes'
        BY <1>3, <1>7
    <2> QED
        BY <2>1
<1> QED
    BY <1>2, <1>3, <1>5, <1>6, <1>7, <1>8 DEF OrderInv

LEMMA TakeFrameKeeps == ASSUME OrderInv, TakeFrame PROVE OrderInv'
<1> DEFINE n == Len(frames)
           h == Head(frames)
<1>1. /\ frames \in Seq(Frames) /\ frames # <<>> /\ online
      /\ UNCHANGED <<changes, online, since, missed, answer>>
      /\ changes \in 0..MaxChanges /\ since \in 0..changes /\ MaxChanges \in Nat
    BY OrderAssumption DEF OrderInv, OrderTypeOK, TakeFrame
<1>2. /\ n \in Nat /\ n > 0 /\ h = frames[1] /\ h \in Frames /\ frames' = Tail(frames)
      /\ DOMAIN frames = 1..n
    BY <1>1 DEF TakeFrame
<1>3. /\ frames' \in Seq(Frames) /\ Len(frames') = n - 1 /\ DOMAIN frames' = 1..(n - 1)
      /\ \A i \in 1..(n - 1) : frames'[i] = frames[i + 1]
    BY <1>1, <1>2
<1>4. h.row > since /\ h.row \in 1..changes
    BY <1>1, <1>2 DEF OrderInv, OrderTypeOK
<1>5. byId' = h.row /\ (byClient' = h.row \/ byClient' = byClient)
    BY <1>2 DEF TakeFrame, Frames, Ids
<1>6. \A i \in 1..(n - 1) : /\ frames'[i].row > since /\ frames'[i].row <= changes
                            /\ frames'[i].row \in 1..changes
    BY <1>2, <1>3 DEF OrderInv, OrderTypeOK
<1>7. ~missed => /\ since + (n - 1) <= changes /\ byId' = changes - (n - 1)
                 /\ \A i \in 1..(n - 1) : frames'[i].row = changes - (n - 1) + i
    <2>1. ~missed => /\ since + n <= changes /\ \A i \in 1..n : frames[i].row = changes - n + i
        BY <1>1 DEF OrderInv
    <2>2. n >= 1 /\ n \in Nat /\ changes \in Int /\ since \in Int
        BY <1>1, <1>2
    <2> HIDE DEF n, h
    <2>3. ASSUME ~missed, NEW i \in 1..(n - 1) PROVE frames'[i].row = changes - (n - 1) + i
        <3>1. i + 1 \in 1..n /\ frames'[i] = frames[i + 1]
            BY <1>3, <2>2
        <3>2. frames[i + 1].row = changes - n + (i + 1)
            BY <2>1, <2>3, <3>1
        <3> QED
            BY <2>2, <3>1, <3>2
    <2>4. ~missed => since + (n - 1) <= changes /\ byId' = changes - (n - 1)
        <3>1. ~missed => h.row = changes - n + 1
            BY <1>2, <2>1, <2>2
        <3> QED
            BY <1>5, <2>1, <2>2, <3>1
    <2> QED
        BY <2>3, <2>4
<1>8. byClient \in -1..MaxChanges /\ byClient <= changes /\ missed \in BOOLEAN
    BY DEF OrderInv, OrderTypeOK
<1> HIDE DEF n, h
<1>9. OrderTypeOK'
    BY <1>1, <1>3, <1>4, <1>5, <1>6, <1>8 DEF OrderInv, OrderTypeOK
<1>10. RowIsOfThisConnection' /\ AnswerIsRecent'
    BY <1>1, <1>4, <1>5 DEF OrderInv, RowIsOfThisConnection, AnswerIsRecent, Pushed, NoRow
<1> QED
    BY <1>1, <1>2, <1>3, <1>4, <1>5, <1>6, <1>7, <1>8, <1>9, <1>10 DEF OrderInv, NoRow

\* A row says how many changes are on their way; REST is behind by its own lag.
LEMMA FetchOrderKeeps == ASSUME OrderInv, FetchOrder PROVE OrderInv'
<1>1. /\ UNCHANGED <<changes, frames, byId, byClient, online, since, missed>>
      /\ changes \in 0..MaxChanges /\ MaxChanges \in Nat /\ MaxLag \in Nat /\ Len(frames) \in Nat
    BY OrderAssumption DEF OrderInv, OrderTypeOK, FetchOrder
<1>2. answer'.behind \in 0..MaxChanges /\ AnswerIsRecent'
    <2>1. CASE online /\ Pushed # NoRow
        <3>1. answer' = [behind |-> changes - Pushed, waiting |-> Len(frames), lost |-> missed]
            BY <2>1 DEF FetchOrder
        <3>2. /\ Pushed = byId /\ byId \in -1..MaxChanges /\ byId <= changes /\ byId # NoRow
              /\ byId > since /\ since \in 0..changes
            BY <2>1 DEF OrderInv, OrderTypeOK, Pushed
        <3>3. ~missed => byId = changes - Len(frames)
            BY <2>1, <3>2 DEF OrderInv
        <3> QED
            BY <1>1, <3>1, <3>2, <3>3 DEF AnswerIsRecent
    <2>2. CASE ~(online /\ Pushed # NoRow)
        <3>1. PICK lag \in 0..MaxLag :
                 lag <= changes /\ answer' = [behind |-> lag, waiting |-> 0, lost |-> FALSE]
            BY <2>2 DEF FetchOrder
        <3> QED
            BY <1>1, <3>1 DEF AnswerIsRecent
    <2> QED
        BY <2>1, <2>2
<1>3. OrderTypeOK' /\ RowIsOfThisConnection'
    BY <1>1, <1>2 DEF OrderInv, OrderTypeOK, RowIsOfThisConnection, Pushed
<1> QED
    BY <1>1, <1>2, <1>3 DEF OrderInv

LEMMA OrderSteps == ASSUME OrderInv, OrderNext \/ UNCHANGED rowVars PROVE OrderInv'
<1>1. CASE UNCHANGED rowVars
    BY <1>1 DEF rowVars, OrderInv, OrderTypeOK, RowIsOfThisConnection, AnswerIsRecent, Pushed
<1> QED
    BY <1>1, ChangeKeeps, LinkKeeps, TakeFrameKeeps, FetchOrderKeeps DEF OrderNext

\* The age of a copy is the age its book had when it was made and the time since;
\* the book of a REST round under way is as old as the two requests.
StreamAges == 0..(StreamAge + 1)
ObserverSteps == {"wait", "read BTC", "read ETH", "fetch BTC", "fetch ETH", "ended"}
AtSecond == observer = "fetch ETH"
RestAge == RequestTicks + RequestTicks
Copies == [age : Nat, since : 0..CopyAge + 1, from : {"none", "stream", "rest"}]
WellAged(copy) ==
    /\ copy.from = "stream" => copy.age <= StreamAge + copy.since
    /\ copy.from = "rest" => copy.age <= RestAge + copy.since
HubInv ==
    /\ HubTypeOK /\ copies \in [Pairs -> Copies] /\ fetched \in Nat
    /\ \A s \in Pairs : WellAged(copies[s])
    /\ AtSecond => fetched <= RequestTicks + spent

LEMMA RestAgeIs == RestAge \in Nat /\ RestAge = 2 * RequestTicks
BY HubAssumption DEF RestAge

LEMMA HubIs ==
    ASSUME copies' \in [Pairs -> Copies], \A s \in Pairs : WellAged(copies'[s]),
           streamed' \in [Pairs -> StreamAges], linked' \in BOOLEAN, labelled' \in BOOLEAN,
           observer' \in ObserverSteps,
           spent' \in 0..RequestTicks, sinceRest' \in 0..RestInterval, fetched' \in Nat,
           AtSecond' => fetched' <= RequestTicks + spent'
    PROVE  HubInv'
<1>1. \A s \in Pairs : /\ copies'[s].age \in Nat /\ copies'[s].since \in 0..CopyAge + 1
                       /\ copies'[s].from \in {"none", "stream", "rest"}
    BY DEF Copies
<1>2. HubTypeOK'
    BY <1>1, Zenon DEF HubTypeOK, StreamAges, ObserverSteps
<1> QED
    BY <1>2, Zenon DEF HubInv

LEMMA NoCopyTyped == NoCopy \in Copies /\ NoCopy.from = "none"
BY HubAssumption DEF NoCopy, Copies

LEMMA HubTyped ==
    ASSUME HubInv
    PROVE  /\ copies \in [Pairs -> Copies] /\ fetched \in Nat
           /\ streamed \in [Pairs -> StreamAges] /\ linked \in BOOLEAN /\ labelled \in BOOLEAN
           /\ observer \in ObserverSteps
           /\ spent \in 0..RequestTicks /\ sinceRest \in 0..RestInterval
           /\ AtSecond => fetched <= RequestTicks + spent
BY Zenon DEF HubInv, HubTypeOK, StreamAges, ObserverSteps

LEMMA HubBegins == ASSUME HubInit PROVE HubInv
<1>1. copies \in [Pairs -> Copies] /\ \A s \in Pairs : copies[s] \in Copies /\ copies[s].from = "none"
    BY NoCopyTyped DEF HubInit
<1>2. /\ streamed = [s \in Pairs |-> StreamAge + 1] /\ linked = FALSE /\ labelled = FALSE
      /\ observer \in ObserverSteps /\ ~AtSecond /\ fetched = 0 /\ spent = 0 /\ sinceRest = RestInterval
    BY Zenon DEF HubInit, ObserverSteps, AtSecond
<1>3. streamed \in [Pairs -> StreamAges]
    BY <1>2, HubAssumption DEF StreamAges
<1>4. spent \in 0..RequestTicks /\ sinceRest \in 0..RestInterval
    BY <1>2, HubAssumption
<1>5. HubTypeOK
    <2>1. \A s \in Pairs : /\ copies[s].age \in Nat /\ copies[s].since \in 0..CopyAge + 1
                           /\ copies[s].from \in {"none", "stream", "rest"}
        BY <1>1 DEF Copies
    <2>2. linked \in BOOLEAN /\ labelled \in BOOLEAN
        BY <1>2
    <2> QED
        BY <1>2, <1>3, <1>4, <2>1, <2>2, Zenon DEF HubTypeOK, StreamAges, ObserverSteps
<1>6. \A s \in Pairs : WellAged(copies[s])
    BY <1>1 DEF WellAged
<1>7. fetched \in Nat /\ ~AtSecond
    BY <1>2
<1> QED
    BY <1>1, <1>5, <1>6, <1>7, Zenon DEF HubInv

LEMMA HubTickKeeps == ASSUME HubInv, HubTick PROVE HubInv'
<1> USE HubAssumption
<1>1. /\ streamed \in [Pairs -> StreamAges] /\ linked \in BOOLEAN /\ labelled \in BOOLEAN
      /\ observer \in ObserverSteps
      /\ spent \in 0..RequestTicks /\ sinceRest \in 0..RestInterval /\ fetched \in Nat
      /\ AtSecond => fetched <= RequestTicks + spent
    BY HubTyped
<1>2. /\ UNCHANGED <<linked, labelled, observer>>
      /\ streamed' = [s \in Pairs |-> IF streamed[s] > StreamAge THEN streamed[s] ELSE streamed[s] + 1]
      /\ fetched' = IF AtSecond THEN fetched + 1 ELSE fetched
      /\ spent' = IF Asking THEN spent + 1 ELSE spent
      /\ Asking => spent < RequestTicks
      /\ AtSecond => Asking
      /\ AtSecond' <=> AtSecond
      /\ sinceRest' = IF sinceRest < RestInterval THEN sinceRest + 1 ELSE sinceRest
    BY Zenon DEF HubTick, AtSecond, Asking
<1>3. streamed' \in [Pairs -> StreamAges]
    <2>1. ASSUME NEW s \in Pairs PROVE streamed'[s] \in StreamAges
        <3>1. streamed[s] \in StreamAges
            BY <1>1
        <3> QED
            BY <1>2, <3>1 DEF StreamAges
    <2> QED
        BY <1>2, <2>1
<1>4. spent' \in 0..RequestTicks /\ (AtSecond => spent' = spent + 1)
    BY <1>1, <1>2
<1>5. sinceRest' \in 0..RestInterval
    BY <1>1, <1>2
<1>6. fetched' \in Nat /\ (AtSecond' => fetched' <= RequestTicks + spent')
    BY <1>1, <1>2, <1>4
<1>7. ASSUME NEW s \in Pairs PROVE copies'[s] \in Copies /\ WellAged(copies'[s])
    <2>1. copies[s] \in Copies /\ WellAged(copies[s])
        BY Zenon DEF HubInv
    <2>2. copies'[s] = IF copies[s].since >= CopyAge THEN NoCopy
                       ELSE [copies[s] EXCEPT !.age = @ + 1, !.since = @ + 1]
        BY Zenon DEF HubTick
    <2> HIDE DEF HubInv, HubTick
    <2>3. CASE copies'[s] = NoCopy
        BY <2>3, NoCopyTyped DEF WellAged
    <2>4. CASE copies'[s] # NoCopy
        <3>1. PICK c : c = copies[s]
            OBVIOUS
        <3>2. /\ c.age \in Nat /\ c.since \in Nat /\ c.since < CopyAge
              /\ c.from \in {"none", "stream", "rest"}
              /\ c = [age |-> c.age, since |-> c.since, from |-> c.from]
            BY <2>1, <2>2, <2>4, <3>1 DEF Copies
        <3>3. copies'[s] = [age |-> c.age + 1, since |-> c.since + 1, from |-> c.from]
            BY <2>2, <2>4, <3>1, <3>2
        <3> QED
            BY <2>1, <3>1, <3>2, <3>3, RestAgeIs DEF Copies, WellAged
    <2> QED
        BY <2>3, <2>4
<1>8. copies' \in [Pairs -> Copies]
    <2>1. copies' = [s \in Pairs |-> copies'[s]]
        BY Zenon DEF HubTick
    <2> QED
        BY <1>7, <2>1
<1> QED
    BY <1>1, <1>2, <1>3, <1>4, <1>5, <1>6, <1>7, <1>8, HubIs

\* Copies that are well made keep the invariant, with an observer that rests.
LEMMA CopiesKeep ==
    ASSUME HubInv, copies' \in [Pairs -> Copies],
           \A s \in Pairs : \/ copies'[s] = copies[s]
                            \/ copies'[s].from = "none"
                            \/ copies'[s].from = "stream" /\ copies'[s].age <= StreamAge
                            \/ copies'[s].from = "rest" /\ copies'[s].age <= RestAge,
           streamed' \in [Pairs -> StreamAges], linked' \in BOOLEAN, labelled' \in BOOLEAN,
           observer' \in ObserverSteps,
           spent' \in 0..RequestTicks, sinceRest' \in 0..RestInterval, fetched' \in Nat,
           AtSecond' => fetched' <= RequestTicks + spent'
    PROVE  HubInv'
<1>1. ASSUME NEW s \in Pairs PROVE WellAged(copies'[s])
    <2>1. CASE copies'[s] = copies[s]
        BY <2>1, Zenon DEF HubInv
    <2>2. CASE copies'[s].from = "none"
        BY <2>2 DEF WellAged
    <2>3. PICK c \in Copies : c = copies'[s]
        OBVIOUS
    <2>4. c.age \in Nat /\ c.since \in Nat /\ StreamAge \in Nat
        BY <2>3, HubAssumption DEF Copies
    <2>5. CASE c.from = "stream" /\ c.age <= StreamAge
        BY <2>3, <2>4, <2>5 DEF WellAged
    <2>6. CASE c.from = "rest" /\ c.age <= RestAge
        BY <2>3, <2>4, <2>6, RestAgeIs DEF WellAged
    <2> QED
        BY <2>1, <2>2, <2>3, <2>5, <2>6
<1> QED
    BY <1>1, HubIs

LEMMA ObserverKeeps ==
    ASSUME HubInv, Observes \/ FetchFirst \/ FetchFails \/ StreamMoves PROVE HubInv'
<1> USE HubAssumption
<1>1. CASE Observes
    <2>1. /\ UNCHANGED <<streamed, linked, copies, fetched, closed>> /\ spent' = 0
          /\ observer' \in ObserverSteps /\ ~AtSecond' /\ labelled' \in {labelled, linked}
          /\ sinceRest' \in {sinceRest, 0}
        BY <1>1, Zenon DEF Observes, ObserverAt, ObserverSteps, AtSecond
    <2>2. labelled' \in BOOLEAN /\ linked' \in BOOLEAN
        BY <2>1, HubTyped, Zenon
    <2>3. sinceRest' \in 0..RestInterval /\ spent' \in 0..RequestTicks
        BY <2>1, HubTyped
    <2> QED
        BY <2>1, <2>2, <2>3, HubTyped, CopiesKeep, Zenon
<1>2. CASE FetchFirst
    <2>1. /\ UNCHANGED <<streamed, linked, copies, labelled, sinceRest, closed>>
          /\ observer' \in ObserverSteps /\ spent' = 0 /\ fetched' \in 0..spent /\ spent \in 0..RequestTicks
        BY <1>2, HubTyped, Zenon DEF FetchFirst, ObserverAt, ObserverSteps
    <2>2. spent' \in 0..RequestTicks /\ fetched' \in Nat /\ fetched' <= RequestTicks + spent'
        BY <2>1
    <2> QED
        BY <2>1, <2>2, HubTyped, CopiesKeep, Zenon
<1>3. CASE FetchFails
    <2>1. /\ UNCHANGED <<streamed, linked, copies, labelled, sinceRest, closed>>
          /\ observer' \in ObserverSteps /\ ~AtSecond' /\ spent' = 0 /\ fetched' = 0
        BY <1>3, Zenon DEF FetchFails, ObserverAt, ObserverSteps, AtSecond
    <2>2. spent' \in 0..RequestTicks /\ fetched' \in Nat
        BY <2>1
    <2> QED
        BY <2>1, <2>2, HubTyped, CopiesKeep, Zenon
<1>4. CASE StreamMoves
    <2>1. /\ UNCHANGED <<copies, labelled, observer, fetched, spent, sinceRest, closed>>
          /\ linked' \in BOOLEAN /\ (AtSecond' <=> AtSecond)
        BY <1>4, HubTyped, Zenon DEF StreamMoves, AtSecond
    <2>2. 0 \in StreamAges /\ StreamAge + 1 \in StreamAges
        BY HubAssumption DEF StreamAges
    <2>3. streamed' \in [Pairs -> StreamAges]
        BY <1>4, <2>2, HubTyped DEF StreamMoves
    <2> QED
        BY <2>1, <2>3, HubTyped, CopiesKeep, Zenon
<1> QED
    BY <1>1, <1>2, <1>3, <1>4

LEMMA ReadStreamKeeps ==
    ASSUME HubInv, NEW s \in Pairs, ReadStream(s) PROVE HubInv'
<1> USE HubAssumption
<1>1. /\ UNCHANGED <<streamed, linked, labelled, fetched, sinceRest, closed>> /\ spent' = 0
      /\ observer' \in ObserverSteps /\ ~AtSecond'
    BY Zenon DEF ReadStream, ObserverAt, ObserverSteps, AtSecond
<1>0. spent' \in 0..RequestTicks
    BY <1>1
<1>2. CASE copies' = copies
    BY <1>0, <1>1, <1>2, HubTyped, CopiesKeep, Zenon
<1>3. CASE StreamServes(s) /\ copies' = [copies EXCEPT ![s] = CopyOf(streamed[s], "stream")]
    <2>1. streamed[s] \in Nat /\ streamed[s] <= StreamAge
        <3>1. streamed[s] \in StreamAges /\ streamed[s] <= StreamAge
            BY <1>3, HubTyped, Zenon DEF StreamServes
        <3> QED
            BY <3>1 DEF StreamAges
    <2>2. CopyOf(streamed[s], "stream") \in Copies
        BY <2>1 DEF CopyOf, Copies
    <2>3. /\ copies' \in [Pairs -> Copies] /\ \A r \in Pairs \ {s} : copies'[r] = copies[r]
          /\ copies'[s].from = "stream" /\ copies'[s].age <= StreamAge
        BY <1>3, <2>1, <2>2, HubTyped DEF CopyOf
    <2> QED
        BY <1>0, <1>1, <2>3, HubTyped, CopiesKeep, Zenon
<1> QED
    BY <1>2, <1>3, Zenon DEF ReadStream

LEMMA FetchSecondKeeps == ASSUME HubInv, FetchSecond PROVE HubInv'
<1> USE HubAssumption
<1>1. /\ UNCHANGED <<streamed, linked, labelled, sinceRest, closed>> /\ spent' = 0
      /\ observer' \in ObserverSteps /\ ~AtSecond' /\ fetched' = 0
    BY Zenon DEF FetchSecond, ObserverAt, ObserverSteps, AtSecond
<1>2. PICK age \in 0..spent :
          copies' = [s \in Pairs |-> CopyOf(IF s = "BTC" THEN fetched ELSE age, "rest")]
    BY Zenon DEF FetchSecond
<1>3. spent \in 0..RequestTicks /\ fetched \in Nat /\ fetched <= RequestTicks + spent
    BY HubTyped, Zenon DEF FetchSecond, AtSecond
<1>4. /\ fetched <= RestAge /\ age \in Nat /\ age <= RestAge
    BY <1>2, <1>3 DEF RestAge
<1>5. \A s \in Pairs : /\ copies'[s] \in Copies
                       /\ copies'[s].from = "rest" /\ copies'[s].age <= RestAge
    BY <1>2, <1>3, <1>4 DEF CopyOf, Copies
<1>6. copies' \in [Pairs -> Copies]
    BY <1>2, <1>5
<1>7. spent' \in 0..RequestTicks /\ fetched' \in Nat
    BY <1>1
<1> QED
    BY <1>1, <1>5, <1>6, <1>7, HubTyped, CopiesKeep, Zenon

LEMMA CloseHubKeeps == ASSUME HubInv, CloseHub PROVE HubInv'
<1>1. /\ copies' = [s \in Pairs |-> NoCopy] /\ streamed' = [s \in Pairs |-> StreamAge + 1]
      /\ linked' = FALSE /\ labelled' = FALSE /\ UNCHANGED <<observer, fetched, spent, sinceRest>>
      /\ (AtSecond' <=> AtSecond)
    BY Zenon DEF CloseHub, AtSecond
<1>2. copies' \in [Pairs -> Copies] /\ \A s \in Pairs : copies'[s].from = "none"
    BY <1>1, NoCopyTyped
<1>3. streamed' \in [Pairs -> StreamAges]
    BY <1>1, HubAssumption DEF StreamAges
<1> QED
    BY <1>1, <1>2, <1>3, HubTyped, CopiesKeep, Zenon

LEMMA HubSteps == ASSUME HubInv, HubNext \/ UNCHANGED hubVars PROVE HubInv'
<1>1. CASE UNCHANGED hubVars
    BY <1>1, Zenon DEF hubVars, HubInv, HubTypeOK, AtSecond, WellAged
<1> QED
    BY <1>1, HubTickKeeps, ObserverKeeps, ReadStreamKeeps, FetchSecondKeeps, CloseHubKeeps DEF HubNext

LEMMA HubInvSays == ASSUME HubInv PROVE HubTypeOK /\ ServedIsRecent
<1>1. ASSUME Fresh, NEW s \in Pairs
      PROVE  /\ copies[s].from = "stream" => copies[s].age <= StreamAge + CopyAge
             /\ copies[s].from = "rest" => copies[s].age <= RestAge + CopyAge
    <2>1. PICK c \in Copies : c = copies[s]
        BY HubTyped, Zenon
    <2>2. c.age \in Nat /\ c.since \in Nat /\ c.since <= CopyAge /\ WellAged(c)
        BY <1>1, <2>1 DEF HubInv, Fresh, FreshCopy, Copies
    <2> QED
        BY <2>1, <2>2, RestAgeIs, HubAssumption DEF WellAged
<1> QED
    BY <1>1, RestAgeIs DEF HubInv, ServedIsRecent

\* The collector's parts are inductive as they stand: a sample is taken of all the
\* symbols at one second or of none, and of quotes younger than their limit.
CollectorInv == CollectorTypeOK /\ SamplesAreWhole /\ SamplesAreFresh

\* A time of a table has all its symbols or none.
Sampled(R, s, t) == \E row \in R : row.symbol = s /\ row.stamp = t
WholeTable(R) == \A row \in R : {other.symbol : other \in {x \in R : x.stamp = row.stamp}} = Tracked

LEMMA WholeIs ==
    ASSUME NEW R
    PROVE  WholeTable(R) <=> /\ \A row \in R : row.symbol \in Tracked
                        /\ \A row \in R : \A s \in Tracked : Sampled(R, s, row.stamp)
<1>1. ASSUME WholeTable(R), NEW row \in R
      PROVE  row.symbol \in Tracked /\ \A s \in Tracked : Sampled(R, s, row.stamp)
    <2>1. {other.symbol : other \in {x \in R : x.stamp = row.stamp}} = Tracked
        BY <1>1 DEF WholeTable
    <2> QED
        BY <2>1 DEF Sampled
<1>2. ASSUME \A row \in R : row.symbol \in Tracked,
             \A row \in R : \A s \in Tracked : Sampled(R, s, row.stamp)
      PROVE WholeTable(R)
    <2> SUFFICES ASSUME NEW row \in R
                 PROVE  {other.symbol : other \in {x \in R : x.stamp = row.stamp}} = Tracked
        BY DEF WholeTable
    <2>1. \A s \in Tracked : Sampled(R, s, row.stamp)
        BY <1>2
    <2> QED
        BY <1>2, <2>1 DEF Sampled
<1> QED
    BY <1>1, <1>2

LEMMA CollectorBegins == ASSUME CollectorInit PROVE CollectorInv
<1> USE CollectorAssumption
<1>1. rows = {}
    BY DEF CollectorInit
<1>2. SamplesAreWhole /\ SamplesAreFresh
    BY <1>1 DEF SamplesAreWhole, SamplesAreFresh
<1>3. latest \in [Tracked -> 0..Never]
    <2>1. Never \in 0..Never
        BY DEF Never
    <2> QED
        BY <2>1 DEF CollectorInit
<1>4. untilSample \in 0..PollInterval /\ wall \in 0..MaxWall
    BY DEF CollectorInit
<1>5. collector \in {"connecting", "streaming"} /\ turned \in BOOLEAN
    BY DEF CollectorInit
<1> QED
    BY <1>2, <1>3, <1>4, <1>5 DEF CollectorInv, CollectorTypeOK

LEMMA RowsStay == ASSUME CollectorInv, UNCHANGED rows PROVE SamplesAreWhole' /\ SamplesAreFresh'
BY DEF CollectorInv, SamplesAreWhole, SamplesAreFresh

\* Either the wall clock stands on a time that was sampled, and nothing is
\* written, or every symbol is.
LEMMA SampleKeeps ==
    ASSUME CollectorInv, ~AnyStale, Complete, rows' = rows \union Written
    PROVE  SamplesAreWhole' /\ SamplesAreFresh'
<1> DEFINE R == rows \union Written
<1>1. ASSUME NEW s \in Tracked PROVE latest[s] < StaleAfter
    <2>1. latest[s] \in 0..Never /\ latest[s] # Never /\ ~(StaleAfter <= latest[s])
        BY <1>1 DEF CollectorInv, CollectorTypeOK, Complete, AnyStale, Stale
    <2> QED
        BY <2>1, CollectorAssumption DEF Never
<1>2. ASSUME NEW row \in Written
      PROVE  row.symbol \in Tracked /\ row.stamp = wall /\ row.age = latest[row.symbol]
    BY DEF Written
<1>3. SamplesAreFresh'
    BY <1>1, <1>2 DEF CollectorInv, SamplesAreFresh
<1>4. ASSUME NEW s \in Tracked, ~Sampled(rows, s, wall)
      PROVE  Sampled(R, s, wall)
    <2>1. [symbol |-> s, stamp |-> wall, age |-> latest[s]] \in Written
        BY <1>4 DEF Written, Taken, Sampled
    <2> QED
        BY <2>1 DEF Sampled
<1>5. \A row \in rows : row.symbol \in Tracked /\ \A s \in Tracked : Sampled(rows, s, row.stamp)
    <2>1. WholeTable(rows)
        BY DEF CollectorInv, SamplesAreWhole, WholeTable
    <2> QED
        BY <2>1, WholeIs
<1>6. ASSUME NEW s, NEW t, Sampled(rows, s, t) PROVE Sampled(R, s, t)
    BY <1>6 DEF Sampled
<1>7. \A s \in Tracked : Sampled(R, s, wall)
    BY <1>4, <1>6
<1>8. ASSUME NEW row \in R
      PROVE  row.symbol \in Tracked /\ \A s \in Tracked : Sampled(R, s, row.stamp)
    <2>1. CASE row \in rows
        BY <1>5, <1>6, <2>1
    <2>2. CASE row \in Written
        BY <1>2, <1>7, <2>2
    <2> QED
        BY <2>1, <2>2
<1>9. WholeTable(R)
    <2> HIDE DEF R
    <2> QED
        BY <1>8, WholeIs
<1> QED
    BY <1>3, <1>9 DEF SamplesAreWhole, WholeTable

\* Rows are cut by their time, so the samples that stay are whole.
LEMMA CleanupKeeps ==
    ASSUME CollectorInv, Cleanup
    PROVE  SamplesAreWhole' /\ SamplesAreFresh'
<1> DEFINE R == {row \in rows : row.stamp >= wall - Retention}
<1>1. rows' = R
    BY DEF Cleanup
<1>2. SamplesAreFresh'
    BY <1>1 DEF CollectorInv, SamplesAreFresh
<1>3. \A row \in rows : row.symbol \in Tracked /\ \A s \in Tracked : Sampled(rows, s, row.stamp)
    <2>1. WholeTable(rows)
        BY DEF CollectorInv, SamplesAreWhole, WholeTable
    <2> QED
        BY <2>1, WholeIs
<1>4. ASSUME NEW row \in R
      PROVE  row.symbol \in Tracked /\ \A s \in Tracked : Sampled(R, s, row.stamp)
    <2>1. ASSUME NEW s \in Tracked PROVE Sampled(R, s, row.stamp)
        <3>1. PICK other \in rows : other.symbol = s /\ other.stamp = row.stamp
            BY <1>3 DEF Sampled
        <3>2. other \in R
            BY <3>1
        <3> HIDE DEF R
        <3> QED
            BY <3>1, <3>2 DEF Sampled
    <2> QED
        BY <1>3, <2>1
<1>5. WholeTable(R)
    <2> HIDE DEF R
    <2> QED
        BY <1>4, WholeIs
<1> QED
    BY <1>1, <1>2, <1>5 DEF SamplesAreWhole, WholeTable

LEMMA CollectorSteps == ASSUME CollectorInv, CollectorNext \/ UNCHANGED collectorVars PROVE CollectorInv'
<1> USE CollectorAssumption
<1>0. /\ collector \in {"connecting", "streaming"} /\ latest \in [Tracked -> 0..Never]
      /\ untilSample \in 0..PollInterval /\ wall \in 0..MaxWall /\ turned \in BOOLEAN
      /\ 0 \in 0..Never /\ Never \in 0..Never
    BY DEF CollectorInv, CollectorTypeOK, Never
<1>1. CASE CollectorTick
    <2>1. \A s \in Tracked : Aged(latest[s]) \in 0..Never
        BY <1>0 DEF Aged, Never
    <2>2. latest' \in [Tracked -> 0..Never]
        BY <1>0, <1>1, <2>1 DEF CollectorTick
    <2>3. untilSample' \in 0..PollInterval
        BY <1>0, <1>1 DEF CollectorTick
    <2>4. wall' \in 0..MaxWall
        BY <1>0, <1>1 DEF CollectorTick
    <2>5. UNCHANGED <<collector, rows>> /\ turned' \in BOOLEAN
        BY <1>1 DEF CollectorTick
    <2> QED
        BY <1>0, <2>2, <2>3, <2>4, <2>5, RowsStay DEF CollectorInv, CollectorTypeOK
<1>2. CASE SetWall \/ LinkDown \/ UNCHANGED collectorVars
    <2>1. /\ UNCHANGED <<latest, untilSample, rows, turned>> /\ wall' \in 0..MaxWall
          /\ collector' \in {"connecting", "streaming"}
        BY <1>0, <1>2 DEF SetWall, LinkDown, collectorVars
    <2> QED
        BY <1>0, <2>1, RowsStay DEF CollectorInv, CollectorTypeOK
<1>3. CASE LinkUp
    <2>1. /\ UNCHANGED <<wall, rows>> /\ collector' = "streaming" /\ turned' = FALSE
          /\ latest' \in [Tracked -> 0..Never] /\ untilSample' \in 0..PollInterval
        BY <1>0, <1>3 DEF LinkUp
    <2> QED
        BY <1>0, <2>1, RowsStay DEF CollectorInv, CollectorTypeOK
<1>4. ASSUME NEW s \in Tracked, PriceComes(s) PROVE CollectorInv'
    <2>1. /\ UNCHANGED <<collector, untilSample, wall, rows>> /\ turned' = FALSE
          /\ latest' \in [Tracked -> 0..Never]
        BY <1>0, <1>4 DEF PriceComes
    <2> QED
        BY <1>0, <2>1, RowsStay DEF CollectorInv, CollectorTypeOK
<1>5. CASE Turn
    <2>1. /\ UNCHANGED <<latest, wall>> /\ collector' \in {"connecting", "streaming"} /\ turned' = TRUE
          /\ untilSample' \in 0..PollInterval
        BY <1>0, <1>5 DEF Turn
    <2>2. SamplesAreWhole' /\ SamplesAreFresh'
        BY <1>5, RowsStay, SampleKeeps DEF Turn
    <2> QED
        BY <1>0, <2>1, <2>2 DEF CollectorInv, CollectorTypeOK
<1>6. CASE Cleanup
    BY <1>0, <1>6, CleanupKeeps DEF CollectorInv, CollectorTypeOK, Cleanup
<1> QED
    BY <1>1, <1>2, <1>3, <1>4, <1>5, <1>6 DEF CollectorNext

\* The book that is kept is one the exchange had, at the update it names; a
\* push on its way, or in hand, is of updates there were.
Pushes == [first : 1..MaxUpdates, last : 1..MaxUpdates]
UpdateRecords == [level : Levels, empty : BOOLEAN]
ReaderSteps == {"wait", "receive", "bootstrap", "compare", "bootstrap again", "compare again", "ended"}
Comparing == reader \in {"bootstrap", "compare", "bootstrap again", "compare again"}
DepthInv ==
    /\ updates \in Seq(UpdateRecords) /\ Len(updates) <= MaxUpdates
    /\ pushed \in 0..Len(updates)
    /\ bookAge \in 0..BookMaxAge + 1 /\ connected \in BOOLEAN /\ closing \in {"no", "asked", "done"}
    /\ reader \in ReaderSteps
    /\ inbox \in Seq(Pushes) /\ \A i \in 1..Len(inbox) : inbox[i].last <= Len(updates)
    /\ Comparing => inHand \in Pushes /\ inHand.last <= Len(updates)
    /\ book = NoBook \/ \E v \in 0..Len(updates) : book = ExchangeBook(v)
    /\ closing = "done" => ~connected

\* The greatest of some numbers up to v is one of them.
LEMMA GreatestIsIn ==
    ASSUME NEW v \in Nat, NEW S \in SUBSET (1..v), S # {}
    PROVE  Max(S) \in S
<1> DEFINE D == {v - x : x \in S}
<1>1. D \subseteq Nat /\ D # {}
    <2>1. ASSUME NEW x \in S PROVE v - x \in Nat /\ v - x \in D
        OBVIOUS
    <2>2. PICK x : x \in S
        OBVIOUS
    <2> QED
        BY <2>1, <2>2
<1>2. PICK d \in D : \A e \in D : ~(<<e, d>> \in OpToRel(<, Nat))
    BY <1>1, WFMin, NatLessThanWellFounded, Zenon
<1>3. \A e \in D : ~(e < d)
    BY <1>1, <1>2 DEF OpToRel
<1>4. PICK x \in S : d = v - x
    BY <1>2
<1>5. \A y \in S : x >= y
    <2> SUFFICES ASSUME NEW y \in S PROVE x >= y
        OBVIOUS
    <2>1. ~(v - y < v - x)
        BY <1>3, <1>4
    <2> QED
        BY <2>1
<1> QED
    BY <1>4, <1>5 DEF Max

\* A level shows the same after two counts of updates between which none is of
\* it, and updates that come later change nothing.
LEMMA LevelStays ==
    ASSUME NEW v \in Nat, NEW w \in Nat, v <= w, NEW l,
           \A i \in (v + 1)..w : updates[i].level # l
    PROVE  At(v, l) = At(w, l)
<1>1. {i \in 1..v : updates[i].level = l} = {i \in 1..w : updates[i].level = l}
    OBVIOUS
<1> QED
    BY <1>1 DEF At

LEMMA LevelIsPast ==
    ASSUME updates \in Seq(UpdateRecords), NEW u, updates' = Append(updates, u),
           NEW v \in 0..Len(updates), NEW l
    PROVE  At(v, l)' = At(v, l)
<1> DEFINE of == {i \in 1..v : updates[i].level = l}
           later == {i \in 1..v : updates'[i].level = l}
<1>1. v \in Nat /\ \A i \in 1..v : updates'[i] = updates[i]
    OBVIOUS
<1>2. of = later /\ of \in SUBSET (1..v)
    BY <1>1
<1>3. of # {} => updates'[Max(of)] = updates[Max(of)]
    <2> HIDE DEF of
    <2> QED
        BY <1>1, <1>2, GreatestIsIn
<1>4. At(v, l) = IF of = {} \/ updates[Max(of)].empty THEN 0 ELSE Max(of)
    BY DEF At
<1>5. At(v, l)' = IF later = {} \/ updates'[Max(later)].empty THEN 0 ELSE Max(later)
    BY DEF At
<1> HIDE DEF of, later
<1> QED
    BY <1>2, <1>3, <1>4, <1>5

LEMMA BookIsPast ==
    ASSUME updates \in Seq(UpdateRecords), NEW u, updates' = Append(updates, u),
           NEW v \in 0..Len(updates)
    PROVE  ExchangeBook(v)' = ExchangeBook(v)
BY LevelIsPast DEF ExchangeBook

LEMMA DepthBegins == ASSUME DepthInit PROVE DepthInv
<1>1. updates \in Seq(UpdateRecords) /\ inbox \in Seq(Pushes) /\ Len(updates) = 0 /\ Len(inbox) = 0
    BY DEF DepthInit
<1>2. pushed \in 0..Len(updates) /\ bookAge \in 0..BookMaxAge + 1 /\ Len(updates) <= MaxUpdates
    BY <1>1, DepthAssumption DEF DepthInit
<1>3. /\ connected = FALSE /\ closing = "no" /\ reader \in ReaderSteps /\ ~Comparing /\ book = NoBook
    BY Zenon DEF DepthInit, ReaderSteps, Comparing
<1>4. \A i \in 1..Len(inbox) : inbox[i].last <= Len(updates)
    BY <1>1
<1> QED
    BY <1>1, <1>2, <1>3, <1>4, Zenon DEF DepthInv

LEMMA UpdateKeeps == ASSUME DepthInv, Update PROVE DepthInv'
<1>1. PICK u \in UpdateRecords : updates' = Append(updates, u)
    BY DEF Update, UpdateRecords
<1>2. /\ Len(updates) < MaxUpdates /\ updates \in Seq(UpdateRecords)
      /\ UNCHANGED <<inbox, pushed, book, bookAge, connected, reader, inHand, closing>>
    BY DEF Update, DepthInv
<1>3. /\ updates' \in Seq(UpdateRecords) /\ Len(updates') = Len(updates) + 1
      /\ Len(updates) \in Nat
    BY <1>1, <1>2, AppendProperties
<1>4. Len(updates') <= MaxUpdates /\ 0..Len(updates) \subseteq 0..Len(updates')
    BY <1>2, <1>3, DepthAssumption
<1>5. \A v \in 0..Len(updates) : ExchangeBook(v)' = ExchangeBook(v)
    BY <1>1, <1>2, BookIsPast
<1>6. \A x \in 1..MaxUpdates : x <= Len(updates) => x <= Len(updates')
    BY <1>3
<1>7. pushed' \in 0..Len(updates')
    BY <1>2, <1>4, Zenon DEF DepthInv
<1>8. \A i \in 1..Len(inbox) : inbox[i].last <= Len(updates')
    <2> SUFFICES ASSUME NEW i \in 1..Len(inbox) PROVE inbox[i].last <= Len(updates')
        OBVIOUS
    <2>1. inbox \in Seq(Pushes) /\ inbox[i].last <= Len(updates)
        BY Zenon DEF DepthInv
    <2>2. inbox[i] \in Pushes
        BY <2>1
    <2>3. inbox[i].last \in 1..MaxUpdates
        BY <2>2 DEF Pushes
    <2> QED
        BY <1>6, <2>1, <2>3
<1>9. inHand \in Pushes /\ inHand.last <= Len(updates) => inHand.last <= Len(updates')
    BY <1>6 DEF Pushes
<1>10. Comparing' <=> Comparing
    BY <1>2, Zenon DEF Comparing
<1>11. book' = NoBook \/ \E v \in 0..Len(updates') : book' = ExchangeBook(v)'
    BY <1>2, <1>4, <1>5, Zenon DEF DepthInv
<1> QED
    BY <1>2, <1>3, <1>4, <1>7, <1>8, <1>9, <1>10, <1>11, Zenon DEF DepthInv

LEMMA DepthKeeps ==
    ASSUME DepthInv, UNCHANGED updates, pushed' \in 0..Len(updates), bookAge' \in 0..BookMaxAge + 1,
           connected' \in BOOLEAN, closing' \in {"no", "asked", "done"}, reader' \in ReaderSteps,
           inbox' \in Seq(Pushes), \A i \in 1..Len(inbox') : inbox'[i].last <= Len(updates),
           Comparing' => inHand' \in Pushes /\ inHand'.last <= Len(updates),
           book' = NoBook \/ \E v \in 0..Len(updates) : book' = ExchangeBook(v),
           closing' = "done" => ~connected'
    PROVE  DepthInv'
<1>1. \A v \in 0..Len(updates) : ExchangeBook(v)' = ExchangeBook(v)
    BY DEF ExchangeBook, At
<1> QED
    BY <1>1, Zenon DEF DepthInv

\* The facts of the invariant that concern one variable each.
LEMMA DepthTyped ==
    ASSUME DepthInv
    PROVE  /\ updates \in Seq(UpdateRecords) /\ Len(updates) \in Nat /\ Len(updates) <= MaxUpdates
           /\ pushed \in 0..Len(updates) /\ bookAge \in 0..BookMaxAge + 1
           /\ connected \in BOOLEAN /\ closing \in {"no", "asked", "done"} /\ reader \in ReaderSteps
           /\ inbox \in Seq(Pushes) /\ \A i \in 1..Len(inbox) : inbox[i].last <= Len(updates)
           /\ Comparing => inHand \in Pushes /\ inHand.last <= Len(updates)
           /\ book = NoBook \/ \E v \in 0..Len(updates) : book = ExchangeBook(v)
           /\ closing = "done" => ~connected
<1>1. updates \in Seq(UpdateRecords)
    BY Zenon DEF DepthInv
<1>2. Len(updates) \in Nat
    BY <1>1
<1> QED
    BY <1>1, <1>2, Zenon DEF DepthInv

LEMMA PushKeeps == ASSUME DepthInv, Push PROVE DepthInv'
<1> DEFINE p == [first |-> pushed + 1, last |-> Len(updates)]
<1>1. /\ UNCHANGED <<updates, book, bookAge, connected, reader, inHand, closing>>
      /\ pushed < Len(updates) /\ pushed' = Len(updates)
      /\ inbox' = inbox \/ inbox' = Append(inbox, p)
    BY Zenon DEF Push
<1>2. pushed' \in 0..Len(updates)
    BY <1>1, DepthTyped
<1>3. p \in Pushes /\ p.last <= Len(updates)
    <2>1. pushed + 1 \in 1..MaxUpdates /\ Len(updates) \in 1..MaxUpdates
        BY <1>1, DepthTyped, DepthAssumption
    <2> QED
        BY <2>1 DEF Pushes
<1>4. inbox \in Seq(Pushes) /\ \A i \in 1..Len(inbox) : inbox[i].last <= Len(updates)
    BY DepthTyped
<1>5. inbox' \in Seq(Pushes) /\ \A i \in 1..Len(inbox') : inbox'[i].last <= Len(updates)
    <2>1. CASE inbox' = inbox
        BY <1>4, <2>1
    <2>2. CASE inbox' = Append(inbox, p)
        <3> HIDE DEF p
        <3>1. /\ inbox' \in Seq(Pushes) /\ Len(inbox') = Len(inbox) + 1
              /\ inbox'[Len(inbox) + 1] = p
              /\ \A i \in 1..Len(inbox) : inbox'[i] = inbox[i]
            BY <1>3, <1>4, <2>2, AppendProperties
        <3>2. Len(inbox) \in Nat
            BY <1>4
        <3> SUFFICES ASSUME NEW i \in 1..Len(inbox') PROVE inbox'[i].last <= Len(updates)
            BY <3>1
        <3>3. i = Len(inbox) + 1 \/ i \in 1..Len(inbox)
            BY <3>1, <3>2
        <3> QED
            BY <1>3, <1>4, <3>1, <3>3
    <2> QED
        BY <1>1, <2>1, <2>2
<1>6. Comparing' <=> Comparing
    BY <1>1, Zenon DEF Comparing
<1> QED
    BY <1>1, <1>2, <1>5, <1>6, DepthTyped, DepthKeeps, Zenon

LEMMA TimeKeeps == ASSUME DepthInv, DepthTick PROVE DepthInv'
<1>1. /\ UNCHANGED <<updates, inbox, pushed, book, connected, reader, inHand, closing>>
      /\ bookAge' = IF bookAge > BookMaxAge THEN bookAge ELSE bookAge + 1
    BY Zenon DEF DepthTick
<1>2. bookAge' \in 0..BookMaxAge + 1
    <2>1. bookAge \in 0..BookMaxAge + 1 /\ BookMaxAge \in Nat
        BY DepthTyped, DepthAssumption, Zenon
    <2> QED
        BY <1>1, <2>1
<1>3. Comparing' <=> Comparing
    BY <1>1, Zenon DEF Comparing
<1> QED
    BY <1>1, <1>2, <1>3, DepthTyped, DepthKeeps, Zenon

LEMMA ConnectKeeps == ASSUME DepthInv, Connect PROVE DepthInv'
<1>1. /\ UNCHANGED <<updates, book, bookAge, inHand, closing>>
      /\ \/ UNCHANGED <<inbox, pushed, connected>> /\ reader' = "ended"
         \/ UNCHANGED <<inbox, pushed, connected, reader>>
         \/ /\ connected' = TRUE /\ closing = "no" /\ reader' = "receive"
            /\ inbox' = <<>> /\ pushed' = Len(updates)
    BY Zenon DEF Connect, ReaderAt
<1>2. ~Comparing' /\ reader' \in ReaderSteps
    <2>1. reader = "wait"
        BY Zenon DEF Connect
    <2> QED
        BY <1>1, <2>1, Zenon DEF Comparing, ReaderSteps
<1>3. pushed' \in 0..Len(updates)
    <2>1. Len(updates) \in 0..Len(updates)
        BY DepthTyped
    <2> QED
        BY <1>1, <2>1, DepthTyped, Zenon
<1>4. inbox' \in Seq(Pushes) /\ \A i \in 1..Len(inbox') : inbox'[i].last <= Len(updates)
    <2>1. CASE inbox' = <<>>
        BY <2>1
    <2>2. CASE inbox' = inbox
        BY <2>2, DepthTyped, Zenon
    <2> QED
        BY <1>1, <2>1, <2>2, Zenon
<1>5. connected' \in BOOLEAN /\ (closing' = "done" => ~connected')
    <2>1. CASE UNCHANGED <<connected, closing>>
        BY <2>1, DepthTyped, Zenon
    <2>2. CASE connected' = TRUE /\ closing = "no" /\ UNCHANGED closing
        <3>1. closing' # "done"
            BY <2>2
        <3> QED
            BY <2>2, <3>1, Zenon
    <2> QED
        BY <1>1, <2>1, <2>2, Zenon
<1> QED
    BY <1>1, <1>2, <1>3, <1>4, <1>5, DepthTyped, DepthKeeps, Zenon

LEMMA DisconnectKeeps == ASSUME DepthInv, Disconnect PROVE DepthInv'
<1>1. /\ UNCHANGED <<updates, pushed, bookAge, closing>> /\ book' = NoBook /\ connected' = FALSE
      /\ reader' \in ReaderSteps /\ ~Comparing' /\ inbox' = <<>>
    BY Zenon DEF Disconnect, Forget, ReaderAt, ReaderSteps, Comparing
<1>2. inbox' \in Seq(Pushes) /\ \A i \in 1..Len(inbox') : inbox'[i].last <= Len(updates)
    BY <1>1
<1>3. connected' \in BOOLEAN
    BY <1>1
<1> QED
    BY <1>1, <1>2, <1>3, DepthTyped, DepthKeeps, Zenon

LEMMA ReceiveKeeps == ASSUME DepthInv, Receive PROVE DepthInv'
<1>1. /\ UNCHANGED <<updates, pushed, book, bookAge, connected, closing>>
      /\ inbox # <<>> /\ inHand' = Head(inbox) /\ inbox' = Tail(inbox)
    BY Zenon DEF Receive
<1>2. reader' \in ReaderSteps
    BY Zenon DEF Receive, ReaderAt, ReaderSteps
<1>3. inbox \in Seq(Pushes) /\ \A i \in 1..Len(inbox) : inbox[i].last <= Len(updates)
    BY DepthTyped
<1>4. inHand' \in Pushes /\ inHand'.last <= Len(updates)
    BY <1>1, <1>3
<1>5. inbox' \in Seq(Pushes) /\ \A i \in 1..Len(inbox') : inbox'[i].last <= Len(updates)
    <2>1. /\ inbox' \in Seq(Pushes) /\ Len(inbox') = Len(inbox) - 1
          /\ \A i \in 1..Len(inbox') : inbox'[i] = inbox[i + 1] /\ i + 1 \in 1..Len(inbox)
        BY <1>1, <1>3
    <2> QED
        BY <1>3, <2>1
<1> QED
    BY <1>1, <1>2, <1>4, <1>5, DepthTyped, DepthKeeps, Zenon

\* A snapshot is a book the exchange had, though not always its last.
LEMMA BootstrapKeeps == ASSUME DepthInv, Bootstrap PROVE DepthInv'
<1>1. CASE Disconnect
    BY <1>1, DisconnectKeeps
<1>2. CASE /\ \E v \in 0..Len(updates) : book' = ExchangeBook(v)
           /\ bookAge' = 0
           /\ ReaderAt(IF reader = "bootstrap" THEN "compare" ELSE "compare again")
           /\ UNCHANGED <<updates, inbox, pushed, connected, inHand, closing>>
    <2>1. reader' \in ReaderSteps /\ Comparing
        BY <1>2, Zenon DEF Bootstrap, ReaderAt, ReaderSteps, Comparing
    <2>2. bookAge' \in 0..BookMaxAge + 1
        <3>1. bookAge' = 0
            BY <1>2, Zenon
        <3> QED
            BY <3>1, DepthAssumption
    <2> QED
        BY <1>2, <2>1, <2>2, DepthTyped, DepthKeeps, Zenon
<1> QED
    BY <1>1, <1>2, Zenon DEF Bootstrap

\* What a push does not change is the same after its last update: none of the
\* updates since the book is missing from it.
LEMMA AppliedIsTrue ==
    ASSUME DepthInv, inHand \in Pushes, inHand.last <= Len(updates), Follows(inHand)
    PROVE  Applied(inHand) = ExchangeBook(inHand.last)
<1>1. PICK n, w : n = inHand.first /\ w = inHand.last
    OBVIOUS
<1>2. n \in Nat /\ n >= 1 /\ w \in Nat /\ w <= Len(updates) /\ Len(updates) \in Nat
    BY <1>1, DepthTyped DEF Pushes
<1>3. n <= book.id + 1 /\ book.id + 1 <= w
    BY <1>1 DEF Follows
<1>4. PICK v \in 0..Len(updates) : book = ExchangeBook(v)
    <2>1. book # NoBook
        BY <1>2, <1>3 DEF NoBook, NoId
    <2> QED
        BY <2>1, DepthTyped, Zenon
<1>5. book.id = v /\ \A l \in Levels : book.qty[l] = At(v, l)
    BY <1>4 DEF ExchangeBook
<1>6. v \in Nat /\ v <= w /\ n <= v + 1
    BY <1>2, <1>3, <1>4, <1>5
<1>7. ASSUME NEW l \in Levels, l \notin ChangedIn(inHand) PROVE book.qty[l] = At(w, l)
    <2>1. \A i \in n..w : updates[i].level # l
        BY <1>1, <1>7 DEF ChangedIn
    <2>2. \A i \in (v + 1)..w : updates[i].level # l
        BY <1>2, <1>6, <2>1
    <2>3. At(v, l) = At(w, l)
        BY <1>2, <1>6, <2>2, LevelStays
    <2> QED
        BY <1>5, <2>3
<1>8. [l \in Levels |-> IF l \in ChangedIn(inHand) THEN At(w, l) ELSE book.qty[l]]
         = [l \in Levels |-> At(w, l)]
    BY <1>7
<1> QED
    BY <1>1, <1>8 DEF Applied, ExchangeBook

LEMMA CompareKeeps == ASSUME DepthInv, Compare PROVE DepthInv'
<1>1. UNCHANGED <<updates, pushed, closing>> /\ Comparing
    BY Zenon DEF Compare, Comparing
<1>2. inHand \in Pushes /\ inHand.last <= Len(updates)
    BY <1>1, DepthTyped, Zenon
<1>3. CASE /\ UNCHANGED <<inbox, book, bookAge, connected, inHand>>
           /\ reader' \in {"receive", "bootstrap again"}
    <2>1. reader' \in ReaderSteps
        BY <1>3, Zenon DEF ReaderSteps
    <2> QED
        BY <1>1, <1>2, <1>3, <2>1, DepthTyped, DepthKeeps, Zenon
<1>4. CASE /\ Follows(inHand) /\ book' = Applied(inHand) /\ bookAge' = 0
           /\ reader' = "receive" /\ UNCHANGED <<inbox, connected, inHand>>
    <2>1. book' = ExchangeBook(inHand.last)
        BY <1>2, <1>4, AppliedIsTrue, Zenon
    <2>2. inHand.last \in 0..Len(updates)
        BY <1>2, DepthTyped DEF Pushes
    <2>3. reader' \in ReaderSteps
        BY <1>4, Zenon DEF ReaderSteps
    <2>4. bookAge' \in 0..BookMaxAge + 1
        BY <1>4, DepthAssumption
    <2> QED
        BY <1>1, <1>2, <1>4, <2>1, <2>2, <2>3, <2>4, DepthTyped, DepthKeeps, Zenon
<1>5. CASE Forget /\ reader' = "wait" /\ inbox' = <<>> /\ inHand' = NoPush /\ UNCHANGED bookAge
    <2>1. Disconnect
        BY <1>1, <1>5, Zenon DEF Disconnect, ReaderAt
    <2> QED
        BY <2>1, DisconnectKeeps
<1> QED
    BY <1>3, <1>4, <1>5, Zenon DEF Compare, ReaderAt

LEMMA ClosingKeeps == ASSUME DepthInv, AskToClose \/ CloseStream PROVE DepthInv'
<1>1. /\ UNCHANGED <<updates, inbox, pushed, bookAge, reader, inHand>>
      /\ \/ closing' = "asked" /\ UNCHANGED <<book, connected>>
         \/ closing' = "done" /\ book' = NoBook /\ connected' = FALSE
    BY Zenon DEF AskToClose, CloseStream, Forget
<1>2. Comparing' <=> Comparing
    BY <1>1, Zenon DEF Comparing
<1>3. closing' \in {"no", "asked", "done"} /\ connected' \in BOOLEAN /\ (closing' = "done" => ~connected')
    BY <1>1, DepthTyped
<1> QED
    BY <1>1, <1>2, <1>3, DepthTyped, DepthKeeps, Zenon

LEMMA DepthSteps == ASSUME DepthInv, DepthNext \/ UNCHANGED depthVars PROVE DepthInv'
<1>1. CASE UNCHANGED depthVars
    <2>1. /\ UNCHANGED <<updates, inbox, pushed, book, bookAge, connected, reader, inHand, closing>>
          /\ Comparing' <=> Comparing
        BY <1>1, Zenon DEF depthVars, Comparing
    <2> QED
        BY <2>1, DepthTyped, DepthKeeps, Zenon
<1>2. CASE Breaks \/ LeaveLoop
    BY <1>2, DisconnectKeeps, Zenon DEF Breaks, LeaveLoop
<1> QED
    BY <1>1, <1>2, UpdateKeeps, PushKeeps, TimeKeeps, ConnectKeeps, ReceiveKeeps, BootstrapKeeps,
       CompareKeeps, ClosingKeeps, Zenon DEF DepthNext

LEMMA DepthInvSays == ASSUME DepthInv PROVE DepthTypeOK /\ BookIsTrue /\ ClosedServesNothing
<1>1. book = NoBook \/ \E v \in 0..Len(updates) : book = ExchangeBook(v) /\ book.id = v
    <2>1. ASSUME NEW v \in 0..Len(updates), book = ExchangeBook(v)
          PROVE  book.id = v
        BY <2>1 DEF ExchangeBook
    <2>2. CASE book # NoBook
        <3>1. PICK v \in 0..Len(updates) : book = ExchangeBook(v)
            BY <2>2, DepthTyped, Zenon
        <3>2. book.id = v
            BY <2>1, <3>1, Zenon
        <3> QED
            BY <3>1, <3>2
    <2> QED
        BY <2>2
<1>2. BookIsTrue
    <2>1. CASE book = NoBook
        <3>1. book.id = NoId
            BY <2>1 DEF NoBook
        <3> QED
            BY <3>1, Zenon DEF BookIsTrue, Served
    <2>2. CASE \E v \in 0..Len(updates) : book = ExchangeBook(v) /\ book.id = v
        <3>1. PICK v \in 0..Len(updates) : book = ExchangeBook(v) /\ book.id = v
            BY <2>2, Zenon
        <3>2. book = ExchangeBook(book.id)
            BY <3>1, Zenon
        <3> QED
            BY <3>2, Zenon DEF BookIsTrue
    <2> QED
        BY <1>1, <2>1, <2>2, Zenon
<1>3. ClosedServesNothing
    BY DepthTyped, Zenon DEF ClosedServesNothing, Served
<1>4. book.id \in {NoId} \union 0..MaxUpdates
    <2>1. CASE book = NoBook
        BY <2>1 DEF NoBook
    <2>2. CASE \E v \in 0..Len(updates) : book.id = v
        BY <2>2, DepthTyped, DepthAssumption
    <2> QED
        BY <1>1, <2>1, <2>2
<1>5. pushed \in 0..MaxUpdates
    BY DepthTyped, DepthAssumption
<1> QED
    BY <1>2, <1>3, <1>4, <1>5, DepthTyped, Zenon DEF DepthTypeOK, UpdateRecords, ReaderSteps

\* The streams share no state: a step of one leaves the invariants of the others.
StreamsInv == DepthInv /\ OrderInv /\ HubInv /\ CollectorInv

\* What is served is true and recent: a book the exchange had, at the update it
\* names; an order's row of this connection; a copy of the hub no older than its
\* two ages; and samples that are whole, of prices that were heard
\* (src/src/weex_cli/live_websocket, market, and the control center's resources).
THEOREM StreamsServeTruth == PartsSpec => []StreamsAreTrue
<1>1. PartsInit => StreamsInv
    BY DepthBegins, OrderBegins, HubBegins, CollectorBegins DEF PartsInit, StreamsInv
<1>2. ASSUME StreamsInv, [PartsNext]_<<part, vars, streamVars, historyVars>>
      PROVE  StreamsInv'
    <2>1. /\ DepthNext \/ UNCHANGED depthVars
          /\ OrderNext \/ UNCHANGED rowVars
          /\ HubNext \/ UNCHANGED hubVars
          /\ CollectorNext \/ UNCHANGED collectorVars
        BY <1>2, Zenon DEF PartsNext, streamVars
    <2> QED
        BY <1>2, <2>1, DepthSteps, OrderSteps, HubSteps, CollectorSteps DEF StreamsInv
<1>3. StreamsInv => StreamsAreTrue
    <2>1. OrderInv => OrderTypeOK /\ RowIsOfThisConnection /\ AnswerIsRecent
        BY DEF OrderInv
    <2>2. CollectorInv => CollectorTypeOK /\ SamplesAreWhole /\ SamplesAreFresh
        BY DEF CollectorInv
    <2> QED
        BY <2>1, <2>2, DepthInvSays, HubInvSays, Zenon DEF StreamsInv, StreamsAreTrue
<1>4. StreamsInv /\ [PartsNext]_<<part, vars, streamVars, historyVars>> => StreamsInv'
    BY <1>2
<1> QED
    BY <1>1, <1>3, <1>4, PTL DEF PartsSpec

=============================================================================
