----------------------------- MODULE WalletProofs -----------------------------
(***************************************************************************)
(* What holds of the Aptos wallet around its jobs for any number of        *)
(* mnemonics, accounts, entries, past transfers, requests and readers: the *)
(* key and its session, the budget of the chain's reads, the log of one    *)
(* wallet, and the wallets with their groups and balances.  The parts      *)
(* share no state, so each has an inductive invariant of its own.          *)
(***************************************************************************)
EXTENDS MCWallet, FiniteSetTheorems, SequenceTheorems, NaturalsInduction, WellFoundedInduction, TLAPS

(***************************************************************************)
(* The vault                                                               *)
(***************************************************************************)
Calls == [kind : {"none", "initialize", "unlock", "change", "rewrap", "verify", "automate"},
          password : Passwords \cup {NoPassword}, row : Passwords \cup {NoPassword},
          next : Passwords \cup {NoPassword}, was : BOOLEAN]

\* A change of the password that waits for its keys puts the key back when
\* they come: the key has its session only if the session is still there.
VaultInv ==
    /\ VaultTypeOK
    /\ KeyHasSession
    /\ Changing => signedIn

LEMMA VaultTypes ==
    VaultTypeOK <=>
      /\ wrapped \in Passwords \cup {NoPassword}
      /\ unlocked \in BOOLEAN /\ signedIn \in BOOLEAN /\ idleLong \in BOOLEAN
      /\ blocked \in BOOLEAN /\ running \in BOOLEAN
      /\ failures \in 0..FailureLimit
      /\ call \in [Callers -> Calls]
BY Zenon DEF VaultTypeOK, Calls

\* A request that is put in the place of another, or of none.
LEMMA CallTyped ==
    ASSUME NEW c \in Callers, NEW w \in Calls, call \in [Callers -> Calls]
    PROVE [call EXCEPT ![c] = w] \in [Callers -> Calls]
OBVIOUS

LEMMA NoCallTyped == NoCall \in Calls
BY DEF NoCall, Waiting, Calls

LEMMA FailuresTyped ==
    ASSUME failures \in 0..FailureLimit, blocked \in BOOLEAN,
           RecordFailure \/ RecordSuccess \/ UNCHANGED failureVars
    PROVE failures' \in 0..FailureLimit /\ blocked' \in BOOLEAN
<1>1. CASE RecordFailure
    <2>1. failures' \in 0..FailureLimit
        BY <1>1, VaultAssumption DEF RecordFailure
    <2>2. blocked' \in BOOLEAN
        BY <1>1, Zenon DEF RecordFailure
    <2> QED
        BY <2>1, <2>2
<1>2. CASE RecordSuccess
    <2>1. failures' \in 0..FailureLimit
        BY <1>2, VaultAssumption DEF RecordSuccess
    <2>2. blocked' \in BOOLEAN
        BY <1>2, Zenon DEF RecordSuccess
    <2> QED
        BY <2>1, <2>2
<1>3. CASE UNCHANGED failureVars
    BY <1>3 DEF failureVars
<1> QED
    BY <1>1, <1>2, <1>3

\* A step of one request: it takes the place w, and the rest stays typed.
LEMMA VaultRest ==
    ASSUME VaultInv, NEW c \in Callers, NEW w \in Calls,
           call' = [call EXCEPT ![c] = w],
           wrapped' \in Passwords \cup {NoPassword},
           unlocked' \in BOOLEAN, signedIn' \in BOOLEAN, idleLong' \in BOOLEAN,
           RecordFailure \/ RecordSuccess \/ UNCHANGED failureVars,
           UNCHANGED running,
           unlocked' => signedIn',
           w.kind \in {"change", "rewrap"} \/ Changing => signedIn'
    PROVE VaultInv'
<1>1. call' \in [Callers -> Calls]
    BY CallTyped, VaultTypes DEF VaultInv
<1>2. failures' \in 0..FailureLimit /\ blocked' \in BOOLEAN
    BY FailuresTyped, VaultTypes DEF VaultInv
<1>3. VaultTypeOK'
    <2>1. running' \in BOOLEAN
        BY VaultTypes DEF VaultInv
    <2> QED
        BY <1>1, <1>2, <2>1, VaultTypes, Zenon DEF VaultTypeOK, Calls
<1>4. Changing' => signedIn'
    <2> SUFFICES ASSUME NEW d \in Callers, call'[d].kind \in {"change", "rewrap"} PROVE signedIn'
        BY Zenon DEF Changing
    <2>1. CASE d = c
        <3>1. call'[d] = w
            BY <2>1, VaultTypes DEF VaultInv
        <3> QED
            BY <3>1
    <2>2. CASE d # c
        <3>1. call'[d] = call[d]
            BY <2>2, VaultTypes DEF VaultInv
        <3> QED
            BY <3>1 DEF Changing
    <2> QED
        BY <2>1, <2>2
<1> QED
    BY <1>3, <1>4 DEF VaultInv, KeyHasSession

\* The same for a step that leaves the requests alone.
LEMMA VaultStays ==
    ASSUME VaultInv,
           UNCHANGED call,
           wrapped' \in Passwords \cup {NoPassword},
           unlocked' \in BOOLEAN, signedIn' \in BOOLEAN, idleLong' \in BOOLEAN,
           blocked' \in BOOLEAN, running' \in BOOLEAN, UNCHANGED failures,
           unlocked' => signedIn',
           Changing => signedIn'
    PROVE VaultInv'
<1>1. VaultTypeOK'
    BY VaultTypes, Zenon DEF VaultInv, VaultTypeOK, Calls
<1>2. Changing' <=> Changing
    BY DEF Changing
<1> QED
    BY <1>1, <1>2 DEF VaultInv, KeyHasSession

LEMMA VaultSteps ==
    ASSUME ~LockedMeanwhile, VaultInv, VaultNext
    PROVE VaultInv'
<1> USE DEF sessionVars, failureVars
<1>0. /\ wrapped \in Passwords \cup {NoPassword}
      /\ unlocked \in BOOLEAN /\ signedIn \in BOOLEAN /\ idleLong \in BOOLEAN
      /\ blocked \in BOOLEAN /\ running \in BOOLEAN
      /\ unlocked => signedIn
      /\ Changing => signedIn
      /\ call \in [Callers -> Calls]
    BY VaultTypes DEF VaultInv, KeyHasSession
<1>k. NoCall.kind = "none"
    BY DEF NoCall, Waiting
<1>1. ASSUME NEW c \in Callers, NEW p \in Passwords, InitializeBegins(c, p) PROVE VaultInv'
    <2> DEFINE w == Waiting("initialize", p, NoPassword, NoPassword, FALSE)
    <2>1. w \in Calls /\ w.kind = "initialize"
        BY DEF Waiting, Calls
    <2>2. call' = [call EXCEPT ![c] = w]
        BY <1>1 DEF InitializeBegins, Awaits
    <2> HIDE DEF w
    <2> QED
        BY <1>0, <1>1, <2>1, <2>2, VaultRest DEF InitializeBegins
<1>2. ASSUME NEW c \in Callers, NEW p \in Passwords, UnlockBegins(c, p) PROVE VaultInv'
    <2> DEFINE w == Waiting("unlock", p, wrapped, NoPassword, FALSE)
    <2>1. w \in Calls /\ w.kind = "unlock"
        BY <1>0 DEF Waiting, Calls
    <2>2. call' = [call EXCEPT ![c] = w]
        BY <1>2 DEF UnlockBegins, Awaits
    <2> HIDE DEF w
    <2> QED
        BY <1>0, <1>2, <2>1, <2>2, VaultRest DEF UnlockBegins
<1>3. ASSUME NEW c \in Callers, NEW p \in Passwords, VerifyBegins(c, p) PROVE VaultInv'
    <2> DEFINE w == Waiting("verify", p, wrapped, NoPassword, FALSE)
    <2>1. w \in Calls /\ w.kind = "verify"
        BY <1>0 DEF Waiting, Calls
    <2>2. call' = [call EXCEPT ![c] = w]
        BY <1>3 DEF VerifyBegins, Awaits
    <2> HIDE DEF w
    <2> QED
        BY <1>0, <1>3, <2>1, <2>2, VaultRest DEF VerifyBegins
<1>4. ASSUME NEW c \in Callers, NEW p \in Passwords, AutomationBegins(c, p) PROVE VaultInv'
    <2> DEFINE w == Waiting("automate", p, wrapped, NoPassword, unlocked)
    <2>1. w \in Calls /\ w.kind = "automate"
        BY <1>0 DEF Waiting, Calls
    <2>2. call' = [call EXCEPT ![c] = w]
        BY <1>4 DEF AutomationBegins, Awaits
    <2> HIDE DEF w
    <2> QED
        BY <1>0, <1>4, <2>1, <2>2, VaultRest DEF AutomationBegins
<1>5. ASSUME NEW c \in Callers, NEW p \in Passwords, NEW q \in Passwords, ChangeBegins(c, p, q)
      PROVE VaultInv'
    <2> DEFINE w == Waiting("change", p, wrapped, q, FALSE)
    <2>1. w \in Calls
        BY <1>0 DEF Waiting, Calls
    <2>2. call' = [call EXCEPT ![c] = w]
        BY <1>5 DEF ChangeBegins, Awaits
    <2>3. signedIn /\ signedIn'
        BY <1>5 DEF ChangeBegins, HasSession
    <2> HIDE DEF w
    <2> QED
        BY <1>0, <1>5, <2>1, <2>2, <2>3, VaultRest DEF ChangeBegins
<1>6. ASSUME NEW c \in Callers, InitializeEnds(c) PROVE VaultInv'
    <2>1. call' = [call EXCEPT ![c] = NoCall]
        BY <1>6 DEF InitializeEnds, Returns
    <2>2. CASE Initialized
        <3>1. UNCHANGED <<wrapped, unlocked, signedIn, idleLong, failureVars, running>>
            BY <1>6, <2>2 DEF InitializeEnds
        <3> QED
            BY <1>0, <1>k, <2>1, <3>1, VaultRest, NoCallTyped
    <2>3. CASE ~Initialized
        <3>1. call[c].password \in Passwords \cup {NoPassword}
            BY <1>0 DEF Calls
        <3>2. wrapped' = call[c].password /\ unlocked' = TRUE /\ signedIn' = TRUE /\ idleLong' = FALSE
              /\ UNCHANGED <<failureVars, running>>
            BY <1>6, <2>3 DEF InitializeEnds, SetSession
        <3> QED
            BY <1>0, <1>k, <2>1, <3>1, <3>2, VaultRest, NoCallTyped
    <2> QED
        BY <2>2, <2>3
<1>7. ASSUME NEW c \in Callers, UnlockEnds(c) PROVE VaultInv'
    <2>1. call' = [call EXCEPT ![c] = NoCall] /\ UNCHANGED <<wrapped, running>>
        BY <1>7 DEF UnlockEnds, Returns
    <2>2. CASE Opens(c)
        BY <1>0, <1>k, <1>7, <2>1, <2>2, VaultRest, NoCallTyped DEF UnlockEnds, SetSession
    <2>3. CASE ~Opens(c)
        <3>1. UNCHANGED <<unlocked, signedIn, idleLong>> /\ RecordFailure
            BY <1>7, <2>3 DEF UnlockEnds
        <3> QED
            BY <1>0, <1>k, <2>1, <3>1, VaultRest, NoCallTyped
    <2> QED
        BY <2>2, <2>3
<1>8. ASSUME NEW c \in Callers, VerifyEnds(c) PROVE VaultInv'
    <2>1. call' = [call EXCEPT ![c] = NoCall] /\ UNCHANGED <<wrapped, unlocked, signedIn, idleLong, running>>
          /\ (RecordFailure \/ RecordSuccess)
        BY <1>8, Zenon DEF VerifyEnds, Returns
    <2> QED
        BY <1>0, <1>k, <2>1, VaultRest, NoCallTyped
<1>9. ASSUME NEW c \in Callers, ChangeOpens(c) PROVE VaultInv'
    <2>0. UNCHANGED <<wrapped, unlocked, signedIn, idleLong, running>>
        BY <1>9 DEF ChangeOpens
    <2>1. CASE Opens(c)
        <3> DEFINE w == [call[c] EXCEPT !.kind = "rewrap"]
        <3>1. call[c] \in Calls
            BY <1>0
        <3>2. w \in Calls
            BY <3>1 DEF Calls
        <3>3. call' = [call EXCEPT ![c] = w] /\ UNCHANGED failureVars
            BY <1>9, <2>1 DEF ChangeOpens
        <3>4. Changing
            BY <1>9 DEF ChangeOpens, Changing
        <3> HIDE DEF w
        <3> QED
            BY <1>0, <2>0, <3>2, <3>3, <3>4, VaultRest
    <2>2. CASE ~Opens(c)
        <3>1. call' = [call EXCEPT ![c] = NoCall] /\ RecordFailure
            BY <1>9, <2>2 DEF ChangeOpens, Returns
        <3> QED
            BY <1>0, <1>k, <2>0, <3>1, VaultRest, NoCallTyped
    <2> QED
        BY <2>1, <2>2
<1>10. ASSUME NEW c \in Callers, ChangeEnds(c) PROVE VaultInv'
    <2>1. call' = [call EXCEPT ![c] = NoCall] /\ wrapped' = call[c].next /\ unlocked' = TRUE
          /\ RecordSuccess /\ UNCHANGED <<signedIn, idleLong, running>>
        BY <1>10 DEF ChangeEnds, Returns
    <2>2. call[c].next \in Passwords \cup {NoPassword}
        BY <1>0 DEF Calls
    <2>3. Changing
        BY <1>10 DEF ChangeEnds, Changing
    <2> QED
        BY <1>0, <1>k, <2>1, <2>2, <2>3, VaultRest, NoCallTyped
<1>11. ASSUME NEW c \in Callers, AutomationEnds(c) PROVE VaultInv'
    <2>1. /\ call' = [call EXCEPT ![c] = NoCall]
          /\ UNCHANGED <<wrapped, signedIn, idleLong, running>>
          /\ unlocked' = (unlocked /\ call[c].was)
          /\ RecordFailure \/ RecordSuccess
        BY <1>11, Zenon DEF AutomationEnds, Returns, LocksAgain
    <2>2. unlocked' \in BOOLEAN /\ (unlocked' => unlocked)
        BY <2>1, Zenon
    <2> QED
        BY <1>0, <1>k, <2>1, <2>2, VaultRest, NoCallTyped
<1>12. ASSUME NEW p \in Passwords, Restore(p) PROVE VaultInv'
    BY <1>0, <1>12, VaultStays DEF Restore
<1>13. ASSUME LockVault \/ SweepSession PROVE VaultInv'
    <2>1. ~Changing
        BY <1>13 DEF LockVault, SweepSession
    <2> QED
        BY <1>0, <1>13, <2>1, VaultStays DEF LockVault, SweepSession, InvalidateSession
<1>14. ASSUME UseSession \/ SessionIdles PROVE VaultInv'
    <2>1. UNCHANGED <<wrapped, unlocked, signedIn, failures, blocked, call, running>>
        BY <1>14 DEF UseSession, SessionIdles
    <2>2. idleLong' \in BOOLEAN
        BY <1>14 DEF UseSession, SessionIdles
    <2> QED
        BY <1>0, <2>1, <2>2, VaultStays
<1>15. ASSUME BlockExpires PROVE VaultInv'
    BY <1>0, <1>15, VaultStays DEF BlockExpires
<1>16. ASSUME JobStarts \/ JobEnds PROVE VaultInv'
    <2>1. UNCHANGED <<wrapped, unlocked, signedIn, failures, blocked, call>>
        BY <1>16 DEF JobStarts, JobEnds
    <2>2. idleLong' \in BOOLEAN /\ running' \in BOOLEAN
        BY <1>0, <1>16 DEF JobStarts, JobEnds
    <2> QED
        BY <1>0, <2>1, <2>2, VaultStays
<1>17. ASSUME VaultRestarts PROVE VaultInv'
    <2>1. call' \in [Callers -> Calls] /\ \A c \in Callers : call'[c] = NoCall
        BY <1>17, NoCallTyped DEF VaultRestarts
    <2>2. ~Changing'
        BY <1>k, <2>1 DEF Changing
    <2>3. failures' \in 0..FailureLimit
        BY <1>17, VaultAssumption DEF VaultRestarts
    <2>4. VaultTypeOK'
        BY <1>0, <1>17, <2>1, <2>3, Zenon DEF VaultTypeOK, Calls, VaultRestarts
    <2> QED
        BY <1>17, <2>2, <2>4 DEF VaultInv, KeyHasSession, VaultRestarts
<1> QED
    BY <1>1, <1>2, <1>3, <1>4, <1>5, <1>6, <1>7, <1>8, <1>9, <1>10, <1>11, <1>12, <1>13,
       <1>14, <1>15, <1>16, <1>17, Zenon DEF VaultNext, DerivationEnds

LEMMA VaultBegins ==
    ASSUME VaultInit
    PROVE VaultInv
<1>1. VaultTypeOK
    <2>1. failures \in 0..FailureLimit
        BY VaultAssumption DEF VaultInit
    <2>2. call \in [Callers -> Calls]
        BY NoCallTyped DEF VaultInit
    <2> QED
        BY <2>1, <2>2, VaultTypes DEF VaultInit
<1>2. ~Changing
    BY DEF VaultInit, Changing, NoCall, Waiting
<1> QED
    BY <1>1, <1>2 DEF VaultInv, VaultInit, KeyHasSession

(***************************************************************************)
(* The limiter                                                             *)
(***************************************************************************)
LEMMA Bounds ==
    /\ MaxConcurrency \in Nat \ {0} /\ MinInterval \in Nat \ {0} /\ Window \in Nat \ {0}
    /\ WindowLimit \in Nat \ {0} /\ RateLimitCooldown \in Nat \ {0} /\ MaxCooldown \in Nat \ {0}
    /\ ReadAttempts \in Nat \ {0} /\ Looks \in Nat \ {0} /\ MaxAsks \in Nat \ {0}
BY ReadLimiterAssumption

\* A set of naturals that is not empty has a least one.
LEMMA LeastExists ==
    ASSUME NEW S \in SUBSET Nat, S # {}
    PROVE \E x \in S : \A y \in S : x <= y
<1>1. PICK x \in S : \A y \in S : ~(<<y, x>> \in OpToRel(<, Nat))
    BY WFMin, NatLessThanWellFounded, Zenon
<1>2. \A y \in S : ~(y < x)
    BY <1>1 DEF OpToRel
<1> QED
    BY <1>2

LEMMA PastIsFound ==
    ASSUME NEW ages \in Seq(0..Window)
    PROVE /\ Past(ages) \in 0..Len(ages)
          /\ \A i \in 1..Past(ages) : ages[i] >= Window
          /\ Past(ages) < Len(ages) => ages[Past(ages) + 1] < Window
<1> DEFINE S == {n \in 0..Len(ages) : n < Len(ages) => ages[n + 1] < Window}
<1>0. Len(ages) \in Nat /\ \A i \in 1..Len(ages) : ages[i] \in 0..Window
    BY ElementOfSeq, LenProperties
<1>1. S \in SUBSET Nat /\ S # {}
    <2>1. Len(ages) \in S
        BY <1>0
    <2> QED
        BY <2>1
<1>2. PICK x \in S : \A y \in S : x <= y
    <2> HIDE DEF S
    <2> QED
        BY <1>1, LeastExists
<1>3. ASSUME NEW i \in 1..x PROVE ages[i] >= Window
    <2>1. i - 1 \in 0..Len(ages) /\ i - 1 < Len(ages) /\ (i - 1) + 1 = i /\ i - 1 < x
        BY <1>0
    <2>2. i - 1 \notin S
        BY <1>0, <1>2, <2>1
    <2> QED
        BY <1>0, Bounds, <2>1, <2>2
<1>4. \E n \in 0..Len(ages) :
        /\ \A i \in 1..n : ages[i] >= Window
        /\ n < Len(ages) => ages[n + 1] < Window
    BY <1>3
<1> QED
    BY <1>4 DEF Past

LEMMA KeptShortens ==
    ASSUME NEW ages \in Seq(0..Window)
    PROVE /\ Kept(ages) \in Seq(0..Window)
          /\ Len(Kept(ages)) = Len(ages) - Past(ages)
          /\ Len(Kept(ages)) <= Len(ages)
          /\ Len(Kept(ages)) > 0 => Kept(ages)[1] \in 0..Window /\ Kept(ages)[1] < Window
<1> DEFINE p == Past(ages)
<1>0. Len(ages) \in Nat /\ \A i \in 1..Len(ages) : ages[i] \in 0..Window
    BY ElementOfSeq, LenProperties
<1>1. p \in 0..Len(ages) /\ (p < Len(ages) => ages[p + 1] < Window)
    BY PastIsFound
<1> HIDE DEF p
<1> DEFINE k == SubSeq(ages, p + 1, Len(ages))
<1>2. /\ k \in Seq(0..Window)
      /\ Len(k) = IF p + 1 <= Len(ages) THEN Len(ages) - (p + 1) + 1 ELSE 0
      /\ \A i \in 1..Len(ages) - (p + 1) + 1 : k[i] = ages[(p + 1) + i - 1]
    <2>1. p + 1 \in Int /\ Len(ages) \in Int
        BY <1>0, <1>1
    <2>2. \A i \in (p + 1)..Len(ages) : ages[i] \in 0..Window
        BY <1>0, <1>1
    <2> QED
        BY <2>1, <2>2, SubSeqProperties
<1> HIDE DEF k
<1>3. Len(k) = Len(ages) - p
    BY <1>0, <1>1, <1>2
<1>4. Len(k) > 0 => k[1] = ages[p + 1] /\ p < Len(ages) /\ p + 1 \in 1..Len(ages)
    <2>1. ASSUME Len(k) > 0 PROVE 1 \in 1..Len(ages) - (p + 1) + 1 /\ (p + 1) + 1 - 1 = p + 1
        BY <1>0, <1>1, <1>3, <2>1
    <2> QED
        BY <1>0, <1>1, <1>2, <1>3, <2>1
<1>5. Kept(ages) = k
    BY DEF Kept, k, p
<1> QED
    BY <1>0, <1>1, <1>2, <1>3, <1>4, <1>5 DEF p

\* As time passes, no start comes back into the window.
LEMMA OlderKeepsFewer ==
    ASSUME NEW ages \in Seq(0..Window)
    PROVE /\ Older(ages) \in Seq(0..Window)
          /\ Len(Kept(Older(ages))) <= Len(Kept(ages))
<1> DEFINE o == Older(ages)
<1>0. Len(ages) \in Nat /\ \A i \in 1..Len(ages) : ages[i] \in 0..Window
    BY ElementOfSeq, LenProperties
<1>1. /\ o \in Seq(0..Window) /\ Len(o) = Len(ages)
      /\ \A i \in 1..Len(ages) : o[i] = Smaller(ages[i] + 1, Window)
    <2>1. \A i \in 1..Len(ages) : Smaller(ages[i] + 1, Window) \in 0..Window
        BY <1>0, Bounds DEF Smaller
    <2>2. DOMAIN ages = 1..Len(ages)
        OBVIOUS
    <2> QED
        BY <1>0, <2>1, <2>2 DEF Older
<1> HIDE DEF o
<1>2. Past(o) \in 0..Len(ages) /\ (Past(o) < Len(ages) => o[Past(o) + 1] < Window)
    BY <1>1, PastIsFound
<1>3. Past(ages) \in 0..Len(ages) /\ \A i \in 1..Past(ages) : ages[i] >= Window
    BY PastIsFound
<1>4. Past(o) >= Past(ages)
    <2> SUFFICES ASSUME Past(o) < Past(ages) PROVE FALSE
        BY <1>0, <1>2, <1>3
    <2>1. Past(o) + 1 \in 1..Past(ages) /\ Past(o) + 1 \in 1..Len(ages) /\ Past(o) < Len(ages)
        BY <1>0, <1>2, <1>3
    <2>2. o[Past(o) + 1] = Window
        BY <1>0, <1>1, <1>3, <2>1, Bounds DEF Smaller
    <2> QED
        BY <1>2, <2>1, <2>2, Bounds
<1>5. Len(Kept(o)) = Len(ages) - Past(o) /\ Len(Kept(ages)) = Len(ages) - Past(ages)
    BY <1>1, KeptShortens
<1> QED
    BY <1>0, <1>1, <1>2, <1>3, <1>4, <1>5 DEF o

CallerStates ==
    [at : {"idle", "queued", "active", "backoff"}, kind : CallKinds, attempt : 0..ReadAttempts,
     looks : 0..Looks, pause : Nat, asks : 0..MaxAsks]

\* Queue q fits callers r: it holds the queued ones, each once, the urgent
\* ones first.
Fits(q, r) ==
    /\ q \in Seq(Readers) /\ r \in [Readers -> CallerStates]
    /\ \A i, k \in 1..Len(q) : q[i] = q[k] => i = k
    /\ \A i \in 1..Len(q) : \A k \in 1..i : r[q[i]].kind \in High => r[q[k]].kind \in High
    /\ \A c \in Readers : r[c].at = "queued" <=> \E i \in 1..Len(q) : q[i] = c

LimiterInv ==
    /\ Fits(readQueue, reader)
    /\ startAges \in Seq(0..Window) /\ limitAges \in Seq(0..Window)
    /\ lastStart \in 0..MinInterval /\ cooldown \in Nat /\ nap \in Nat /\ pumping \in BOOLEAN
    /\ Cardinality(Underway(reader)) <= MaxConcurrency
    /\ Len(Kept(startAges)) <= WindowLimit
    /\ QueueIsServed

LEMMA LimiterInvSays ==
    ASSUME LimiterInv
    PROVE LimiterTypeOK /\ WithinBudget /\ QueueIsServed
<1>1. readQueue \in Seq(Readers) /\ DOMAIN readQueue = 1..Len(readQueue)
    BY DEF LimiterInv, Fits
<1>2. LimiterTypeOK
  <2>1. reader \in [Readers -> CallerStates] /\ readQueue \in Seq(Readers)
    BY DEF LimiterInv, Fits
  <2>2. /\ startAges \in Seq(0..Window) /\ limitAges \in Seq(0..Window)
        /\ lastStart \in 0..MinInterval /\ cooldown \in Nat /\ nap \in Nat /\ pumping \in BOOLEAN
    BY Zenon DEF LimiterInv
  <2> QED
    BY <2>1, <2>2, Zenon DEF LimiterTypeOK, CallerStates
<1>3. ASSUME NEW c \in Readers
      PROVE (reader[c].at = "queued") = (c \in ToSet(readQueue))
  <2>1. reader[c].at = "queued" <=> \E i \in 1..Len(readQueue) : readQueue[i] = c
    BY DEF LimiterInv, Fits
  <2>2. c \in ToSet(readQueue) <=> \E i \in 1..Len(readQueue) : readQueue[i] = c
    BY <1>1 DEF ToSet
  <2> QED
    BY <2>1, <2>2
<1>4. WithinBudget
    BY <1>1, <1>3 DEF LimiterInv, Fits, WithinBudget
<1> QED
    BY <1>2, <1>4 DEF LimiterInv

LEMMA UnderwayIsFinite ==
    ASSUME NEW r
    PROVE IsFiniteSet(Underway(r)) /\ Cardinality(Underway(r)) \in Nat
BY ReadLimiterAssumption, FS_Subset, FS_CardinalityType DEF Underway

LEMMA FewerUnderway ==
    ASSUME NEW r, NEW s, Underway(s) \subseteq Underway(r),
           Cardinality(Underway(r)) <= MaxConcurrency
    PROVE Cardinality(Underway(s)) <= MaxConcurrency
BY UnderwayIsFinite, FS_Subset, Bounds

LEMMA DelayIsLong ==
    ASSUME NEW cool \in Nat, NEW ages \in Seq(0..Window), NEW last \in 0..MinInterval,
           Len(ages) > 0 => ages[1] \in 0..Window /\ ages[1] < Window
    PROVE /\ NextDelay(cool, ages, last) \in Nat
          /\ ~(NextDelay(cool, ages, last) > 0) => Len(ages) < WindowLimit
<1>1. Len(ages) \in Nat
    OBVIOUS
<1>2. CASE cool > 0
    BY <1>2 DEF NextDelay
<1>3. CASE ~(cool > 0) /\ Len(ages) >= WindowLimit
    BY <1>1, <1>3, Bounds DEF NextDelay
<1>4. CASE ~(cool > 0) /\ ~(Len(ages) >= WindowLimit)
    BY <1>1, <1>4, Bounds DEF NextDelay
<1> QED
    BY <1>2, <1>3, <1>4

\* The first of the queue is started.
LEMMA HeadStarts ==
    ASSUME NEW q, NEW r, Fits(q, r), q # <<>>, NEW s, s = [r EXCEPT ![Head(q)].at = "active"]
    PROVE /\ Fits(Tail(q), s)
          /\ Underway(s) = Underway(r) \cup {Head(q)} /\ Head(q) \in Readers
<1> DEFINE h == Head(q)
           t == Tail(q)
           n == Len(q)
<1>1. q \in Seq(Readers) /\ r \in [Readers -> CallerStates]
    BY DEF Fits
<1>2. /\ n \in Nat /\ n > 0 /\ h = q[1] /\ h \in Readers
      /\ t \in Seq(Readers) /\ Len(t) = n - 1 /\ \A i \in 1..n - 1 : t[i] = q[i + 1]
      /\ \A i \in 1..n : q[i] \in Readers
    <2>1. \A i \in 1..n : q[i] \in Readers
        BY <1>1, ElementOfSeq
    <2>2. n \in Nat /\ n > 0 /\ h = q[1]
        BY <1>1
    <2> QED
        BY <1>1, <2>1, <2>2, HeadTailProperties
<1> HIDE DEF h, t, n
<1>3. /\ s \in [Readers -> CallerStates]
      /\ \A c \in Readers : s[c].kind = r[c].kind
      /\ \A c \in Readers : s[c].at = IF c = h THEN "active" ELSE r[c].at
    <2>1. [r[h] EXCEPT !.at = "active"] \in CallerStates
          /\ [r[h] EXCEPT !.at = "active"].kind = r[h].kind
          /\ [r[h] EXCEPT !.at = "active"].at = "active"
        <3>1. r[h] \in CallerStates
            BY <1>1, <1>2
        <3> QED
            BY <3>1 DEF CallerStates
    <2>2. s = [r EXCEPT ![h] = [r[h] EXCEPT !.at = "active"]]
        BY DEF h
    <2> DEFINE w == [r[h] EXCEPT !.at = "active"]
    <2> HIDE DEF w
    <2>3. w \in CallerStates /\ w.kind = r[h].kind /\ w.at = "active" /\ s = [r EXCEPT ![h] = w]
        BY <2>1, <2>2 DEF w
    <2> QED
        BY <1>1, <1>2, <2>3
<1>4. /\ \A i, k \in 1..n : q[i] = q[k] => i = k
      /\ \A i \in 1..n : \A k \in 1..i : r[q[i]].kind \in High => r[q[k]].kind \in High
      /\ \A c \in Readers : r[c].at = "queued" <=> \E i \in 1..n : q[i] = c
    BY DEF Fits, n
<1>5. ASSUME NEW i \in 1..n - 1, NEW k \in 1..n - 1, t[i] = t[k] PROVE i = k
    <2>1. i + 1 \in 1..n /\ k + 1 \in 1..n /\ q[i + 1] = q[k + 1]
        BY <1>2, <1>5
    <2>2. i + 1 = k + 1
        BY <1>4, <2>1
    <2> QED
        BY <1>2, <2>2
<1>6. ASSUME NEW i \in 1..n - 1, NEW k \in 1..i, s[t[i]].kind \in High
      PROVE s[t[k]].kind \in High
    <2>1. i + 1 \in 1..n /\ k + 1 \in 1..i + 1 /\ k \in 1..n - 1 /\ k + 1 \in 1..n
        BY <1>2
    <2>2. t[i] = q[i + 1] /\ t[k] = q[k + 1] /\ q[i + 1] \in Readers /\ q[k + 1] \in Readers
        BY <1>2, <2>1
    <2> QED
        BY <1>3, <1>4, <1>6, <2>1, <2>2
<1>7. ASSUME NEW c \in Readers
      PROVE s[c].at = "queued" <=> \E i \in 1..n - 1 : t[i] = c
    <2>1. CASE c = h
        <3>1. s[c].at # "queued"
            BY <1>3, <2>1
        <3>2. ASSUME NEW i \in 1..n - 1, t[i] = c PROVE FALSE
            <4>1. q[i + 1] = q[1] /\ i + 1 \in 1..n /\ 1 \in 1..n /\ i + 1 # 1
                BY <1>2, <2>1, <3>2
            <4> QED
                BY <1>4, <4>1
        <3> QED
            BY <3>1, <3>2
    <2>2. CASE c # h
        <3>1. s[c].at = r[c].at
            BY <1>3, <2>2
        <3>2. ASSUME NEW i \in 1..n, q[i] = c PROVE \E j \in 1..n - 1 : t[j] = c
            <4>1. i # 1 /\ i - 1 \in 1..n - 1 /\ (i - 1) + 1 = i
                BY <1>2, <2>2, <3>2
            <4> QED
                BY <1>2, <3>2, <4>1
        <3>3. ASSUME NEW j \in 1..n - 1, t[j] = c PROVE \E i \in 1..n : q[i] = c
            <4>1. j + 1 \in 1..n /\ q[j + 1] = c
                BY <1>2, <3>3
            <4> QED
                BY <4>1
        <3> QED
            BY <1>4, <3>1, <3>2, <3>3
    <2> QED
        BY <2>1, <2>2
<1>8. Fits(t, s)
    BY <1>2, <1>3, <1>5, <1>6, <1>7 DEF Fits
<1>9. Underway(s) = Underway(r) \cup {h}
    BY <1>2, <1>3 DEF Underway
<1> QED
    BY <1>2, <1>8, <1>9 DEF h, t

LEMMA OneMoreUnderway ==
    ASSUME NEW r, NEW s, NEW c, Underway(s) = Underway(r) \cup {c},
           ~(Cardinality(Underway(r)) >= MaxConcurrency)
    PROVE Cardinality(Underway(s)) <= MaxConcurrency
<1>1. Cardinality(Underway(s)) <= Cardinality(Underway(r)) + 1
    <2>1. IsFiniteSet(Underway(r)) /\ Cardinality(Underway(r)) \in Nat
        BY UnderwayIsFinite
    <2>2. Cardinality(Underway(r) \cup {c}) =
            IF c \in Underway(r) THEN Cardinality(Underway(r)) ELSE Cardinality(Underway(r)) + 1
        BY <2>1, FS_AddElement
    <2> QED
        BY <2>1, <2>2
<1>2. Cardinality(Underway(s)) \in Nat /\ Cardinality(Underway(r)) \in Nat
    BY UnderwayIsFinite
<1> QED
    BY <1>1, <1>2, Bounds

LEMMA AgesGrow ==
    ASSUME NEW ages \in Seq(0..Window)
    PROVE /\ Append(ages, 0) \in Seq(0..Window) /\ Len(Append(ages, 0)) = Len(ages) + 1
          /\ (Len(ages) > 0 => ages[1] \in 0..Window /\ ages[1] < Window) =>
             Append(ages, 0)[1] \in 0..Window /\ Append(ages, 0)[1] < Window
<1>1. 0 \in 0..Window /\ 0 < Window /\ Len(ages) \in Nat
    BY Bounds, LenProperties
<1>2. /\ Append(ages, 0) \in Seq(0..Window) /\ Len(Append(ages, 0)) = Len(ages) + 1
      /\ \A i \in 1..Len(ages) : Append(ages, 0)[i] = ages[i]
      /\ Append(ages, 0)[Len(ages) + 1] = 0
    BY <1>1, AppendProperties
<1>3. CASE Len(ages) = 0
    BY <1>1, <1>2, <1>3
<1>4. CASE Len(ages) > 0
    <2>1. Append(ages, 0)[1] = ages[1]
        BY <1>1, <1>2, <1>4
    <2> QED
        BY <1>2, <1>4, <2>1
<1> QED
    BY <1>1, <1>2, <1>3, <1>4

\* What the pump keeps, whoever called it.
LEMMA PumpKeeps ==
    ASSUME NEW q, NEW r, NEW cool \in Nat,
           Fits(q, r), Cardinality(Underway(r)) <= MaxConcurrency,
           startAges \in Seq(0..Window), Len(Kept(startAges)) <= WindowLimit,
           lastStart \in 0..MinInterval,
           limitAges' \in Seq(0..Window), cooldown' \in Nat,
           Pump(q, r, cool)
    PROVE LimiterInv'
<1> DEFINE ages == Kept(startAges)
           Idle(qs, rs) == qs = <<>> \/ Cardinality(Underway(rs)) >= MaxConcurrency
           now == NextDelay(cool, ages, lastStart)
           started == [r EXCEPT ![Head(q)].at = "active"]
           then == NextDelay(cool, Append(ages, 0), 0)
<1>1. /\ ages \in Seq(0..Window) /\ Len(ages) \in Nat /\ Len(ages) <= WindowLimit
      /\ Len(ages) > 0 => ages[1] \in 0..Window /\ ages[1] < Window
    BY KeptShortens, LenProperties
<1>2. now \in Nat /\ (~(now > 0) => Len(ages) < WindowLimit)
    <2> HIDE DEF ages
    <2> QED
        BY <1>1, DelayIsLong
<1>3. /\ Append(ages, 0) \in Seq(0..Window) /\ Len(Append(ages, 0)) = Len(ages) + 1
      /\ Append(ages, 0)[1] \in 0..Window /\ Append(ages, 0)[1] < Window
    <2> HIDE DEF ages
    <2> QED
        BY <1>1, AgesGrow
<1>4. then \in Nat
    <2>1. 0 \in 0..MinInterval
        BY Bounds
    <2> HIDE DEF ages
    <2> QED
        BY <1>3, <2>1, DelayIsLong
<1>5. ASSUME NEW qs, NEW rs, NEW delay \in Nat, pumping' = ~Idle(qs, rs),
             nap' = IF Idle(qs, rs) THEN 0 ELSE delay,
             readQueue' = qs, reader' = rs
      PROVE nap' \in Nat /\ pumping' \in BOOLEAN /\ QueueIsServed'
    <2>1. nap' \in Nat
        BY <1>5
    <2>2. pumping' \in BOOLEAN
        BY <1>5, Zenon
    <2>3. QueueIsServed'
        <3> SUFFICES ASSUME qs # <<>>, ~pumping' PROVE Underway(rs) # {}
            BY <1>5 DEF QueueIsServed
        <3>1. Cardinality(Underway(rs)) >= MaxConcurrency
            BY <1>5
        <3>2. ASSUME Underway(rs) = {} PROVE Cardinality(Underway(rs)) = 0
            BY <3>2, FS_EmptySet, Zenon
        <3> QED
            BY <3>1, <3>2, Bounds
    <2> QED
        BY <2>1, <2>2, <2>3
<1>6. CASE Idle(q, r) \/ now > 0
    <2>1. /\ readQueue' = q /\ reader' = r /\ startAges' = ages /\ UNCHANGED lastStart
          /\ pumping' = ~Idle(q, r) /\ nap' = IF Idle(q, r) THEN 0 ELSE now
        BY <1>6, Zenon DEF Pump
    <2>2. nap' \in Nat /\ pumping' \in BOOLEAN /\ QueueIsServed'
        BY <1>2, <1>5, <2>1
    <2>3. Len(Kept(startAges')) <= WindowLimit
        BY <1>1, <2>1, Bounds, KeptShortens, LenProperties
    <2> HIDE DEF ages, now, Idle
    <2> QED
        BY <1>1, <2>1, <2>2, <2>3 DEF LimiterInv
<1>7. CASE ~(Idle(q, r) \/ now > 0)
    <2>1. /\ readQueue' = Tail(q) /\ reader' = started
          /\ startAges' = Append(ages, 0) /\ lastStart' = 0
          /\ pumping' = ~Idle(Tail(q), started) /\ nap' = IF Idle(Tail(q), started) THEN 0 ELSE then
        BY <1>7, Zenon DEF Pump
    <2>2. nap' \in Nat /\ pumping' \in BOOLEAN /\ QueueIsServed'
        BY <1>4, <1>5, <2>1
    <2>3. Fits(Tail(q), started) /\ Underway(started) = Underway(r) \cup {Head(q)}
        BY <1>7, HeadStarts
    <2>4. Cardinality(Underway(started)) <= MaxConcurrency
        BY <1>7, <2>3, OneMoreUnderway
    <2>5. Len(Kept(startAges')) <= WindowLimit
        <3> HIDE DEF ages, now
        <3>1. /\ startAges' \in Seq(0..Window) /\ Len(startAges') = Len(ages) + 1
              /\ Len(ages) < WindowLimit
            BY <1>2, <1>3, <1>7, <2>1
        <3>2. Kept(startAges') \in Seq(0..Window) /\ Len(Kept(startAges')) <= Len(startAges')
            BY <3>1, KeptShortens
        <3> QED
            BY <1>1, <3>1, <3>2, Bounds, LenProperties
    <2>6. lastStart' \in 0..MinInterval
        BY <2>1, Bounds
    <2> HIDE DEF ages, now, Idle, started
    <2> QED
        BY <1>3, <2>1, <2>2, <2>3, <2>4, <2>5, <2>6 DEF LimiterInv
<1> QED
    BY <1>6, <1>7

LEMMA CallPumpKeeps ==
    ASSUME LimiterInv, NEW q, NEW r, NEW cool \in Nat,
           Fits(q, r), Underway(r) \subseteq Underway(reader),
           limitAges' \in Seq(0..Window), cooldown' \in Nat,
           CallPump(q, r, cool)
    PROVE LimiterInv'
<1>1. Cardinality(Underway(r)) <= MaxConcurrency
    BY FewerUnderway DEF LimiterInv
<1>2. CASE pumping
    <2>1. readQueue' = q /\ reader' = r /\ UNCHANGED <<startAges, lastStart, pumping, nap>>
        BY <1>2 DEF CallPump
    <2> QED
        BY <1>1, <1>2, <2>1 DEF LimiterInv, QueueIsServed
<1>3. CASE ~pumping
    BY <1>1, <1>3, PumpKeeps DEF CallPump, LimiterInv
<1> QED
    BY <1>2, <1>3

\* Caller c, which is not queued, is not in the queue; it becomes what w says,
\* and is not queued by that.
LEMMA StaysOut ==
    ASSUME NEW q, NEW r, Fits(q, r), NEW c \in Readers, r[c].at # "queued",
           NEW w \in CallerStates, w.at # "queued"
    PROVE Fits(q, [r EXCEPT ![c] = w])
<1> DEFINE s == [r EXCEPT ![c] = w]
<1>1. /\ q \in Seq(Readers) /\ r \in [Readers -> CallerStates]
      /\ \A i, k \in 1..Len(q) : q[i] = q[k] => i = k
      /\ \A i \in 1..Len(q) : \A k \in 1..i : r[q[i]].kind \in High => r[q[k]].kind \in High
      /\ \A d \in Readers : r[d].at = "queued" <=> \E i \in 1..Len(q) : q[i] = d
    BY DEF Fits
<1>2. /\ Len(q) \in Nat /\ \A i \in 1..Len(q) : q[i] \in Readers /\ q[i] # c
      /\ \A i \in 1..Len(q) : \A k \in 1..i : k \in 1..Len(q)
    <2>1. Len(q) \in Nat /\ \A i \in 1..Len(q) : q[i] \in Readers
        BY <1>1, ElementOfSeq, LenProperties
    <2>2. \A i \in 1..Len(q) : q[i] # c
        BY <1>1
    <2> QED
        BY <2>1, <2>2
<1>3. s \in [Readers -> CallerStates] /\ \A d \in Readers : s[d] = IF d = c THEN w ELSE r[d]
    BY <1>1
<1> HIDE DEF s
<1>4. ASSUME NEW i \in 1..Len(q), NEW k \in 1..i, s[q[i]].kind \in High
      PROVE s[q[k]].kind \in High
    <2>1. s[q[i]] = r[q[i]] /\ s[q[k]] = r[q[k]]
        BY <1>2, <1>3
    <2> QED
        BY <1>1, <1>4, <2>1
<1>5. ASSUME NEW d \in Readers PROVE s[d].at = "queued" <=> \E i \in 1..Len(q) : q[i] = d
    <2>1. CASE d = c
        BY <1>2, <1>3, <2>1
    <2>2. CASE d # c
        BY <1>1, <1>3, <2>2
    <2> QED
        BY <2>1, <2>2
<1>6. Fits(q, s)
    BY <1>1, <1>3, <1>4, <1>5 DEF Fits
<1> QED
    BY <1>6 DEF s

\* There is a first normal call, or a place behind the last urgent one.
LEMMA FirstNormalIsFound ==
    ASSUME NEW q \in Seq(Readers), NEW r
    PROVE /\ FirstNormal(q, r) \in 1..Len(q) + 1
          /\ \A i \in 1..FirstNormal(q, r) - 1 : r[q[i]].kind \in High
          /\ FirstNormal(q, r) <= Len(q) => r[q[FirstNormal(q, r)]].kind \notin High
<1> DEFINE S == {n \in 1..Len(q) + 1 : n <= Len(q) => r[q[n]].kind \notin High}
<1>0. Len(q) \in Nat
    BY LenProperties
<1>1. S \in SUBSET Nat /\ S # {}
    <2>1. Len(q) + 1 \in S
        BY <1>0
    <2> QED
        BY <2>1
<1>2. PICK x \in S : \A y \in S : x <= y
    <2> HIDE DEF S
    <2> QED
        BY <1>1, LeastExists
<1>3. ASSUME NEW i \in 1..x - 1 PROVE r[q[i]].kind \in High
    <2>1. i \in 1..Len(q) + 1 /\ i <= Len(q) /\ i < x /\ x \in Nat
        BY <1>0
    <2>2. i \notin S
        BY <1>0, <1>2, <2>1
    <2> QED
        BY <2>1, <2>2
<1>4. \E n \in 1..Len(q) + 1 :
        /\ \A i \in 1..n - 1 : r[q[i]].kind \in High
        /\ n <= Len(q) => r[q[n]].kind \notin High
    BY <1>3
<1> QED
    BY <1>4 DEF FirstNormal

\* The place n at which caller c comes into the queue q, to make e of it.
Placed(e, q, c, n) ==
    /\ e \in Seq(Readers) /\ Len(e) = Len(q) + 1 /\ n \in 1..Len(q) + 1
    /\ \A i \in 1..Len(q) + 1 : e[i] = IF i < n THEN q[i] ELSE IF i = n THEN c ELSE q[i - 1]

LEMMA AppendPlaces ==
    ASSUME NEW q \in Seq(Readers), NEW c \in Readers
    PROVE Placed(Append(q, c), q, c, Len(q) + 1)
<1>1. Len(q) \in Nat
    BY LenProperties
<1>2. /\ Append(q, c) \in Seq(Readers) /\ Len(Append(q, c)) = Len(q) + 1
      /\ \A i \in 1..Len(q) : Append(q, c)[i] = q[i]
      /\ Append(q, c)[Len(q) + 1] = c
    BY AppendProperties
<1> DEFINE e == Append(q, c)
<1> HIDE DEF e
<1>3. /\ e \in Seq(Readers) /\ Len(e) = Len(q) + 1
      /\ \A i \in 1..Len(q) : e[i] = q[i]
      /\ e[Len(q) + 1] = c
    BY <1>2 DEF e
<1>4. Placed(e, q, c, Len(q) + 1)
    BY <1>1, <1>3 DEF Placed
<1> QED
    BY <1>4 DEF e

LEMMA InsertPlaces ==
    ASSUME NEW q \in Seq(Readers), NEW c \in Readers, NEW n \in 1..Len(q) + 1
    PROVE Placed(InsertAt(q, n, c), q, c, n)
<1> DEFINE a == SubSeq(q, 1, n - 1)
           b == SubSeq(q, n, Len(q))
           m == <<c>>
<1>1. Len(q) \in Nat /\ n \in Nat /\ n >= 1 /\ n <= Len(q) + 1 /\ \A i \in 1..Len(q) : q[i] \in Readers
    BY ElementOfSeq, LenProperties
<1>2. a \in Seq(Readers) /\ Len(a) = n - 1 /\ \A i \in 1..n - 1 : a[i] = q[i]
    <2>1. \A i \in 1..n - 1 : q[i] \in Readers
        BY <1>1
    <2>2. /\ a \in Seq(Readers)
          /\ Len(a) = IF 1 <= n - 1 THEN (n - 1) - 1 + 1 ELSE 0
          /\ \A i \in 1..(n - 1) - 1 + 1 : a[i] = q[1 + i - 1]
        BY <1>1, <2>1, SubSeqProperties
    <2> HIDE DEF a
    <2> QED
        BY <1>1, <2>2
<1>3. b \in Seq(Readers) /\ Len(b) = Len(q) - n + 1 /\ \A i \in 1..Len(q) - n + 1 : b[i] = q[n + i - 1]
    <2>1. \A i \in n..Len(q) : q[i] \in Readers
        BY <1>1
    <2>2. /\ b \in Seq(Readers)
          /\ Len(b) = IF n <= Len(q) THEN Len(q) - n + 1 ELSE 0
          /\ \A i \in 1..Len(q) - n + 1 : b[i] = q[n + i - 1]
        BY <1>1, <2>1, SubSeqProperties
    <2> HIDE DEF b
    <2> QED
        BY <1>1, <2>2
<1>4. m \in Seq(Readers) /\ Len(m) = 1 /\ m[1] = c
    OBVIOUS
<1> HIDE DEF a, b, m
<1>5. /\ a \o m \in Seq(Readers) /\ Len(a \o m) = n
      /\ \A i \in 1..n : (a \o m)[i] = IF i <= n - 1 THEN q[i] ELSE c
    <2>1. /\ a \o m \in Seq(Readers) /\ Len(a \o m) = Len(a) + Len(m)
          /\ \A i \in 1..Len(a) + Len(m) : (a \o m)[i] = IF i <= Len(a) THEN a[i] ELSE m[i - Len(a)]
        BY <1>2, <1>4, ConcatProperties
    <2> DEFINE t == a \o m
    <2>2. /\ t \in Seq(Readers) /\ Len(t) = Len(a) + Len(m)
          /\ \A i \in 1..Len(a) + Len(m) : t[i] = IF i <= Len(a) THEN a[i] ELSE m[i - Len(a)]
        BY <2>1
    <2> HIDE DEF t
    <2>3. Len(t) = n
        BY <1>1, <1>2, <1>4, <2>2
    <2>4. ASSUME NEW i \in 1..n PROVE t[i] = IF i <= n - 1 THEN q[i] ELSE c
        <3>1. CASE i <= n - 1
            BY <1>1, <1>2, <1>4, <2>2, <3>1
        <3>2. CASE i = n
            <4>1. i - Len(a) = 1 /\ i \in 1..Len(a) + Len(m) /\ ~(i <= Len(a))
                BY <1>1, <1>2, <1>4, <3>2
            <4> QED
                BY <1>1, <1>4, <2>2, <3>2, <4>1
        <3> QED
            BY <1>1, <3>1, <3>2
    <2> QED
        BY <2>2, <2>3, <2>4 DEF t
<1> DEFINE t == a \o m
           e == t \o b
<1> HIDE DEF t
<1>6. /\ t \in Seq(Readers) /\ Len(t) = n
      /\ \A i \in 1..n : t[i] = IF i <= n - 1 THEN q[i] ELSE c
    BY <1>5 DEF t
<1>7. /\ e \in Seq(Readers) /\ Len(e) = Len(t) + Len(b)
      /\ \A i \in 1..Len(t) + Len(b) : e[i] = IF i <= Len(t) THEN t[i] ELSE b[i - Len(t)]
    BY <1>3, <1>6, ConcatProperties
<1> HIDE DEF e
<1>8. Len(e) = Len(q) + 1
    BY <1>1, <1>3, <1>6, <1>7
<1>9. ASSUME NEW i \in 1..Len(q) + 1
      PROVE e[i] = IF i < n THEN q[i] ELSE IF i = n THEN c ELSE q[i - 1]
    <2>0. i \in 1..Len(t) + Len(b)
        BY <1>1, <1>3, <1>6
    <2>1. CASE i <= n
        <3>1. e[i] = t[i] /\ i \in 1..n
            BY <1>1, <1>6, <1>7, <2>0, <2>1
        <3> QED
            BY <1>1, <1>6, <2>1, <3>1
    <2>2. CASE i > n
        <3>1. e[i] = b[i - n] /\ i - n \in 1..Len(q) - n + 1 /\ n + (i - n) - 1 = i - 1
            BY <1>1, <1>6, <1>7, <2>0, <2>2
        <3> QED
            BY <1>1, <1>3, <2>2, <3>1
    <2> QED
        BY <1>1, <2>1, <2>2
<1>10. Placed(e, q, c, n)
    BY <1>7, <1>8, <1>9 DEF Placed
<1> QED
    BY <1>10 DEF InsertAt, e, t, a, b, m

\* A caller that is queued at a place that suits its call.
LEMMA PlacedFits ==
    ASSUME NEW e, NEW q, NEW n, NEW r, Fits(q, r), NEW c \in Readers, r[c].at # "queued",
           NEW w \in CallerStates, w.at = "queued",
           Placed(e, q, c, n),
           w.kind \in High => \A i \in 1..n - 1 : r[q[i]].kind \in High,
           \A i \in 1..Len(q) : i >= n => w.kind \in High /\ r[q[i]].kind \notin High
    PROVE Fits(e, [r EXCEPT ![c] = w])
<1> DEFINE s == [r EXCEPT ![c] = w]
<1>1. /\ q \in Seq(Readers) /\ r \in [Readers -> CallerStates]
      /\ \A i, k \in 1..Len(q) : q[i] = q[k] => i = k
      /\ \A i \in 1..Len(q) : \A k \in 1..i : r[q[i]].kind \in High => r[q[k]].kind \in High
      /\ \A d \in Readers : r[d].at = "queued" <=> \E i \in 1..Len(q) : q[i] = d
    BY DEF Fits
<1>2. /\ Len(q) \in Nat
      /\ \A i \in 1..Len(q) : q[i] \in Readers /\ q[i] # c
      /\ n \in Nat /\ n >= 1 /\ n <= Len(q) + 1
    <2>1. Len(q) \in Nat /\ \A i \in 1..Len(q) : q[i] \in Readers
        BY <1>1, ElementOfSeq, LenProperties
    <2>2. \A i \in 1..Len(q) : q[i] # c
        BY <1>1
    <2> QED
        BY <2>1, <2>2 DEF Placed
<1>3. s \in [Readers -> CallerStates] /\ \A d \in Readers : s[d] = IF d = c THEN w ELSE r[d]
    BY <1>1
<1> HIDE DEF s
<1>4. /\ e \in Seq(Readers) /\ Len(e) = Len(q) + 1
      /\ \A i \in 1..Len(q) + 1 : i < n => e[i] = q[i] /\ i \in 1..Len(q)
      /\ e[n] = c /\ n \in 1..Len(q) + 1
      /\ \A i \in 1..Len(q) + 1 : i > n => e[i] = q[i - 1] /\ i - 1 \in 1..Len(q) /\ i - 1 >= n
    BY <1>2 DEF Placed
<1>a. ASSUME NEW i \in 1..Len(q) + 1, i # n PROVE e[i] # c
    <2>1. CASE i < n
        <3>1. e[i] = q[i] /\ i \in 1..Len(q)
            BY <1>4, <2>1
        <3> QED
            BY <1>2, <3>1
    <2>2. CASE i > n
        <3>1. e[i] = q[i - 1] /\ i - 1 \in 1..Len(q)
            BY <1>4, <2>2
        <3> QED
            BY <1>2, <3>1
    <2> QED
        BY <1>2, <1>a, <2>1, <2>2
<1>5. ASSUME NEW i \in 1..Len(e), NEW k \in 1..Len(e), e[i] = e[k] PROVE i = k
    <2>0. i \in Nat /\ k \in Nat /\ i \in 1..Len(q) + 1 /\ k \in 1..Len(q) + 1
        BY <1>2, <1>4
    <2>1. CASE i = n
        <3>1. e[k] = c
            BY <1>4, <1>5, <2>1
        <3> QED
            BY <1>a, <2>0, <2>1, <3>1
    <2>2. CASE k = n
        <3>1. e[i] = c
            BY <1>4, <1>5, <2>2
        <3> QED
            BY <1>a, <2>0, <2>2, <3>1
    <2>3. CASE i < n /\ k < n
        BY <1>1, <1>4, <1>5, <2>0, <2>3
    <2>4. CASE i > n /\ k > n
        <3>1. q[i - 1] = q[k - 1] /\ i - 1 \in 1..Len(q) /\ k - 1 \in 1..Len(q)
            BY <1>4, <1>5, <2>0, <2>4
        <3>2. i - 1 = k - 1
            BY <1>1, <3>1
        <3> QED
            BY <2>0, <3>2
    <2>5. CASE i < n /\ k > n
        <3>1. q[i] = q[k - 1] /\ i \in 1..Len(q) /\ k - 1 \in 1..Len(q) /\ k - 1 >= n
            BY <1>4, <1>5, <2>0, <2>5
        <3>2. i = k - 1
            BY <1>1, <3>1
        <3> QED
            BY <1>2, <2>0, <2>5, <3>1, <3>2
    <2>6. CASE i > n /\ k < n
        <3>1. q[k] = q[i - 1] /\ k \in 1..Len(q) /\ i - 1 \in 1..Len(q) /\ i - 1 >= n
            BY <1>4, <1>5, <2>0, <2>6
        <3>2. k = i - 1
            BY <1>1, <3>1
        <3> QED
            BY <1>2, <2>0, <2>6, <3>1, <3>2
    <2> QED
        BY <1>2, <2>0, <2>1, <2>2, <2>3, <2>4, <2>5, <2>6
<1>6. ASSUME NEW i \in 1..Len(e), NEW k \in 1..i, s[e[i]].kind \in High
      PROVE s[e[k]].kind \in High
    <2>0. i \in Nat /\ k \in Nat /\ i \in 1..Len(q) + 1 /\ k \in 1..Len(q) + 1 /\ k <= i
        BY <1>2, <1>4
    <2>1. i <= n
        <3> SUFFICES ASSUME i > n PROVE FALSE
            BY <1>2, <2>0
        <3>1. e[i] = q[i - 1] /\ i - 1 \in 1..Len(q) /\ i - 1 >= n
            BY <1>4, <2>0
        <3>2. s[e[i]] = r[q[i - 1]]
            BY <1>2, <1>3, <3>1
        <3>3. r[q[i - 1]].kind \notin High
            BY <3>1
        <3> QED
            BY <1>6, <3>2, <3>3
    <2>2. CASE k = n
        BY <1>6, <2>0, <2>1, <2>2, <1>2
    <2>3. CASE k < n /\ i = n
        <3>1. e[k] = q[k] /\ k \in 1..Len(q) /\ k \in 1..n - 1
            BY <1>2, <1>4, <2>0, <2>3
        <3>2. s[e[i]] = w /\ s[e[k]] = r[q[k]]
            BY <1>2, <1>3, <1>4, <2>3, <3>1
        <3> QED
            BY <1>6, <3>1, <3>2
    <2>4. CASE k < n /\ i < n
        <3>1. e[i] = q[i] /\ e[k] = q[k] /\ i \in 1..Len(q) /\ k \in 1..Len(q)
            BY <1>4, <2>0, <2>4
        <3>2. s[e[i]] = r[q[i]] /\ s[e[k]] = r[q[k]]
            BY <1>2, <1>3, <3>1
        <3> QED
            BY <1>1, <1>6, <3>1, <3>2
    <2> QED
        BY <1>2, <2>0, <2>1, <2>2, <2>3, <2>4
<1>7. ASSUME NEW d \in Readers PROVE s[d].at = "queued" <=> \E i \in 1..Len(e) : e[i] = d
    <2>1. CASE d = c
        BY <1>3, <1>4, <2>1
    <2>2. CASE d # c
        <3>1. s[d].at = r[d].at
            BY <1>3, <2>2
        <3>2. ASSUME NEW i \in 1..Len(q), q[i] = d PROVE \E j \in 1..Len(e) : e[j] = d
            <4>1. CASE i < n
                <5>1. i \in 1..Len(q) + 1
                    BY <1>2
                <5> QED
                    BY <1>4, <3>2, <4>1, <5>1
            <4>2. CASE ~(i < n)
                <5>1. i + 1 \in 1..Len(q) + 1 /\ i + 1 > n /\ (i + 1) - 1 = i
                    BY <1>2, <4>2
                <5>2. e[i + 1] = d
                    BY <1>4, <3>2, <5>1
                <5> QED
                    BY <1>4, <5>1, <5>2
            <4> QED
                BY <4>1, <4>2
        <3>3. ASSUME NEW j \in 1..Len(e), e[j] = d PROVE \E i \in 1..Len(q) : q[i] = d
            <4>1. j \in Nat /\ j \in 1..Len(q) + 1 /\ j # n
                BY <1>2, <1>4, <2>2, <3>3
            <4>2. CASE j < n
                BY <1>4, <3>3, <4>1, <4>2
            <4>3. CASE j > n
                BY <1>4, <3>3, <4>1, <4>3
            <4> QED
                BY <1>2, <4>1, <4>2, <4>3
        <3> QED
            BY <1>1, <3>1, <3>2, <3>3
    <2> QED
        BY <2>1, <2>2
<1>8. Fits(e, s)
    BY <1>3, <1>4, <1>5, <1>6, <1>7 DEF Fits
<1> QED
    BY <1>8 DEF s

LEMMA EnqueuedFits ==
    ASSUME LimiterInv, NEW c \in Readers, reader[c].at # "queued",
           NEW w \in CallerStates, w.at = "queued"
    PROVE Fits(Enqueued(c, [reader EXCEPT ![c] = w]), [reader EXCEPT ![c] = w])
<1> DEFINE s == [reader EXCEPT ![c] = w]
           q == readQueue
           n == FirstNormal(q, s)
<1>1. /\ Fits(q, reader) /\ q \in Seq(Readers) /\ Len(q) \in Nat
      /\ \A i \in 1..Len(q) : q[i] \in Readers
      /\ \A i \in 1..Len(q) : \A k \in 1..i : reader[q[i]].kind \in High => reader[q[k]].kind \in High
      /\ \A d \in Readers : reader[d].at = "queued" <=> \E i \in 1..Len(q) : q[i] = d
      /\ reader \in [Readers -> CallerStates]
    <2>1. Fits(q, reader)
        BY DEF LimiterInv
    <2> QED
        BY <2>1, ElementOfSeq, LenProperties DEF Fits
<1>2. \A i \in 1..Len(q) : q[i] # c
    BY <1>1
<1>3. s[c] = w /\ \A i \in 1..Len(q) : s[q[i]] = reader[q[i]]
    BY <1>1, <1>2
<1>4. CASE w.kind \in High
    <2>1. /\ n \in 1..Len(q) + 1
          /\ \A i \in 1..n - 1 : s[q[i]].kind \in High
          /\ n <= Len(q) => s[q[n]].kind \notin High
        <3> HIDE DEF s, q
        <3> QED
            BY <1>1, FirstNormalIsFound
    <2> HIDE DEF n
    <2>2. \A i \in 1..n - 1 : reader[q[i]].kind \in High
        BY <1>1, <1>3, <2>1
    <2>3. ASSUME NEW i \in 1..Len(q), i >= n PROVE reader[q[i]].kind \notin High
        <3>1. n \in 1..Len(q) /\ n \in 1..i
            BY <1>1, <2>1, <2>3
        <3>2. reader[q[n]].kind \notin High
            BY <1>1, <1>3, <2>1, <3>1
        <3> QED
            BY <1>1, <3>1, <3>2
    <2>4. Enqueued(c, s) = InsertAt(q, n, c)
        BY <1>3, <1>4 DEF Enqueued, n
    <2>5. Placed(InsertAt(q, n, c), q, c, n)
        BY <1>1, <2>1, InsertPlaces
    <2> DEFINE e == InsertAt(q, n, c)
    <2>6. Placed(e, q, c, n)
        BY <2>5
    <2> HIDE DEF e, q
    <2>7. Fits(e, [reader EXCEPT ![c] = w])
        BY <1>1, <1>4, <2>2, <2>3, <2>6, PlacedFits
    <2> QED
        BY <2>4, <2>7 DEF e
<1>5. CASE w.kind \notin High
    <2>1. Enqueued(c, s) = Append(q, c)
        BY <1>3, <1>5 DEF Enqueued
    <2>2. Placed(Append(q, c), q, c, Len(q) + 1)
        BY <1>1, AppendPlaces
    <2> DEFINE e == Append(q, c)
               m == Len(q) + 1
    <2>3. Placed(e, q, c, m) /\ \A i \in 1..Len(q) : ~(i >= m)
        BY <1>1, <2>2
    <2> HIDE DEF e, q, m
    <2>4. Fits(e, [reader EXCEPT ![c] = w])
        BY <1>1, <1>5, <2>3, PlacedFits
    <2> QED
        BY <2>1, <2>4 DEF e
<1> QED
    BY <1>4, <1>5

LEMMA NoneMoreUnderway ==
    ASSUME NEW c \in Readers, NEW w, w.at # "active", reader \in [Readers -> CallerStates]
    PROVE Underway([reader EXCEPT ![c] = w]) \subseteq Underway(reader)
BY DEF Underway

\* A caller queues, and a caller's call ends.
LEMMA QueueKeeps ==
    ASSUME LimiterInv, NEW c \in Readers, reader[c].at # "queued",
           NEW w \in CallerStates, w.at = "queued", Queue(c, w)
    PROVE LimiterInv'
<1> DEFINE r == [reader EXCEPT ![c] = w]
           e == Enqueued(c, r)
<1>1. Fits(e, r)
    BY EnqueuedFits
<1>2. Underway(r) \subseteq Underway(reader)
    <2>1. reader \in [Readers -> CallerStates] /\ w.at # "active"
        BY DEF LimiterInv, Fits
    <2> QED
        BY <2>1, NoneMoreUnderway
<1>3. CallPump(e, r, cooldown) /\ limitAges' = limitAges /\ cooldown' = cooldown
    BY DEF Queue
<1>4. cooldown \in Nat /\ limitAges' \in Seq(0..Window) /\ cooldown' \in Nat
    BY <1>3 DEF LimiterInv
<1> HIDE DEF e, r
<1> QED
    BY <1>1, <1>2, <1>3, <1>4, CallPumpKeeps

LEMMA EndKeeps ==
    ASSUME LimiterInv, NEW c \in Readers, reader[c].at = "active",
           NEW w \in CallerStates, w.at \notin {"active", "queued"},
           limitAges' \in Seq(0..Window), cooldown' \in Nat, End(c, w)
    PROVE LimiterInv'
<1> DEFINE r == [reader EXCEPT ![c] = w]
<1>1. Fits(readQueue, r)
    BY StaysOut DEF LimiterInv
<1>2. Underway(r) \subseteq Underway(reader)
    <2>1. reader \in [Readers -> CallerStates] /\ w.at # "active"
        BY DEF LimiterInv, Fits
    <2> QED
        BY <2>1, NoneMoreUnderway
<1>3. CallPump(readQueue, r, cooldown')
    BY DEF End
<1> HIDE DEF r
<1> QED
    BY <1>1, <1>2, <1>3, CallPumpKeeps

LEMMA RestTyped ==
    ASSUME LimiterInv, NEW c \in Readers
    PROVE Ended(c) \in CallerStates /\ Ended(c).at = "idle"
<1>1. reader[c] \in CallerStates
    BY DEF LimiterInv, Fits
<1>2. reader[c].asks \in 0..MaxAsks
    BY <1>1 DEF CallerStates
<1>3. Ended(c) = [at |-> "idle", kind |-> "normal", attempt |-> 0, looks |-> 0, pause |-> 0,
                  asks |-> reader[c].asks]
    BY DEF Ended, AtRest
<1> QED
    BY <1>2, <1>3, Bounds DEF CallerStates, CallKinds

LEMMA PausedTyped ==
    ASSUME LimiterInv, NEW c \in Readers, NEW n \in 0..ReadAttempts, NEW k \in 0..Looks
    PROVE Paused(c, n, k) \in CallerStates /\ Paused(c, n, k).at = "backoff"
<1>1. reader[c] \in CallerStates
    BY DEF LimiterInv, Fits
<1> QED
    BY <1>1 DEF Paused, CallerStates

LEMMA RetriedTyped ==
    ASSUME LimiterInv, NEW c \in Readers
    PROVE Retried(c) \in CallerStates /\ Retried(c).at \in {"idle", "backoff"}
<1>1. reader[c] \in CallerStates
    BY DEF LimiterInv, Fits
<1>2. reader[c].attempt \in 0..ReadAttempts /\ reader[c].looks \in 0..Looks
    BY <1>1 DEF CallerStates
<1>3. CASE reader[c].attempt < AttemptsFor(reader[c].kind)
    <2>1. reader[c].attempt + 1 \in 0..ReadAttempts
        BY <1>2, <1>3, Bounds DEF AttemptsFor
    <2>2. Retried(c) = Paused(c, reader[c].attempt + 1, reader[c].looks)
        BY <1>3 DEF Retried
    <2> QED
        BY <1>2, <2>1, <2>2, PausedTyped
<1>4. CASE ~(reader[c].attempt < AttemptsFor(reader[c].kind))
    BY <1>4, RestTyped DEF Retried
<1> QED
    BY <1>3, <1>4

LEMMA RateLimitTyped ==
    ASSUME limitAges \in Seq(0..Window), cooldown \in Nat, NoteRateLimit
    PROVE limitAges' \in Seq(0..Window) /\ cooldown' \in Nat
<1> DEFINE kept == Kept(limitAges)
           events == Append(kept, 0)
           n == Smaller(6, Len(events))
<1>1. kept \in Seq(0..Window) /\ Len(kept) \in Nat
    BY KeptShortens, LenProperties
<1>2. events \in Seq(0..Window) /\ Len(events) = Len(kept) + 1
    <2> HIDE DEF kept
    <2> QED
        BY <1>1, AgesGrow
<1>3. limitAges' = events
      /\ cooldown' = Larger(cooldown, Smaller(MaxCooldown, RateLimitCooldown * Power[n]))
    BY DEF NoteRateLimit
<1> HIDE DEF kept, events
<1>4. n \in 1..6
    BY <1>1, <1>2 DEF Smaller
<1>5. Power[n] \in {1, 2, 4, 8, 16, 32}
    <2> HIDE DEF n
    <2> QED
        BY <1>4 DEF Power
<1> DEFINE k == Power[n]
<1>6. k \in {1, 2, 4, 8, 16, 32}
    BY <1>5
<1> HIDE DEF k
<1>7. RateLimitCooldown * k \in Nat
    <2>1. RateLimitCooldown \in Nat
        BY Bounds
    <2> QED
        BY <1>6, <2>1
<1> DEFINE own == RateLimitCooldown * k
<1>8. own \in Nat /\ cooldown' = Larger(cooldown, Smaller(MaxCooldown, own))
    BY <1>3, <1>7 DEF k
<1> HIDE DEF own
<1>9. cooldown' \in Nat
    BY <1>8, Bounds DEF Larger, Smaller
<1> QED
    BY <1>2, <1>3, <1>9

LEMMA TickKeeps ==
    ASSUME LimiterInv, Tick
    PROVE LimiterInv'
<1>1. reader \in [Readers -> CallerStates] /\ readQueue \in Seq(Readers)
    BY DEF LimiterInv, Fits
<1>2. ASSUME NEW c \in Readers
      PROVE /\ reader'[c] \in CallerStates
            /\ reader'[c].at = reader[c].at /\ reader'[c].kind = reader[c].kind
    <2>1. reader[c] \in CallerStates
        BY <1>1
    <2>2. reader'[c] = [reader[c] EXCEPT !.pause = Less(reader[c].pause)]
        BY DEF Tick
    <2>3. Less(reader[c].pause) \in Nat
        <3>1. reader[c].pause \in Nat
            BY <2>1 DEF CallerStates
        <3> QED
            BY <3>1 DEF Less
    <2> QED
        BY <2>1, <2>2, <2>3 DEF CallerStates
<1>3. reader' \in [Readers -> CallerStates]
    <2>1. reader' = [c \in Readers |-> reader'[c]]
        BY DEF Tick
    <2> QED
        BY <1>2, <2>1
<1>4. Fits(readQueue, reader')
    <2>1. \A i \in 1..Len(readQueue) : readQueue[i] \in Readers
        BY <1>1, ElementOfSeq
    <2>2. \A i \in 1..Len(readQueue) : \A k \in 1..i : k \in 1..Len(readQueue)
        <3>1. Len(readQueue) \in Nat
            BY <1>1, LenProperties
        <3> QED
            BY <3>1
    <2> QED
        BY <1>2, <1>3, <2>1, <2>2 DEF LimiterInv, Fits
<1>5. Underway(reader') = Underway(reader)
    BY <1>2 DEF Underway
<1>6. /\ startAges' \in Seq(0..Window) /\ limitAges' \in Seq(0..Window)
      /\ Len(Kept(startAges')) <= Len(Kept(startAges))
    BY OlderKeepsFewer DEF LimiterInv, Tick
<1>7. Len(Kept(startAges')) <= WindowLimit
    <2>1. Len(Kept(startAges')) \in Nat /\ Len(Kept(startAges)) \in Nat
        BY <1>6, KeptShortens, LenProperties DEF LimiterInv
    <2> QED
        BY <1>6, <2>1, Bounds DEF LimiterInv
<1>8. lastStart' \in 0..MinInterval /\ cooldown' \in Nat /\ nap' \in Nat
    <2>1. /\ lastStart \in 0..MinInterval /\ cooldown \in Nat /\ nap \in Nat
          /\ lastStart' = Smaller(lastStart + 1, MinInterval)
          /\ cooldown' = Less(cooldown) /\ nap' = Less(nap)
        BY DEF LimiterInv, Tick
    <2> QED
        BY <2>1, Bounds DEF Less, Smaller
<1>9. readQueue' = readQueue /\ pumping' = pumping
    BY DEF Tick
<1> QED
    BY <1>4, <1>5, <1>6, <1>7, <1>8, <1>9 DEF LimiterInv, QueueIsServed

LEMMA LimiterSteps ==
    ASSUME LimiterInv, LimiterNext
    PROVE LimiterInv'
<1>0. /\ reader \in [Readers -> CallerStates]
      /\ limitAges \in Seq(0..Window) /\ cooldown \in Nat
    BY DEF LimiterInv, Fits
<1>1. ASSUME NEW c \in Readers, AskAgain(c) PROVE LimiterInv'
    <2> DEFINE w == [reader[c] EXCEPT !.at = "queued"]
    <2>1. reader[c] \in CallerStates /\ reader[c].at # "queued"
        BY <1>0, <1>1 DEF AskAgain
    <2>2. w \in CallerStates /\ w.at = "queued"
        BY <2>1 DEF CallerStates
    <2>3. Queue(c, w)
        BY <1>1 DEF AskAgain
    <2> HIDE DEF w
    <2> QED
        BY <2>1, <2>2, <2>3, QueueKeeps
<1>2. ASSUME NEW c \in Readers, NEW kind \in Asks[c], AskFor(c, kind) PROVE LimiterInv'
    <2> DEFINE w == [at |-> "queued", kind |-> kind, attempt |-> 1, looks |-> 1, pause |-> 0,
                     asks |-> reader[c].asks + 1]
    <2>1. reader[c].at # "queued" /\ reader[c].asks < MaxAsks /\ reader[c].asks \in 0..MaxAsks
        BY <1>0, <1>2 DEF AskFor, CallerStates
    <2>2. kind \in CallKinds
        BY <1>2, ReadLimiterAssumption DEF CallKinds
    <2>3. w \in CallerStates /\ w.at = "queued"
        BY <2>1, <2>2, Bounds DEF CallerStates
    <2>4. Queue(c, w)
        BY <1>2 DEF AskFor
    <2> HIDE DEF w
    <2> QED
        BY <2>1, <2>3, <2>4, QueueKeeps
<1>3. ASSUME NEW c \in Readers, Answered(c) PROVE LimiterInv'
    <2>0. /\ limitAges' \in Seq(0..Window) /\ cooldown' \in Nat /\ reader[c].at = "active"
          /\ reader[c] \in CallerStates
        BY <1>0, <1>3 DEF Answered
    <2>1. ASSUME End(c, Ended(c)) PROVE LimiterInv'
        BY <2>0, <2>1, RestTyped, EndKeeps
    <2>2. ASSUME reader[c].looks # Looks, End(c, Paused(c, 1, reader[c].looks + 1)) PROVE LimiterInv'
        <3>1. reader[c].looks + 1 \in 0..Looks /\ 1 \in 0..ReadAttempts
            BY <2>0, <2>2, Bounds DEF CallerStates
        <3> QED
            BY <2>0, <2>2, <3>1, PausedTyped, EndKeeps
    <2>3. End(c, Ended(c)) \/ (reader[c].looks # Looks /\ End(c, Paused(c, 1, reader[c].looks + 1)))
        BY <1>3 DEF Answered
    <2> QED
        BY <2>1, <2>2, <2>3
<1>4. ASSUME NEW c \in Readers, Failed(c) PROVE LimiterInv'
    <2>0. limitAges' \in Seq(0..Window) /\ cooldown' \in Nat /\ reader[c].at = "active"
        BY <1>0, <1>4 DEF Failed
    <2>1. CASE End(c, Ended(c))
        BY <2>0, <2>1, RestTyped, EndKeeps
    <2>2. CASE End(c, Retried(c))
        BY <2>0, <2>2, RetriedTyped, EndKeeps
    <2> QED
        BY <1>4, <2>1, <2>2 DEF Failed
<1>5. ASSUME NEW c \in Readers, RateLimited(c) PROVE LimiterInv'
    <2>1. limitAges' \in Seq(0..Window) /\ cooldown' \in Nat
        BY <1>0, <1>5, RateLimitTyped DEF RateLimited
    <2>2. reader[c].at = "active" /\ End(c, Retried(c))
        BY <1>5 DEF RateLimited
    <2> QED
        BY <2>1, <2>2, RetriedTyped, EndKeeps
<1>6. ASSUME Wake PROVE LimiterInv'
    <2>1. limitAges' \in Seq(0..Window) /\ cooldown' \in Nat /\ Pump(readQueue, reader, cooldown)
        BY <1>0, <1>6 DEF Wake
    <2> QED
        BY <1>0, <2>1, PumpKeeps DEF LimiterInv
<1>7. ASSUME Tick PROVE LimiterInv'
    BY <1>7, TickKeeps
<1> QED
    BY <1>1, <1>2, <1>3, <1>4, <1>5, <1>6, <1>7 DEF LimiterNext, CallEnds

LEMMA LimiterBegins ==
    ASSUME LimiterInit
    PROVE LimiterInv
<1>1. readQueue = <<>> /\ startAges = <<>> /\ limitAges = <<>>
      /\ readQueue \in Seq(Readers) /\ startAges \in Seq(0..Window) /\ limitAges \in Seq(0..Window)
      /\ Len(readQueue) = 0 /\ Len(startAges) = 0
    BY DEF LimiterInit
<1>2. reader \in [Readers -> CallerStates] /\ \A c \in Readers : reader[c].at = "idle"
    BY Bounds DEF LimiterInit, AtRest, CallerStates, CallKinds
<1>3. Fits(readQueue, reader)
    BY <1>1, <1>2 DEF Fits
<1>4. Cardinality(Underway(reader)) <= MaxConcurrency
    <2>1. Underway(reader) = {}
        BY <1>2 DEF Underway
    <2> QED
        BY <2>1, FS_EmptySet, Bounds
<1>5. Len(Kept(startAges)) <= WindowLimit
    <2>1. Kept(startAges) \in Seq(0..Window) /\ Len(Kept(startAges)) <= 0
        BY <1>1, KeptShortens
    <2> QED
        BY <2>1, Bounds, LenProperties
<1>6. lastStart \in 0..MinInterval /\ cooldown \in Nat /\ nap \in Nat /\ pumping \in BOOLEAN
    <2>1. lastStart \in 0..MinInterval /\ cooldown \in Nat /\ nap \in Nat
        BY Bounds DEF LimiterInit
    <2>2. pumping \in BOOLEAN
        BY DEF LimiterInit
    <2> QED
        BY <2>1, <2>2
<1>7. QueueIsServed
    BY <1>1 DEF QueueIsServed
<1> QED
    BY <1>1, <1>3, <1>4, <1>5, <1>6, <1>7 DEF LimiterInv

(***************************************************************************)
(* The log of one wallet                                                   *)
(***************************************************************************)
\* The greatest and the least of a set of numbers that has a bound.
LEMMA MaxIs ==
    ASSUME NEW n \in Nat, NEW S \in SUBSET (0..n), S # {}
    PROVE Max(S) \in S /\ \A y \in S : y <= Max(S)
<1> DEFINE U == {k \in Nat : \A y \in S : y <= k}
<1>1. n \in U
    OBVIOUS
<1>2. PICK x \in U : \A k \in U : x <= k
    <2>1. U \in SUBSET Nat /\ U # {}
        BY <1>1
    <2> HIDE DEF U
    <2> QED
        BY <2>1, LeastExists
<1>3. x \in S
    <2> SUFFICES ASSUME x \notin S PROVE FALSE
        OBVIOUS
    <2>1. x \in Nat /\ \A y \in S : y \in Nat /\ y < x
        BY <1>2
    <2>2. x # 0 /\ x - 1 \in Nat
        <3>1. PICK y \in S : y \in Nat /\ y < x
            BY <2>1
        <3> QED
            BY <2>1, <3>1
    <2>3. x - 1 \in U
        BY <2>1, <2>2
    <2> QED
        BY <1>2, <2>1, <2>2, <2>3
<1>4. \E m \in S : \A y \in S : m >= y
    BY <1>2, <1>3
<1>5. Max(S) \in S /\ \A y \in S : Max(S) >= y
    BY <1>4 DEF Max
<1> QED
    BY <1>5

LEMMA MinIs ==
    ASSUME NEW S \in SUBSET Nat, S # {}
    PROVE Min(S) \in S /\ \A y \in S : Min(S) <= y
<1>1. \E m \in S : \A y \in S : m <= y
    BY LeastExists
<1> QED
    BY <1>1 DEF Min

\* The newest of some versions: none is newer than one of them, and there is
\* one whenever there is a version.
LEMMA NewestAreNewest ==
    ASSUME NEW n \in Nat, NEW S \in SUBSET (1..n)
    PROVE /\ Newest(S) \subseteq S
          /\ \A v \in Newest(S), w \in S : w > v => w \in Newest(S)
          /\ S # {} => Newest(S) # {}
<1> DEFINE Above(v) == {w \in S : w > v}
<1>0. \A v \in S : v \in Nat
    OBVIOUS
<1>1. \A v : IsFiniteSet(Above(v)) /\ Cardinality(Above(v)) \in Nat
    <2>1. IsFiniteSet(S)
        <3>1. IsFiniteSet(1..n)
            BY FS_Interval
        <3> QED
            BY <3>1, FS_Subset
    <2> QED
        BY <2>1, FS_Subset, FS_CardinalityType
<1>2. BatchSize \in Nat /\ BatchSize > 0
    BY HistoryAssumption
<1>3. \A v : v \in Newest(S) <=> v \in S /\ Cardinality(Above(v)) < BatchSize
    BY DEF Newest
<1>4. ASSUME NEW v \in Newest(S), NEW w \in S, w > v PROVE w \in Newest(S)
    <2>1. Above(w) \subseteq Above(v)
        <3>1. v \in Nat /\ w \in Nat
            <4>1. v \in S
                BY <1>3
            <4> QED
                BY <1>0, <4>1
        <3>2. ASSUME NEW u \in S, u > w PROVE u > v
            BY <1>0, <1>4, <3>1, <3>2
        <3> QED
            BY <3>2
    <2>2. Cardinality(Above(w)) <= Cardinality(Above(v))
        <3> HIDE DEF Above
        <3> QED
            BY <1>1, <2>1, FS_Subset
    <2>3. Cardinality(Above(v)) < BatchSize
        BY <1>3
    <2> HIDE DEF Above
    <2> QED
        BY <1>1, <1>2, <1>3, <2>2, <2>3
<1>5. ASSUME S # {} PROVE Newest(S) # {}
    <2> DEFINE m == Max(S)
    <2>1. m \in S /\ \A y \in S : y <= m
        <3>1. S \in SUBSET (0..n)
            OBVIOUS
        <3> QED
            BY <1>5, <3>1, MaxIs
    <2> HIDE DEF m
    <2>2. Above(m) = {}
        <3>1. ASSUME NEW w \in S, w > m PROVE FALSE
            <4>1. w \in Nat /\ m \in Nat /\ w <= m
                BY <1>0, <2>1
            <4> QED
                BY <3>1, <4>1
        <3> QED
            BY <3>1
    <2>3. Cardinality(Above(m)) = 0
        BY <2>2, FS_EmptySet, Zenon
    <2> QED
        BY <1>2, <1>3, <2>1, <2>3
<1> QED
    BY <1>3, <1>4, <1>5

Kinds == {"external", "own", "empty"}
Fees == {"unknown", "asking", "tried", "known"}
OwnOnes == {v \in 1..Length : onChain[v] = "own"}
Pages(n) == [busy : BOOLEAN, left : SUBSET (1..n), more : BOOLEAN, last : 0..Versions, wrote : BOOLEAN]
Syncs == [row : BOOLEAN, more : BOOLEAN, before : 0..Versions]

\* HistoryTypeOK, and how the chain and a page are bounded.
HistoryTyped ==
    /\ Length \in 0..Versions
    /\ onChain \in [1..Length -> Kinds]
    /\ stored \subseteq 1..Length
    /\ sync \in Syncs
    /\ page \in Pages(Length)
    /\ fee \in [OwnOnes -> Fees]
    /\ excused \in BOOLEAN

\* An external transfer that the log misses.
Lost(u) == u \in 1..Length /\ onChain[u] = "external" /\ u \notin stored

\* Below a copied record only what the next page asks for is missing.
CaughtUp ==
    \A w \in stored : \A u \in 1..Length :
        Lost(u) /\ u < w => sync.more /\ u < sync.before /\ sync.before <= w

\* The page that is worked on will store u, or its row will say that there is
\* more, and from where.
StillToCome(u) ==
    u \in page.left \/ (page.more /\ u < page.last /\ \A x \in page.left : u < x)

\* What is missing below a record of the page, or below a copied one, is still
\* to come; and then the copied one is newer than what is left of the page.
PageFits ==
    /\ \A x \in page.left : \A u \in 1..Length : Lost(u) /\ u < x => StillToCome(u)
    /\ \A w \in stored : \A u \in 1..Length :
          Lost(u) /\ u < w =>
             StillToCome(u) /\ page.last <= w /\ \A x \in page.left : x < w

HistoryInv ==
    /\ HistoryTyped
    /\ ShownOnce
    /\ sync.more => sync.before >= 1
    /\ page.busy /\ page.more => page.last >= 1
    /\ excused \/ (page.busy /\ page.wrote) \/ CaughtUp
    /\ excused \/ ~page.busy \/ PageFits

LEMMA HistoryInvSays ==
    ASSUME HistoryInv
    PROVE HistoryTypeOK /\ ShownOnce /\ NothingSkipped
<1>1. HistoryTypeOK
    BY DEF HistoryInv, HistoryTyped, HistoryTypeOK, Pages, Syncs, Kinds, Fees, OwnOnes
<1>2. ASSUME ~excused, ~page.busy, NEW v \in 1..Length, onChain[v] = "external",
             NEW w \in stored, v < w, v \notin stored
      PROVE sync.more /\ v < sync.before
    <2>1. CaughtUp /\ Lost(v)
        BY <1>2 DEF HistoryInv, Lost
    <2> QED
        BY <1>2, <2>1 DEF CaughtUp
<1> QED
    BY <1>1, <1>2 DEF NothingSkipped, HistoryInv

LEMMA HistoryBegins ==
    ASSUME HistoryInit
    PROVE HistoryInv
<1>1. DOMAIN onChain = {} /\ stored = {} /\ DOMAIN fee = {}
    BY DEF HistoryInit
<1>2. Length = 0
    BY <1>1, FS_EmptySet DEF Length
<1>3. HistoryTyped
    <2>1. 1..Length = {} /\ Length \in 0..Versions /\ 0 \in 0..Versions
        BY <1>2, HistoryAssumption
    <2>2. onChain \in [1..Length -> Kinds]
        BY <2>1 DEF HistoryInit
    <2>3. OwnOnes = {} /\ fee \in [OwnOnes -> Fees]
        BY <2>1 DEF HistoryInit, OwnOnes
    <2>4. sync \in Syncs
        BY <2>1 DEF HistoryInit, Sync, Syncs
    <2>5. page \in Pages(Length)
        BY <2>1 DEF HistoryInit, NoPage, Pages
    <2>6. excused \in BOOLEAN
        BY DEF HistoryInit
    <2> QED
        BY <1>1, <2>1, <2>2, <2>3, <2>4, <2>5, <2>6 DEF HistoryTyped
<1>4. ~sync.more /\ ~page.busy
    BY DEF HistoryInit, Sync, NoPage
<1>5. CaughtUp
    BY <1>1 DEF CaughtUp
<1> QED
    BY <1>1, <1>3, <1>4, <1>5 DEF HistoryInv, ShownOnce

\* Whatever is missing, of that it is said with the same words after a step
\* that keeps the chain and the copies.
LEMMA HappensKeeps ==
    ASSUME HistoryInv, NEW kind \in Kinds, Happens(kind)
    PROVE HistoryInv'
<1> DEFINE n == Length
<1>1. n \in 0..Versions /\ n < Versions /\ Versions \in Nat
    BY HistoryAssumption DEF HistoryInv, HistoryTyped, Happens
<1>2. DOMAIN onChain' = 1..n + 1 /\ Length' = n + 1
    <2>1. DOMAIN onChain' = 1..n + 1
        BY DEF Happens
    <2>2. Cardinality(1..n + 1) = n + 1
        BY <1>1, FS_Interval
    <2> QED
        BY <2>1, <2>2, Zenon DEF Length
<1>3. \A v \in 1..n + 1 : onChain'[v] = IF v > n THEN kind ELSE onChain[v]
    BY DEF Happens
<1>4. /\ \A v \in 1..n : onChain'[v] = onChain[v] /\ onChain[v] \in Kinds
      /\ UNCHANGED <<stored, sync, page, excused>>
      /\ stored \subseteq 1..n
    <2>1. onChain \in [1..n -> Kinds] /\ stored \subseteq 1..n
        BY DEF HistoryInv, HistoryTyped
    <2>2. UNCHANGED <<stored, sync, page, excused>>
        BY DEF Happens
    <2> QED
        BY <1>1, <1>3, <2>1, <2>2
<1> HIDE DEF n
<1>5. HistoryTyped'
    <2>1. onChain' \in [1..n + 1 -> Kinds]
        <3>1. onChain' = [v \in 1..n + 1 |-> onChain'[v]]
            BY DEF Happens, n
        <3>2. \A v \in 1..n + 1 : onChain'[v] \in Kinds
            BY <1>1, <1>3, <1>4
        <3> QED
            BY <3>1, <3>2
    <2>2. fee' \in [OwnOnes' -> Fees]
        <3>1. fee \in [OwnOnes -> Fees]
            BY DEF HistoryInv, HistoryTyped
        <3>2. OwnOnes' = {w \in 1..n + 1 : onChain'[w] = "own"}
            BY <1>2 DEF OwnOnes
        <3>3. fee' = [v \in OwnOnes' |-> IF v > n THEN "unknown" ELSE fee[v]]
            BY <3>2 DEF Happens, n
        <3>4. ASSUME NEW v \in OwnOnes' PROVE (IF v > n THEN "unknown" ELSE fee[v]) \in Fees
            <4>1. CASE v > n
                BY <4>1 DEF Fees
            <4>2. CASE ~(v > n)
                <5>1. v \in 1..n /\ onChain'[v] = "own"
                    BY <1>1, <3>2, <3>4, <4>2
                <5>2. v \in OwnOnes
                    BY <1>4, <5>1 DEF OwnOnes, n
                <5> QED
                    BY <3>1, <4>2, <5>2
            <4> QED
                BY <4>1, <4>2
        <3> QED
            BY <3>3, <3>4
    <2>3. page' \in Pages(n + 1)
        <3>1. page \in Pages(n) /\ 1..n \subseteq 1..n + 1
            BY <1>1 DEF HistoryInv, HistoryTyped, n
        <3> QED
            BY <1>4, <3>1 DEF Pages
    <2>4. stored' \subseteq 1..n + 1 /\ n + 1 \in 0..Versions
        BY <1>1, <1>4
    <2>5. sync' \in Syncs /\ excused' \in BOOLEAN
        BY <1>4 DEF HistoryInv, HistoryTyped
    <2> QED
        BY <1>2, <2>1, <2>2, <2>3, <2>4, <2>5 DEF HistoryTyped
<1>6. ShownOnce'
    BY <1>4 DEF HistoryInv, ShownOnce, Own
<1>7. \A u \in 1..n + 1 : Lost(u)' /\ u \in 1..n => Lost(u)
    BY <1>2, <1>4 DEF Lost, n
<1>8. \A u \in 1..n + 1, w \in 1..n : u < w => u \in 1..n
    BY <1>1
<1>9. CaughtUp => CaughtUp'
    BY <1>2, <1>4, <1>7, <1>8 DEF CaughtUp, n
<1>10. PageFits => PageFits'
    <2>1. page.left \subseteq 1..n
        BY DEF HistoryInv, HistoryTyped, Pages, n
    <2>2. \A u : StillToCome(u) => StillToCome(u)'
        BY <1>4 DEF StillToCome
    <2> QED
        BY <1>2, <1>4, <1>7, <1>8, <2>1, <2>2 DEF PageFits, n
<1> QED
    BY <1>4, <1>5, <1>6, <1>9, <1>10 DEF HistoryInv

\* The page that begins: what is missing below a copied record, or below one
\* of the page, is in it, or older than it, and then there is more.
LEMMA SyncBeginsKeeps ==
    ASSUME HistoryInv, NEW older \in BOOLEAN, SyncBegins(older)
    PROVE HistoryInv'
<1> DEFINE n == Length
           below == Below(IF older THEN sync.before ELSE 0)
           rows == Newest(below)
           least == IF rows = {} THEN 0 ELSE Min(rows)
<1>1. /\ n \in 0..Versions /\ n \in Nat /\ stored \subseteq 1..n /\ onChain \in [1..n -> Kinds]
      /\ sync.before \in 0..Versions /\ sync \in Syncs /\ Versions \in Nat
      /\ sync.more \in BOOLEAN
    BY HistoryAssumption DEF HistoryInv, HistoryTyped, Syncs
<1>2. ~page.busy /\ older = sync.more /\ UNCHANGED <<onChain, stored, sync, fee, excused>>
      /\ n' = n
    BY DEF SyncBegins, Asked, Length
<1>3. /\ page'.busy = TRUE /\ page'.left = {v \in rows : onChain[v] # "empty"}
      /\ page'.more = (rows # below) /\ page'.last = least /\ page'.wrote = FALSE
      /\ page' = [busy |-> TRUE, left |-> {v \in rows : onChain[v] # "empty"},
                  more |-> rows # below, last |-> least, wrote |-> FALSE]
    BY DEF SyncBegins
<1>4. /\ below \subseteq 1..n
      /\ ~older => \A v \in 1..n : v \in below
      /\ older => \A v \in 1..n : v \in below <=> (sync.before = 0 \/ v < sync.before)
      /\ \A v \in below, u \in 1..n : u < v => u \in below
    <2>1. below \subseteq 1..n
        BY DEF Below
    <2>2. CASE older
        <3>1. \A v \in 1..n : v \in below <=> (sync.before = 0 \/ v < sync.before)
            BY <2>2 DEF Below
        <3> HIDE DEF below
        <3> QED
            BY <1>1, <2>1, <2>2, <3>1
    <2>3. CASE ~older
        <3>1. \A v \in 1..n : v \in below
            BY <2>3 DEF Below
        <3> HIDE DEF below
        <3> QED
            BY <2>1, <2>3, <3>1
    <2> QED
        BY <2>2, <2>3
<1> HIDE DEF below, n
<1>5. /\ rows \subseteq below /\ \A v \in rows, w \in below : w > v => w \in rows
      /\ below # {} => rows # {}
    BY <1>1, <1>4, NewestAreNewest
<1> HIDE DEF rows
<1>6. /\ rows # {} => least \in rows /\ \A v \in rows : least <= v
      /\ rows = {} => least = 0
    <2>1. rows \in SUBSET Nat
        BY <1>1, <1>4, <1>5
    <2> QED
        BY <2>1, MinIs
<1> HIDE DEF least
\* what is missing below the page's bound
<1>7. ASSUME NEW u \in below, onChain[u] = "external"
      PROVE StillToCome(u)'
    <2>1. CASE u \in rows
        BY <1>3, <1>7, <2>1 DEF StillToCome
    <2>2. CASE u \notin rows
        <3>1. ASSUME NEW x \in rows PROVE u < x
            <4>1. x \in Nat /\ u \in Nat /\ x \in below
                BY <1>1, <1>4, <1>5
            <4>2. ~(u > x) /\ u # x
                BY <1>5, <2>2
            <4> QED
                BY <4>1, <4>2
        <3>2. rows # below /\ rows # {}
            BY <1>5, <2>2
        <3>3. u < least
            BY <1>6, <3>1, <3>2
        <3> QED
            BY <1>3, <3>1, <3>2, <3>3 DEF StillToCome
    <2> QED
        BY <2>1, <2>2
<1>8. \A u : Lost(u)' = Lost(u)
    BY <1>2 DEF Lost, n
<1>9. page'.left \subseteq below
    BY <1>3, <1>5
<1>10. CaughtUp => PageFits'
    <2> SUFFICES ASSUME CaughtUp PROVE PageFits'
        OBVIOUS
    <2>1. ASSUME NEW x \in page'.left, NEW u \in 1..n, Lost(u), u < x PROVE StillToCome(u)'
        BY <1>4, <1>7, <1>9, <2>1 DEF Lost
    <2>2. ASSUME NEW w \in stored, NEW u \in 1..n, Lost(u), u < w
          PROVE StillToCome(u)' /\ page'.last <= w /\ \A x \in page'.left : x < w
        <3>1. sync.more /\ u < sync.before /\ sync.before <= w
            BY <2>2 DEF CaughtUp, n
        <3>2. older /\ sync.before # 0 /\ u \in below
            BY <1>1, <1>2, <1>4, <3>1
        <3>3. \A x \in below : x \in Nat /\ x < sync.before
            BY <1>1, <1>4, <3>2
        <3>4. w \in Nat
            BY <1>1
        <3>5. \A x \in page'.left : x < w
            BY <1>1, <1>9, <3>1, <3>3, <3>4
        <3>6. least <= w
            <4>1. least \in below
                BY <1>5, <1>6, <3>2
            <4> QED
                BY <1>1, <3>1, <3>3, <3>4, <4>1
        <3> QED
            BY <1>3, <1>7, <2>2, <3>2, <3>5, <3>6 DEF Lost
    <2>3. /\ \A x \in page'.left : \A u \in 1..n : Lost(u)' /\ u < x => StillToCome(u)'
          /\ \A w \in stored' : \A u \in 1..n :
               Lost(u)' /\ u < w =>
                 StillToCome(u)' /\ page'.last <= w /\ \A x \in page'.left : x < w
        BY <1>2, <1>8, <2>1, <2>2
    <2> QED
        BY <1>2, <2>3 DEF PageFits, n
<1>11. CaughtUp' <=> CaughtUp
    BY <1>2, <1>8 DEF CaughtUp, n
<1>12. excused \/ CaughtUp
    BY <1>2 DEF HistoryInv
<1>13. page'.more => page'.last >= 1
    <2> SUFFICES ASSUME page'.more PROVE least >= 1
        BY <1>3
    <2>1. rows # {}
        BY <1>3, <1>5
    <2>2. least \in 1..n
        BY <1>4, <1>5, <1>6, <2>1
    <2> QED
        BY <1>1, <2>2
<1>14. HistoryTyped'
    <2>1. page' \in Pages(n)
        <3>1. least \in 0..Versions
            <4>1. CASE rows = {}
                BY <1>1, <1>6, <4>1
            <4>2. CASE rows # {}
                <5>1. least \in 1..n
                    BY <1>4, <1>5, <1>6, <4>2
                <5> QED
                    BY <1>1, <5>1
            <4> QED
                BY <4>1, <4>2
        <3>2. page'.left \subseteq 1..n
            BY <1>4, <1>9
        <3>3. (rows # below) \in BOOLEAN
            OBVIOUS
        <3> QED
            BY <1>3, <3>1, <3>2, <3>3 DEF Pages
    <2>2. OwnOnes' = OwnOnes
        BY <1>2 DEF OwnOnes, n
    <2> QED
        BY <1>2, <2>1, <2>2 DEF HistoryInv, HistoryTyped, n
<1> QED
    BY <1>2, <1>3, <1>10, <1>11, <1>12, <1>13, <1>14 DEF HistoryInv, ShownOnce, Own

\* A step that leaves the chain alone: what is typed before is typed after.
LEMMA TypesStay ==
    ASSUME HistoryTyped, UNCHANGED onChain, stored' \subseteq 1..Length, sync' \in Syncs,
           page' \in Pages(Length), fee' \in [OwnOnes -> Fees], excused' \in BOOLEAN
    PROVE HistoryTyped'
<1>1. Length' = Length /\ OwnOnes' = OwnOnes
    BY DEF Length, OwnOnes
<1> QED
    BY <1>1 DEF HistoryTyped

LEMMA NoPageTyped ==
    ASSUME HistoryTyped
    PROVE NoPage \in Pages(Length) /\ ~NoPage.busy /\ ~NoPage.wrote
BY HistoryAssumption DEF HistoryTyped, NoPage, Pages

\* The greatest of what is left of a page.
LEMMA NextOfPage ==
    ASSUME HistoryTyped, page.left # {}
    PROVE /\ Max(page.left) \in page.left /\ Max(page.left) \in 1..Length
          /\ \A x \in page.left : x <= Max(page.left)
<1>1. page.left \in SUBSET (0..Length) /\ Length \in Nat /\ page.left \subseteq 1..Length
    BY HistoryAssumption DEF HistoryTyped, Pages
<1> QED
    BY <1>1, MaxIs

LEMMA RecordStoredKeeps ==
    ASSUME HistoryInv, RecordStored
    PROVE HistoryInv'
<1> DEFINE n == Length
           v == Max(page.left)
<1>1. /\ HistoryTyped /\ n \in Nat /\ n \in 0..Versions /\ Versions \in Nat
      /\ page \in Pages(n) /\ page.left \subseteq 1..n /\ page.more \in BOOLEAN
      /\ stored \subseteq 1..n
    BY HistoryAssumption DEF HistoryInv, HistoryTyped, Pages
<1>2. /\ page.busy /\ page.left # {} /\ v \notin stored /\ onChain[v] # "own"
      /\ stored' = stored \cup {v}
      /\ page' = [page EXCEPT !.left = page.left \ {v}, !.last = v, !.wrote = TRUE]
      /\ UNCHANGED <<onChain, sync, fee, excused>> /\ n' = n
    BY DEF RecordStored, Known, Own, Length
<1>3. v \in page.left /\ v \in 1..n /\ \A x \in page.left : x <= v
    BY <1>1, <1>2, NextOfPage
<1> HIDE DEF v, n
<1>4. /\ page'.busy = page.busy /\ page'.left = page.left \ {v} /\ page'.more = page.more
      /\ page'.last = v /\ page'.wrote = TRUE
    BY <1>1, <1>2 DEF Pages
<1>5. HistoryTyped'
    <2>1. page' \in Pages(n)
        <3>1. v \in 0..Versions
            BY <1>1, <1>3
        <3>2. page.left \ {v} \in SUBSET (1..n)
            BY <1>1
        <3> QED
            BY <1>1, <1>2, <3>1, <3>2 DEF Pages
    <2>2. sync \in Syncs /\ fee \in [OwnOnes -> Fees] /\ excused \in BOOLEAN
        BY <1>1 DEF HistoryTyped
    <2> QED
        BY <1>1, <1>2, <1>3, <2>1, <2>2, TypesStay DEF n
<1>6. ShownOnce'
    BY <1>2 DEF HistoryInv, ShownOnce, Own
<1>7. \A u : Lost(u)' => Lost(u) /\ u # v
    BY <1>2 DEF Lost, n
<1>8. ASSUME NEW u \in 1..n, Lost(u), u # v, StillToCome(u) PROVE StillToCome(u)'
    <2>1. CASE u \in page.left
        BY <1>4, <1>8, <2>1 DEF StillToCome
    <2>2. CASE page.more /\ u < page.last /\ \A x \in page.left : u < x
        BY <1>3, <1>4, <2>2 DEF StillToCome
    <2> QED
        BY <1>8, <2>1, <2>2 DEF StillToCome
<1>9. PageFits => PageFits'
    <2> SUFFICES ASSUME PageFits PROVE PageFits'
        OBVIOUS
    <2>1. ASSUME NEW x \in page'.left, NEW u \in 1..n, Lost(u)', u < x PROVE StillToCome(u)'
        <3>1. x \in page.left /\ Lost(u) /\ u # v
            BY <1>4, <1>7, <2>1
        <3>2. StillToCome(u)
            BY <2>1, <3>1 DEF PageFits, n
        <3> QED
            BY <1>8, <3>1, <3>2
    <2>2. \A x \in page'.left : x \in Nat /\ x < v
        <3>1. ASSUME NEW x \in page'.left PROVE x \in Nat /\ x < v
            <4>1. x \in page.left /\ x # v /\ x <= v
                BY <1>3, <1>4
            <4> QED
                BY <1>1, <1>3, <4>1
        <3> QED
            BY <3>1
    <2>3. ASSUME NEW w \in stored, NEW u \in 1..n, Lost(u)', u < w
          PROVE StillToCome(u)' /\ page'.last <= w /\ \A x \in page'.left : x < w
        <3>1. Lost(u) /\ u # v
            BY <1>7, <2>3
        <3>2. StillToCome(u) /\ \A x \in page.left : x < w
            BY <2>3, <3>1 DEF PageFits, n
        <3>3. v < w /\ w \in Nat /\ v \in Nat
            BY <1>1, <1>3, <3>2
        <3> QED
            BY <1>4, <1>8, <3>1, <3>2, <3>3
    <2>4. ASSUME NEW u \in 1..n, Lost(u)', u < v
          PROVE StillToCome(u)' /\ page'.last <= v /\ \A x \in page'.left : x < v
        <3>1. Lost(u) /\ u # v
            BY <1>7, <2>4
        <3>2. StillToCome(u)
            BY <1>3, <2>4, <3>1 DEF PageFits, n
        <3>3. v <= v
            BY <1>1, <1>3
        <3> QED
            BY <1>4, <1>8, <2>2, <3>1, <3>2, <3>3
    <2>5. ASSUME NEW w \in stored', NEW u \in 1..n, Lost(u)', u < w
          PROVE StillToCome(u)' /\ page'.last <= w /\ \A x \in page'.left : x < w
        <3>1. CASE w \in stored
            BY <2>3, <2>5, <3>1
        <3>2. CASE w = v
            BY <2>4, <2>5, <3>2
        <3> QED
            BY <1>2, <3>1, <3>2
    <2> QED
        BY <1>2, <2>1, <2>5 DEF PageFits, n
<1>10. page'.more => page'.last >= 1
    BY <1>1, <1>3, <1>4
<1> QED
    BY <1>2, <1>4, <1>5, <1>6, <1>9, <1>10 DEF HistoryInv

\* A step that ends the page: what is said of the log while no page is worked
\* on holds, or is excused.
LEMMA PageOver ==
    ASSUME HistoryInv, UNCHANGED <<onChain, stored>>, page' = NoPage,
           sync' \in Syncs, sync'.more => sync'.before >= 1,
           fee' \in [OwnOnes -> Fees], excused' \in BOOLEAN,
           excused' \/ CaughtUp'
    PROVE HistoryInv'
<1>1. HistoryTyped /\ stored \subseteq 1..Length
    BY DEF HistoryInv, HistoryTyped
<1>2. HistoryTyped'
    BY <1>1, NoPageTyped, TypesStay
<1>3. ~page'.busy
    BY <1>1, NoPageTyped
<1>4. ShownOnce'
    BY DEF HistoryInv, ShownOnce, Own
<1> QED
    BY <1>2, <1>3, <1>4 DEF HistoryInv

\* Where no copied record misses an older one, nothing is missing.
LEMMA NoneIsMissing ==
    ASSUME HistoryInv, UNCHANGED <<onChain, stored>>,
           \A w \in stored : \A u \in 1..Length : Lost(u) => ~(u < w)
    PROVE CaughtUp'
BY DEF CaughtUp, Lost, Length

LEMMA PageMeetsKnownKeeps ==
    ASSUME HistoryInv, PageMeetsKnown
    PROVE HistoryInv'
<1> DEFINE n == Length
           v == Max(page.left)
<1>1. /\ HistoryTyped /\ n \in Nat /\ page.left \subseteq 1..n /\ stored \subseteq 1..n
      /\ fee \in [OwnOnes -> Fees] /\ excused \in BOOLEAN /\ Versions \in Nat
    BY HistoryAssumption DEF HistoryInv, HistoryTyped, Pages
<1>2. /\ page.busy /\ page.left # {}
      /\ v \in stored \/ onChain[v] = "own"
      /\ sync' = Sync(TRUE, FALSE, 0) /\ page' = NoPage
      /\ excused' = (excused \/ (v \notin stored /\ Missing(v)))
      /\ UNCHANGED <<onChain, stored, fee>>
    BY DEF PageMeetsKnown, Finish, Known, Own
<1>3. v \in page.left /\ v \in 1..n /\ \A x \in page.left : x <= v
    BY <1>1, <1>2, NextOfPage
<1> HIDE DEF v, n
<1>4. sync' \in Syncs /\ ~sync'.more
    BY <1>1, <1>2 DEF Sync, Syncs
<1>5. excused' \in BOOLEAN
    BY <1>1, <1>2, Zenon
<1>6. ASSUME ~excused' PROVE CaughtUp'
    <2>1. PageFits
        BY <1>2, <1>6 DEF HistoryInv
    <2>2. v \in stored \/ ~Missing(v)
        BY <1>2, <1>6
    <2>3. ASSUME NEW u \in 1..n, Lost(u), u < v PROVE FALSE
        <3>1. v \in stored
            <4>1. u \in 1..v - 1
                BY <1>1, <1>3, <2>3
            <4> QED
                BY <2>2, <2>3, <4>1 DEF Missing, Lost
        <3>2. v < v
            BY <1>3, <2>1, <2>3, <3>1 DEF PageFits, n
        <3> QED
            BY <1>1, <1>3, <3>2
    <2>4. ASSUME NEW w \in stored, NEW u \in 1..n, Lost(u), u < w PROVE FALSE
        <3>1. StillToCome(u)
            BY <2>1, <2>4 DEF PageFits, n
        <3>2. u # v
            BY <1>2, <2>4 DEF Lost
        <3>3. u <= v
            BY <1>1, <1>3, <3>1 DEF StillToCome
        <3> QED
            BY <1>1, <1>3, <2>3, <2>4, <3>2, <3>3
    <2> QED
        BY <1>2, <2>4, NoneIsMissing DEF n
<1> QED
    BY <1>1, <1>2, <1>4, <1>5, <1>6, PageOver

LEMMA PageEndsKeeps ==
    ASSUME HistoryInv, PageEnds
    PROVE HistoryInv'
<1>1. /\ HistoryTyped /\ stored \subseteq 1..Length /\ page \in Pages(Length)
      /\ fee \in [OwnOnes -> Fees] /\ excused \in BOOLEAN /\ Versions \in Nat
    BY HistoryAssumption DEF HistoryInv, HistoryTyped
<1>2. /\ page.busy /\ page.left = {}
      /\ sync' = Sync(TRUE, page.more, IF page.more THEN page.last ELSE 0) /\ page' = NoPage
      /\ UNCHANGED <<onChain, stored, fee, excused>>
    BY DEF PageEnds, Finish
<1>3. page.more \in BOOLEAN /\ page.last \in 0..Versions
    BY <1>1 DEF Pages
<1>4. sync'.more = page.more /\ sync'.before = IF page.more THEN page.last ELSE 0
    BY <1>2 DEF Sync
<1>5. sync' \in Syncs
    <2>1. (IF page.more THEN page.last ELSE 0) \in 0..Versions
        BY <1>1, <1>3
    <2> QED
        BY <1>2, <1>3, <2>1 DEF Sync, Syncs
<1>6. sync'.more => sync'.before >= 1
    BY <1>2, <1>4 DEF HistoryInv
<1>7. ASSUME ~excused' PROVE CaughtUp'
    <2>1. PageFits
        BY <1>2, <1>7 DEF HistoryInv
    <2>2. ASSUME NEW w \in stored, NEW u \in 1..Length, Lost(u), u < w
          PROVE sync'.more /\ u < sync'.before /\ sync'.before <= w
        <3>1. StillToCome(u) /\ page.last <= w
            BY <2>1, <2>2 DEF PageFits
        <3>2. page.more /\ u < page.last
            BY <1>2, <3>1 DEF StillToCome
        <3> QED
            BY <1>4, <3>1, <3>2
    <2>3. \A u : Lost(u)' = Lost(u)
        BY <1>2 DEF Lost, Length
    <2> QED
        BY <1>2, <2>2, <2>3 DEF CaughtUp, Length
<1>8. excused' \/ CaughtUp'
    BY <1>7
<1> QED
    BY <1>1, <1>2, <1>5, <1>6, <1>8, PageOver

\* A page that is given up: nothing was stored, or it is excused.
LEMMA GivenUpKeeps ==
    ASSUME HistoryInv, SyncRaises \/ HistoryRestarts
    PROVE HistoryInv'
<1>1. /\ HistoryTyped /\ stored \subseteq 1..Length /\ Length \in Nat
      /\ fee \in [OwnOnes -> Fees] /\ excused \in BOOLEAN /\ sync \in Syncs
    BY HistoryAssumption DEF HistoryInv, HistoryTyped
<1>2. /\ page.busy /\ page' = NoPage /\ excused' = (excused \/ CutShort)
      /\ UNCHANGED <<onChain, stored, sync>>
    BY DEF SyncRaises, HistoryRestarts
<1>3. excused' \in BOOLEAN
    BY <1>1, <1>2, Zenon DEF CutShort
<1>4. fee' \in [OwnOnes -> Fees]
    <2>1. CASE SyncRaises
        BY <1>1, <2>1 DEF SyncRaises
    <2>2. CASE HistoryRestarts
        <3>1. fee' = [v \in DOMAIN fee |-> IF fee[v] = "known" THEN "known" ELSE "unknown"]
            BY <2>2 DEF HistoryRestarts
        <3> QED
            BY <1>1, <3>1 DEF Fees
    <2> QED
        BY <2>1, <2>2
<1>5. ASSUME ~excused' PROVE CaughtUp'
    <2>1. ~CutShort /\ ~excused
        BY <1>2, <1>5
    <2>2. CASE ~page.wrote
        <3>1. CaughtUp
            BY <2>1, <2>2 DEF HistoryInv
        <3>2. \A u : Lost(u)' = Lost(u)
            BY <1>2 DEF Lost, Length
        <3> QED
            BY <1>2, <3>1, <3>2 DEF CaughtUp, Length
    <2>3. CASE page.wrote
        <3>1. ASSUME NEW w \in stored, NEW u \in 1..Length, Lost(u), u < w PROVE FALSE
            <4>1. w \in Nat /\ u \in 1..w - 1
                BY <1>1, <3>1
            <4> QED
                BY <2>1, <2>3, <3>1, <4>1 DEF CutShort, Missing, Lost
        <3> QED
            BY <1>2, <3>1, NoneIsMissing
    <2> QED
        BY <2>2, <2>3
<1>6. sync'.more => sync'.before >= 1
    BY <1>2 DEF HistoryInv
<1> QED
    BY <1>1, <1>2, <1>3, <1>4, <1>5, <1>6, PageOver

\* The fees are looked up beside all that.
LEMMA FeesAsideKeep ==
    ASSUME HistoryInv, UNCHANGED <<onChain, stored, sync, page, excused>>,
           fee' \in [OwnOnes -> Fees]
    PROVE HistoryInv'
<1>1. HistoryTyped'
    BY TypesStay DEF HistoryInv, HistoryTyped
<1>2. \A u : Lost(u)' = Lost(u) /\ StillToCome(u)' = StillToCome(u)
    BY DEF Lost, StillToCome, Length
<1>3. (CaughtUp' <=> CaughtUp) /\ (PageFits' <=> PageFits)
    BY <1>2 DEF CaughtUp, PageFits, Length
<1> QED
    BY <1>1, <1>3 DEF HistoryInv, ShownOnce, Own

LEMMA HistorySteps ==
    ASSUME HistoryInv, HistoryNext
    PROVE HistoryInv'
<1>0. fee \in [OwnOnes -> Fees]
    BY DEF HistoryInv, HistoryTyped
<1>1. ASSUME NEW v \in DOMAIN fee, BackfillBegins(v) PROVE HistoryInv'
    <2>1. fee' \in [OwnOnes -> Fees]
        BY <1>0, <1>1 DEF BackfillBegins, Fees
    <2> QED
        BY <1>1, <2>1, FeesAsideKeep DEF BackfillBegins
<1>2. ASSUME NEW v \in DOMAIN fee, CooldownOver(v) PROVE HistoryInv'
    <2>1. fee' \in [OwnOnes -> Fees]
        BY <1>0, <1>2 DEF CooldownOver, Fees
    <2> QED
        BY <1>2, <2>1, FeesAsideKeep DEF CooldownOver
<1>3. ASSUME NEW v \in DOMAIN fee, NEW found \in BOOLEAN, BackfillEnds(v, found) PROVE HistoryInv'
    <2>1. fee' \in [OwnOnes -> Fees]
        BY <1>0, <1>3 DEF BackfillEnds, Fees
    <2> QED
        BY <1>3, <2>1, FeesAsideKeep DEF BackfillEnds
<1>4. ASSUME NEW kind \in Kinds, Happens(kind) PROVE HistoryInv'
    BY <1>4, HappensKeeps
<1> QED
    BY <1>1, <1>2, <1>3, <1>4, SyncBeginsKeeps, RecordStoredKeeps, PageMeetsKnownKeeps,
       PageEndsKeeps, GivenUpKeeps DEF HistoryNext, Kinds

LEMMA HistorySame ==
    ASSUME HistoryInv, UNCHANGED historyVars
    PROVE HistoryInv'
<1>1. UNCHANGED <<onChain, stored, sync, page, excused>> /\ fee' \in [OwnOnes -> Fees]
    BY DEF historyVars, HistoryInv, HistoryTyped
<1> QED
    BY <1>1, FeesAsideKeep

(***************************************************************************)
(* Wallets, groups and balances                                            *)
(***************************************************************************)
GroupRecords ==
    [profile : {"none", "aptos_hd", "legacy_custom"}, next : 0..MaxIndex + 1, archived : 0..MaxStamp]
WalletRecords == [kind : WalletKinds, archived : 0..MaxStamp]

LEMMA BookBounds ==
    MaxIndex \in Nat /\ MaxStamp \in Nat /\ MaxEntries \in Nat /\ MaxChanges \in Nat
BY BookAssumption

LEMMA AddressParts ==
    /\ \A w \in Addresses : w[1] \in Groups /\ w[2] \in Indexes /\ w[2] \in Nat
    /\ \A h \in Groups, i \in Indexes : <<h, i>> \in Addresses
BY BookBounds DEF Addresses, Indexes

\* What the groups, their accounts and the archiving come to, said of one
\* account at a time.  A group whose accounts were never derived is NoGroup,
\* and there is no group before the old wallets have found theirs.
GroupInv ==
    /\ group \in [Groups -> GroupRecords] /\ wallet \in [Addresses -> WalletRecords]
    /\ stamp \in 0..MaxStamp
    /\ leftWith \in [Groups -> SUBSET Addresses]
    /\ \A w \in Addresses : wallet[w].archived <= stamp
    /\ \A h \in Groups : ~Exists(h) => group[h] = NoGroup
    /\ Migrated \/ \A h \in Groups : ~Exists(h)
    /\ \A w \in Addresses : wallet[w].kind = "derived" => w[2] < group[w[1]].next
    /\ \A w \in Addresses :
          wallet[w].kind = "derived" /\ group[w[1]].archived # Never =>
             /\ wallet[w].archived # Never
             /\ wallet[w].archived = group[w[1]].archived <=> w \in leftWith[w[1]]
    /\ \A h \in Groups : group[h].archived # Never =>
          \A w \in leftWith[h] : w \in Addresses /\ w[1] = h /\ wallet[w].kind = "derived"

LEMMA AccountsAre ==
    ASSUME NEW h, NEW w
    PROVE /\ w \in Accounts(h) <=> w \in Addresses /\ w[1] = h /\ wallet[w].kind = "derived"
          /\ w \in Held <=> w \in Addresses /\ wallet[w].kind # "none"
          /\ w \in ActiveWallets <=> w \in Held /\ wallet[w].archived = Never
BY DEF Accounts, Held, ActiveWallets

LEMMA GroupInvSays ==
    ASSUME GroupInv
    PROVE NumbersAreSpent /\ ComesBackAsItLeft
<1>1. NumbersAreSpent
    BY AccountsAre DEF GroupInv, NumbersAreSpent
<1>2. ASSUME NEW h \in Groups, group[h].archived # Never
      PROVE /\ Accounts(h) \cap ActiveWallets = {}
            /\ {w \in Accounts(h) : ComesBack(h, w)} = leftWith[h]
    <2>1. \A w \in Accounts(h) :
            wallet[w].archived # Never /\ (wallet[w].archived = group[h].archived <=> w \in leftWith[h])
        BY <1>2, AccountsAre DEF GroupInv
    <2>2. leftWith[h] \subseteq Accounts(h)
        BY <1>2, AccountsAre DEF GroupInv
    <2>3. Accounts(h) \cap ActiveWallets = {}
        BY <2>1, AccountsAre
    <2>4. {w \in Accounts(h) : ComesBack(h, w)} = leftWith[h]
        BY <2>1, <2>2 DEF ComesBack
    <2> QED
        BY <2>3, <2>4
<1> QED
    BY <1>1, <1>2 DEF ComesBackAsItLeft

LEMMA ArchivedAt ==
    ASSUME NEW r \in WalletRecords, NEW t \in 0..MaxStamp
    PROVE /\ [r EXCEPT !.archived = t] \in WalletRecords
          /\ [r EXCEPT !.archived = t].kind = r.kind
          /\ [r EXCEPT !.archived = t].archived = t
BY DEF WalletRecords

LEMMA GroupArchivedAt ==
    ASSUME NEW r \in GroupRecords, NEW t \in 0..MaxStamp
    PROVE /\ [r EXCEPT !.archived = t] \in GroupRecords
          /\ [r EXCEPT !.archived = t].profile = r.profile
          /\ [r EXCEPT !.archived = t].next = r.next
          /\ [r EXCEPT !.archived = t].archived = t
BY DEF GroupRecords

LEMMA GroupNumbered ==
    ASSUME NEW r \in GroupRecords, NEW n \in 0..MaxIndex + 1
    PROVE /\ [r EXCEPT !.next = n] \in GroupRecords
          /\ [r EXCEPT !.next = n].profile = r.profile
          /\ [r EXCEPT !.next = n].archived = r.archived
          /\ [r EXCEPT !.next = n].next = n
BY DEF GroupRecords

LEMMA NoGroupIs ==
    /\ NoGroup \in GroupRecords /\ NoGroup.next = 0 /\ NoGroup.archived = Never
    /\ NoGroup.profile = "none" /\ Never \in 0..MaxStamp
BY BookBounds DEF NoGroup, GroupRecords, Never

\* The greatest of some numbers of accounts.
LEMMA MaxIndexIs ==
    ASSUME NEW S \in SUBSET Indexes, S # {}
    PROVE /\ Max(S) \in S /\ Max(S) + 1 \in 0..MaxIndex + 1
          /\ \A i \in S : i \in Nat /\ i < Max(S) + 1
<1>1. S \in SUBSET (0..MaxIndex) /\ MaxIndex \in Nat
    BY BookBounds DEF Indexes
<1>2. Max(S) \in S /\ \A y \in S : y <= Max(S)
    BY <1>1, MaxIs
<1> DEFINE m == Max(S)
<1> HIDE DEF m
<1>3. m \in S /\ (\A y \in S : y <= m)
    BY <1>2 DEF m
<1>4. m \in 0..MaxIndex /\ \A i \in S : i \in Nat
    BY <1>1, <1>3
<1> QED
    BY <1>1, <1>3, <1>4 DEF m

\* A step that gives the accounts of new to group h, which is not archived,
\* and raises its next number above theirs.
LEMMA AccountsAdded ==
    ASSUME GroupInv, Migrated, NEW h \in Groups, group[h].archived = Never,
           NEW new \in SUBSET Addresses, Inserted(new), UNCHANGED <<stamp, leftWith>>,
           \A w \in new : w[1] = h,
           NEW r \in GroupRecords, r.archived = Never, r.profile # "none",
           \A w \in new : w[2] < r.next,
           \A w \in Addresses : w[2] < group[h].next => w[2] < r.next,
           group' = [group EXCEPT ![h] = r]
    PROVE GroupInv' /\ Held \subseteq Held'
<1>1. /\ \A w \in Addresses : wallet'[w] = IF w \in new THEN [kind |-> "derived", archived |-> Never]
                                            ELSE wallet[w]
      /\ \A w \in new : wallet[w].kind = "none"
      /\ wallet' = [w \in Addresses |-> wallet'[w]]
    BY DEF Inserted
<1>2. [kind |-> "derived", archived |-> Never] \in WalletRecords
    BY NoGroupIs DEF WalletRecords, WalletKinds
<1>3. wallet' \in [Addresses -> WalletRecords]
    BY <1>1, <1>2 DEF GroupInv
<1>4. group' \in [Groups -> GroupRecords] /\ \A k \in Groups : group'[k] = IF k = h THEN r ELSE group[k]
    BY DEF GroupInv
<1>5. \A w \in Addresses : wallet'[w].archived <= stamp'
    <2>1. Never <= stamp
        BY BookBounds DEF GroupInv, Never
    <2> QED
        BY <1>1, <2>1 DEF GroupInv
<1>6. Migrated'
    BY <1>1 DEF Migrated
<1>7. \A k \in Groups : ~Exists(k)' => group'[k] = NoGroup
    BY <1>4 DEF GroupInv, Exists
<1>8. ASSUME NEW w \in Addresses, wallet'[w].kind = "derived"
      PROVE /\ w[2] < group'[w[1]].next
            /\ group'[w[1]].archived # Never =>
                 /\ wallet'[w].archived # Never
                 /\ wallet'[w].archived = group'[w[1]].archived <=> w \in leftWith'[w[1]]
    <2>1. CASE w \in new
        BY <1>4, <2>1
    <2>2. CASE w \notin new
        <3>1. wallet'[w] = wallet[w] /\ w[1] \in Groups /\ w[2] < group[w[1]].next
            BY <1>1, <1>8, <2>2, AddressParts DEF GroupInv
        <3>2. CASE w[1] = h
            BY <1>4, <3>1, <3>2
        <3>3. CASE w[1] # h
            BY <1>4, <1>8, <3>1, <3>3 DEF GroupInv
        <3> QED
            BY <3>2, <3>3
    <2> QED
        BY <2>1, <2>2
<1>9. ASSUME NEW k \in Groups, group'[k].archived # Never, NEW w \in leftWith'[k]
      PROVE w \in Addresses /\ w[1] = k /\ wallet'[w].kind = "derived"
    <2>1. k # h /\ group[k].archived # Never
        BY <1>4, <1>9
    <2>2. w \in Addresses /\ w[1] = k /\ wallet[w].kind = "derived"
        BY <1>9, <2>1 DEF GroupInv
    <2> QED
        BY <1>1, <2>1, <2>2
<1>10. Held \subseteq Held'
    BY <1>1 DEF Held
<1> QED
    BY <1>3, <1>4, <1>5, <1>6, <1>7, <1>8, <1>9, <1>10 DEF GroupInv

LEMMA CreateGroupKeeps ==
    ASSUME GroupInv, NEW h \in Groups, NEW indexes \in SUBSET Indexes, indexes # {},
           CreateGroup(h, indexes)
    PROVE GroupInv' /\ Held \subseteq Held'
<1> DEFINE r == [profile |-> "aptos_hd", next |-> Max(indexes) + 1, archived |-> Never]
           new == {h} \X indexes
<1>1. /\ Migrated /\ ~Exists(h) /\ Inserted(new) /\ UNCHANGED <<stamp, leftWith>>
      /\ group' = [group EXCEPT ![h] = r]
    BY DEF CreateGroup
<1>2. new \in SUBSET Addresses /\ \A w \in new : w[1] = h /\ w[2] \in indexes
    BY DEF Addresses
<1>3. r \in GroupRecords /\ r.archived = Never /\ r.profile # "none" /\ r.next = Max(indexes) + 1
    BY MaxIndexIs, NoGroupIs DEF GroupRecords
<1>4. group[h] = NoGroup
    BY <1>1 DEF GroupInv
<1> HIDE DEF new, r
<1>5. \A w \in new : w[2] < r.next
    BY <1>2, <1>3, MaxIndexIs
<1>6. \A w \in Addresses : w[2] < group[h].next => w[2] < r.next
    BY <1>4, NoGroupIs, AddressParts
<1> QED
    BY ZenonT(60), <1>1, <1>2, <1>3, <1>4, <1>5, <1>6, NoGroupIs, AccountsAdded

LEMMA PersistedKeeps ==
    ASSUME GroupInv, NEW h \in Groups, NEW indexes \in SUBSET Indexes, indexes # {},
           Persisted(h, indexes)
    PROVE GroupInv' /\ Held \subseteq Held'
<1> DEFINE next == Bumped(h, Max(indexes) + 1)
           r == [group[h] EXCEPT !.next = next]
           new == {w \in {h} \X indexes : w \notin Accounts(h)}
<1>1. /\ Migrated /\ group[h].profile = "aptos_hd" /\ group[h].archived = Never
      /\ Inserted(new) /\ UNCHANGED <<stamp, leftWith>>
      /\ group' = [group EXCEPT ![h] = r]
    BY DEF Persisted
<1>2. new \in SUBSET Addresses /\ \A w \in new : w[1] = h /\ w[2] \in indexes
    BY DEF Addresses
<1>3. group[h] \in GroupRecords /\ group[h].next \in 0..MaxIndex + 1
    BY DEF GroupInv, GroupRecords
<1>4. next \in 0..MaxIndex + 1 /\ Max(indexes) + 1 <= next /\ group[h].next <= next
    <2> DEFINE m == Max(indexes) + 1
    <2>1. m \in 0..MaxIndex + 1
        BY MaxIndexIs
    <2> HIDE DEF m
    <2>2. Bumped(h, m) \in 0..MaxIndex + 1 /\ m <= Bumped(h, m) /\ group[h].next <= Bumped(h, m)
        BY <1>3, <2>1, BookBounds DEF Bumped
    <2> QED
        BY <2>2 DEF m
<1> HIDE DEF next, new
<1>5. r \in GroupRecords /\ r.archived = Never /\ r.profile # "none" /\ r.next = next
    <2>1. /\ r \in GroupRecords /\ r.profile = group[h].profile
          /\ r.archived = group[h].archived /\ r.next = next
        BY <1>3, <1>4, GroupNumbered
    <2> QED
        BY <1>1, <2>1
<1> HIDE DEF r
<1>6. \A w \in new : w[2] < r.next
    <2>1. ASSUME NEW w \in new PROVE w[2] < r.next
        <3>1. w[2] \in indexes /\ w[2] \in Nat /\ w[2] < Max(indexes) + 1 /\ Max(indexes) + 1 \in 0..MaxIndex + 1
            BY <1>2, MaxIndexIs
        <3> DEFINE m == Max(indexes) + 1
        <3> HIDE DEF m
        <3>2. w[2] \in Nat /\ w[2] < m /\ m \in 0..MaxIndex + 1 /\ m <= next
            BY <1>4, <3>1 DEF m
        <3> QED
            BY <1>4, <1>5, <3>2, BookBounds
    <2> QED
        BY <2>1
<1>7. \A w \in Addresses : w[2] < group[h].next => w[2] < r.next
    BY <1>3, <1>4, <1>5, AddressParts, BookBounds
<1> QED
    BY <1>1, <1>2, <1>5, <1>6, <1>7, AccountsAdded

\* A step that changes when wallets were archived, or brings in a wallet that
\* is of no group.
LEMMA WalletsChanged ==
    ASSUME GroupInv, UNCHANGED <<group, leftWith>>, stamp' \in 0..MaxStamp,
           wallet' \in [Addresses -> WalletRecords],
           \A w \in Addresses : wallet'[w].archived <= stamp',
           \A w \in Addresses :
              IF wallet[w].kind = "none" THEN wallet'[w].kind \in {"none", "standalone"}
              ELSE wallet'[w].kind = wallet[w].kind,
           \A w \in Addresses :
              wallet[w].kind = "derived" /\ group[w[1]].archived # Never =>
                 wallet'[w].archived = wallet[w].archived
    PROVE GroupInv' /\ Held \subseteq Held'
<1>1. \A w \in Addresses :
        /\ wallet'[w].kind = "derived" <=> wallet[w].kind = "derived"
        /\ wallet'[w].kind = "legacy" <=> wallet[w].kind = "legacy"
        /\ wallet[w].kind # "none" => wallet'[w].kind # "none"
    OBVIOUS
<1>2. Migrated' <=> Migrated
    BY <1>1 DEF Migrated
<1>3. \A h \in Groups : Exists(h)' <=> Exists(h)
    BY DEF Exists
<1>4. Held \subseteq Held'
    BY <1>1 DEF Held
<1>5. \A w \in Addresses :
         wallet'[w].kind = "derived" /\ group'[w[1]].archived # Never =>
             /\ wallet'[w].archived # Never
             /\ wallet'[w].archived = group'[w[1]].archived <=> w \in leftWith'[w[1]]
    BY <1>1 DEF GroupInv
<1>6. \A h \in Groups : group'[h].archived # Never =>
          \A w \in leftWith'[h] : w \in Addresses /\ w[1] = h /\ wallet'[w].kind = "derived"
    BY <1>1 DEF GroupInv
<1>7. \A w \in Addresses : wallet'[w].kind = "derived" => w[2] < group'[w[1]].next
    BY <1>1 DEF GroupInv
<1> QED
    BY <1>2, <1>3, <1>4, <1>5, <1>6, <1>7 DEF GroupInv

LEMMA MigrateLegacyKeeps ==
    ASSUME GroupInv, MigrateLegacy
    PROVE GroupInv' /\ Held \subseteq Held'
<1> DEFINE old(h) == {w[2] : w \in {v \in Addresses : v[1] = h /\ wallet[v].kind = "legacy"}}
           moved(h) == [profile |-> "aptos_hd", next |-> Max(old(h)) + 1, archived |-> Never]
<1>1. /\ ~Migrated /\ UNCHANGED <<stamp, leftWith>>
      /\ \A h \in Groups : ~Exists(h) /\ group[h] = NoGroup
    BY DEF MigrateLegacy, GroupInv
<1>2. ASSUME NEW h \in Groups
      PROVE /\ old(h) \in SUBSET Indexes
            /\ group'[h] = IF old(h) = {} THEN NoGroup ELSE moved(h)
            /\ old(h) # {} => /\ moved(h) \in GroupRecords /\ Max(old(h)) + 1 \in 0..MaxIndex + 1
                              /\ \A i \in old(h) : i < Max(old(h)) + 1
    <2>1. old(h) \in SUBSET Indexes
        BY AddressParts
    <2>2. group'[h] = IF old(h) = {} THEN group[h]
                      ELSE [profile |-> IF Exists(h) THEN group[h].profile ELSE "aptos_hd",
                            next |-> Bumped(h, Max(old(h)) + 1), archived |-> group[h].archived]
        BY DEF MigrateLegacy
    <2> HIDE DEF old
    <2>3. ASSUME old(h) # {}
          PROVE Max(old(h)) + 1 \in 0..MaxIndex + 1 /\ \A i \in old(h) : i < Max(old(h)) + 1
        BY <2>1, <2>3, MaxIndexIs
    <2>4. ASSUME old(h) # {} PROVE Bumped(h, Max(old(h)) + 1) = Max(old(h)) + 1
        <3> DEFINE m == Max(old(h)) + 1
        <3>1. m \in 0..MaxIndex + 1
            BY <2>3, <2>4
        <3> HIDE DEF m
        <3>2. ~(0 > m) /\ (group[h].next = 0)
            BY <1>1, <3>1, NoGroupIs, BookBounds
        <3>3. Bumped(h, m) = m
            BY <3>1, <3>2, BookBounds DEF Bumped
        <3> QED
            BY <3>3 DEF m
    <2>5. ASSUME old(h) # {} PROVE moved(h) \in GroupRecords
        BY <2>3, <2>5, NoGroupIs DEF GroupRecords
    <2>6. group'[h] = IF old(h) = {} THEN NoGroup ELSE moved(h)
        BY <1>1, <2>2, <2>4, NoGroupIs
    <2> QED
        BY <2>1, <2>3, <2>5, <2>6
<1>3. /\ \A w \in Addresses : wallet'[w] =
           IF wallet[w].kind = "legacy" THEN [wallet[w] EXCEPT !.kind = "derived"] ELSE wallet[w]
      /\ wallet' = [w \in Addresses |-> wallet'[w]]
    BY DEF MigrateLegacy
<1>4. ASSUME NEW w \in Addresses
      PROVE /\ wallet'[w] \in WalletRecords /\ wallet'[w].archived = wallet[w].archived
            /\ wallet'[w].kind = IF wallet[w].kind = "legacy" THEN "derived" ELSE wallet[w].kind
    <2>1. wallet[w] \in WalletRecords
        BY DEF GroupInv
    <2> QED
        BY <1>3, <2>1 DEF WalletRecords, WalletKinds
<1>5. \A w \in Addresses : wallet[w].kind = "legacy" => w[2] \in old(w[1])
    OBVIOUS
<1> DEFINE next(h) == Max(old(h)) + 1
<1> HIDE DEF old
<1>55. ASSUME NEW h \in Groups
       PROVE moved(h).next = next(h) /\ moved(h).archived = Never /\ moved(h).profile = "aptos_hd"
    OBVIOUS
<1> HIDE DEF moved
<1>6. ASSUME NEW h \in Groups, old(h) # {}
      PROVE group'[h].next = next(h) /\ group'[h].archived = Never /\ group'[h].profile = "aptos_hd"
    <2>1. group'[h] = moved(h)
        BY <1>2, <1>6
    <2> QED
        BY <1>55, <2>1
<1>7. \A h \in Groups : old(h) # {} => \A i \in old(h) : i < next(h)
    BY <1>2
<1>8. group' \in [Groups -> GroupRecords] /\ \A h \in Groups : group'[h].archived = Never
    <2>1. group' = [h \in Groups |-> group'[h]]
        BY DEF MigrateLegacy
    <2>2. ASSUME NEW h \in Groups PROVE group'[h] \in GroupRecords /\ group'[h].archived = Never
        <3>1. CASE old(h) = {}
            BY <1>2, <3>1, NoGroupIs
        <3>2. CASE old(h) # {}
            BY <1>2, <1>6, <3>2
        <3> QED
            BY <3>1, <3>2
    <2> QED
        BY <2>1, <2>2
<1> HIDE DEF next
<1>9. ASSUME NEW w \in Addresses, wallet'[w].kind = "derived" PROVE w[2] < group'[w[1]].next
    <2>1. CASE wallet[w].kind = "legacy"
        <3>1. w[1] \in Groups /\ w[2] \in old(w[1])
            BY <1>5, <2>1, AddressParts
        <3> QED
            BY <1>6, <1>7, <3>1
    <2>2. CASE wallet[w].kind # "legacy"
        <3>1. w[1] \in Groups /\ w[2] \in Nat /\ w[2] < group[w[1]].next /\ group[w[1]].next = 0
            BY <1>1, <1>4, <1>9, <2>2, AddressParts, NoGroupIs DEF GroupInv
        <3> QED
            BY <3>1
    <2> QED
        BY <2>1, <2>2
<1>10. \A h \in Groups : ~Exists(h)' => group'[h] = NoGroup
    <2>1. ASSUME NEW h \in Groups, ~Exists(h)' PROVE group'[h] = NoGroup
        <3>1. group'[h].profile = "none"
            BY <2>1 DEF Exists
        <3>2. old(h) = {}
            BY <1>6, <3>1
        <3> QED
            BY <1>2, <3>2
    <2> QED
        BY <2>1
<1>11. Migrated'
    BY <1>4 DEF Migrated
<1>12. wallet' \in [Addresses -> WalletRecords] /\ \A w \in Addresses : wallet'[w].archived <= stamp'
    BY <1>1, <1>3, <1>4 DEF GroupInv
<1>13. Held \subseteq Held'
    BY <1>4 DEF Held
<1> QED
    BY <1>1, <1>8, <1>9, <1>10, <1>11, <1>12, <1>13, AddressParts DEF GroupInv

LEMMA LaterIs ==
    ASSUME stamp \in 0..MaxStamp, Later
    PROVE stamp' \in 0..MaxStamp /\ stamp' # Never /\ stamp < stamp'
BY BookBounds DEF Later, Never

LEMMA ImportKeeps ==
    ASSUME GroupInv, NEW w \in Addresses, ImportPrivateKey(w)
    PROVE GroupInv' /\ Held \subseteq Held'
<1> DEFINE r == [kind |-> "standalone", archived |-> Never]
<1>1. /\ wallet[w].kind = "none" /\ wallet' = [wallet EXCEPT ![w] = r]
      /\ UNCHANGED <<group, leftWith, stamp>>
    BY DEF ImportPrivateKey, groupVars
<1>2. r \in WalletRecords /\ r.kind = "standalone" /\ r.archived = Never
    BY NoGroupIs DEF WalletRecords, WalletKinds
<1> HIDE DEF r
<1>3. /\ wallet \in [Addresses -> WalletRecords] /\ stamp \in 0..MaxStamp
      /\ \A v \in Addresses : wallet[v].archived <= stamp
    BY DEF GroupInv
<1>4. wallet' \in [Addresses -> WalletRecords] /\ \A v \in Addresses : wallet'[v] = IF v = w THEN r ELSE wallet[v]
    BY <1>1, <1>2, <1>3
<1>5. \A v \in Addresses : wallet'[v].archived <= stamp'
    <2>1. Never <= stamp
        BY <1>3, BookBounds DEF Never
    <2> QED
        BY <1>1, <1>2, <1>3, <1>4, <2>1
<1> QED
    BY <1>1, <1>2, <1>3, <1>4, <1>5, WalletsChanged

LEMMA ArchiveWalletKeeps ==
    ASSUME GroupInv, NEW w \in Addresses, ArchiveWallet(w)
    PROVE GroupInv' /\ Held \subseteq Held'
<1> DEFINE r == [wallet[w] EXCEPT !.archived = stamp']
<1>1. /\ w \in ActiveWallets /\ wallet' = [wallet EXCEPT ![w] = r] /\ Later
      /\ UNCHANGED <<group, leftWith>>
    BY DEF ArchiveWallet, groupVars
<1>2. /\ wallet \in [Addresses -> WalletRecords] /\ stamp \in 0..MaxStamp
      /\ \A v \in Addresses : wallet[v].archived <= stamp
    BY DEF GroupInv
<1>3. stamp' \in 0..MaxStamp /\ stamp < stamp'
    BY <1>1, <1>2, LaterIs
<1>4. r \in WalletRecords /\ r.kind = wallet[w].kind /\ r.archived = stamp'
    BY <1>2, <1>3, ArchivedAt
<1> HIDE DEF r
<1>5. wallet' \in [Addresses -> WalletRecords] /\ \A v \in Addresses : wallet'[v] = IF v = w THEN r ELSE wallet[v]
    BY <1>1, <1>2, <1>4
<1>6. \A v \in Addresses : wallet'[v].archived <= stamp'
    <2>1. ASSUME NEW v \in Addresses PROVE wallet'[v].archived <= stamp'
        <3>1. wallet[v].archived \in Nat /\ wallet[v].archived <= stamp /\ stamp \in Nat /\ stamp' \in Nat
            BY <1>2, <1>3, BookBounds DEF WalletRecords
        <3> QED
            BY <1>3, <1>4, <1>5, <3>1
    <2> QED
        BY <2>1
<1>7. wallet[w].kind # "none" /\ ~(wallet[w].kind = "derived" /\ group[w[1]].archived # Never)
    <2>1. wallet[w].kind # "none" /\ wallet[w].archived = Never
        BY <1>1, AccountsAre
    <2>2. wallet[w].kind = "derived" /\ group[w[1]].archived # Never => wallet[w].archived # Never
        BY DEF GroupInv
    <2> QED
        BY <2>1, <2>2
<1> QED
    BY <1>1, <1>3, <1>4, <1>5, <1>6, <1>7, WalletsChanged

LEMMA UnarchiveWalletKeeps ==
    ASSUME GroupInv, NEW w \in Addresses, UnarchiveWallet(w)
    PROVE GroupInv' /\ Held \subseteq Held'
<1> DEFINE r == [wallet[w] EXCEPT !.archived = Never]
<1>1. /\ w \in Held /\ wallet' = [wallet EXCEPT ![w] = r]
      /\ UNCHANGED <<group, leftWith, stamp>>
      /\ wallet[w].kind = "derived" => group[w[1]].archived = Never
    BY DEF UnarchiveWallet, groupVars
<1>2. /\ wallet \in [Addresses -> WalletRecords] /\ stamp \in 0..MaxStamp
      /\ \A v \in Addresses : wallet[v].archived <= stamp
    BY DEF GroupInv
<1>3. r \in WalletRecords /\ r.kind = wallet[w].kind /\ r.archived = Never
    BY <1>2, NoGroupIs, ArchivedAt
<1> HIDE DEF r
<1>4. wallet' \in [Addresses -> WalletRecords] /\ \A v \in Addresses : wallet'[v] = IF v = w THEN r ELSE wallet[v]
    BY <1>1, <1>2, <1>3
<1>5. \A v \in Addresses : wallet'[v].archived <= stamp'
    <2>1. Never <= stamp
        BY <1>2, BookBounds DEF Never
    <2> QED
        BY <1>1, <1>2, <1>3, <1>4, <2>1
<1>6. wallet[w].kind # "none"
    BY <1>1, AccountsAre
<1> QED
    BY <1>1, <1>2, <1>3, <1>4, <1>5, <1>6, WalletsChanged

LEMMA ArchiveGroupKeeps ==
    ASSUME GroupInv, NEW h \in Groups, ArchiveGroup(h)
    PROVE GroupInv' /\ Held \subseteq Held'
<1> DEFINE r == [group[h] EXCEPT !.archived = stamp']
<1>1. /\ Exists(h) /\ group[h].archived = Never /\ Later
      /\ group' = [group EXCEPT ![h] = r]
      /\ leftWith' = [leftWith EXCEPT ![h] = Accounts(h) \cap ActiveWallets]
      /\ wallet' = [w \in Addresses |-> wallet'[w]]
      /\ \A w \in Addresses : wallet'[w] =
           IF w \in Accounts(h) THEN [wallet[w] EXCEPT !.archived = StampOf(w, stamp')] ELSE wallet[w]
    BY DEF ArchiveGroup
<1>2. /\ wallet \in [Addresses -> WalletRecords] /\ group \in [Groups -> GroupRecords]
      /\ stamp \in 0..MaxStamp /\ \A v \in Addresses : wallet[v].archived <= stamp
    BY DEF GroupInv
<1>3. stamp' \in 0..MaxStamp /\ stamp' # Never /\ stamp < stamp'
    BY <1>1, <1>2, LaterIs
<1>4. /\ r \in GroupRecords /\ r.profile = group[h].profile /\ r.next = group[h].next
      /\ r.archived = stamp'
    BY <1>2, <1>3, GroupArchivedAt
<1> HIDE DEF r
<1>5. group' \in [Groups -> GroupRecords] /\ \A k \in Groups : group'[k] = IF k = h THEN r ELSE group[k]
    BY <1>1, <1>2, <1>4
<1>6. ASSUME NEW w \in Addresses
      PROVE /\ wallet'[w] \in WalletRecords /\ wallet'[w].kind = wallet[w].kind
            /\ wallet'[w].archived <= stamp'
            /\ w \in Accounts(h) => /\ wallet'[w].archived # Never
                                    /\ wallet'[w].archived = stamp' <=> w \in ActiveWallets
            /\ w \notin Accounts(h) => wallet'[w] = wallet[w]
    <2>1. /\ wallet[w] \in WalletRecords /\ wallet[w].archived \in 0..MaxStamp
          /\ wallet[w].archived <= stamp
        BY <1>2 DEF WalletRecords
    <2>2. wallet[w].archived < stamp'
        BY <1>2, <1>3, <2>1, BookBounds
    <2>3. CASE w \notin Accounts(h)
        BY <1>1, <1>2, <1>3, <2>1, <2>2, <2>3, BookBounds
    <2>4. CASE w \in Accounts(h)
        <3> DEFINE t == StampOf(w, stamp')
        <3>1. t \in 0..MaxStamp /\ t <= stamp' /\ t # Never /\ (t = stamp' <=> wallet[w].archived = Never)
            BY <1>3, <2>1, <2>2, BookBounds DEF StampOf
        <3> HIDE DEF t
        <3>2. wallet'[w] = [wallet[w] EXCEPT !.archived = t]
            BY <1>1, <2>4 DEF t
        <3>3. wallet'[w] \in WalletRecords /\ wallet'[w].kind = wallet[w].kind /\ wallet'[w].archived = t
            BY <2>1, <3>1, <3>2, ArchivedAt
        <3>4. w \in ActiveWallets <=> wallet[w].archived = Never
            BY <2>4, AccountsAre
        <3> QED
            BY <2>4, <3>1, <3>3, <3>4
    <2> QED
        BY <2>3, <2>4
<1>65. /\ leftWith' \in [Groups -> SUBSET Addresses]
       /\ \A k \in Groups : leftWith'[k] = IF k = h THEN Accounts(h) \cap ActiveWallets ELSE leftWith[k]
    <2>1. Accounts(h) \cap ActiveWallets \in SUBSET Addresses
        BY AccountsAre
    <2>2. leftWith \in [Groups -> SUBSET Addresses]
        BY DEF GroupInv
    <2> DEFINE taken == Accounts(h) \cap ActiveWallets
    <2>3. taken \in SUBSET Addresses /\ leftWith' = [leftWith EXCEPT ![h] = taken]
        BY <1>1, <2>1
    <2> HIDE DEF taken
    <2>4. /\ leftWith' \in [Groups -> SUBSET Addresses]
          /\ \A k \in Groups : leftWith'[k] = IF k = h THEN taken ELSE leftWith[k]
        BY <2>2, <2>3
    <2> QED
        BY <2>4 DEF taken
<1>7. ASSUME NEW w \in Addresses, wallet'[w].kind = "derived"
      PROVE /\ w[2] < group'[w[1]].next
            /\ group'[w[1]].archived # Never =>
                 /\ wallet'[w].archived # Never
                 /\ wallet'[w].archived = group'[w[1]].archived <=> w \in leftWith'[w[1]]
    <2>1. wallet[w].kind = "derived" /\ w[1] \in Groups /\ w[2] < group[w[1]].next
        BY <1>6, <1>7, AddressParts DEF GroupInv
    <2>2. CASE w[1] = h
        <3>1. w \in Accounts(h)
            BY <2>1, <2>2, AccountsAre
        <3>2. group'[w[1]] = r /\ w[2] < group'[w[1]].next
            BY <1>4, <1>5, <2>1, <2>2
        <3> QED
            BY <1>4, <1>6, <1>65, <2>2, <3>1, <3>2
    <2>3. CASE w[1] # h
        <3>1. w \notin Accounts(h)
            BY <2>3, AccountsAre
        <3>2. wallet'[w] = wallet[w] /\ group'[w[1]] = group[w[1]] /\ leftWith'[w[1]] = leftWith[w[1]]
            BY <1>5, <1>6, <1>65, <2>1, <2>3, <3>1
        <3> QED
            BY <2>1, <3>2 DEF GroupInv
    <2> QED
        BY <2>2, <2>3
<1>8. ASSUME NEW k \in Groups, group'[k].archived # Never, NEW w \in leftWith'[k]
      PROVE w \in Addresses /\ w[1] = k /\ wallet'[w].kind = "derived"
    <2>1. w \in Addresses /\ w[1] = k /\ wallet[w].kind = "derived"
        <3>1. CASE k = h
            BY <1>8, <1>65, <3>1, AccountsAre
        <3>2. CASE k # h
            BY <1>5, <1>8, <1>65, <3>2 DEF GroupInv
        <3> QED
            BY <3>1, <3>2
    <2> QED
        BY <1>6, <2>1
<1>9. \A k \in Groups : ~Exists(k)' => group'[k] = NoGroup
    BY <1>1, <1>4, <1>5 DEF GroupInv, Exists
<1>10. Migrated'
    <2>1. Migrated
        BY <1>1 DEF GroupInv
    <2> QED
        BY <1>6, <2>1 DEF Migrated
<1>11. Held \subseteq Held'
    BY <1>6 DEF Held
<1>12. wallet' \in [Addresses -> WalletRecords] /\ \A w \in Addresses : wallet'[w].archived <= stamp'
    BY <1>1, <1>6
<1> QED
    BY <1>3, <1>5, <1>65, <1>7, <1>8, <1>9, <1>10, <1>11, <1>12 DEF GroupInv

LEMMA UnarchiveGroupKeeps ==
    ASSUME GroupInv, NEW h \in Groups, UnarchiveGroup(h)
    PROVE GroupInv' /\ Held \subseteq Held'
<1> DEFINE r == [group[h] EXCEPT !.archived = Never]
<1>1. /\ Exists(h) /\ group' = [group EXCEPT ![h] = r]
      /\ UNCHANGED <<stamp, leftWith>>
      /\ wallet' = [w \in Addresses |-> wallet'[w]]
      /\ \A w \in Addresses : wallet'[w] =
           IF ComesBack(h, w) THEN [wallet[w] EXCEPT !.archived = Never] ELSE wallet[w]
    BY DEF UnarchiveGroup
<1>2. /\ wallet \in [Addresses -> WalletRecords] /\ group \in [Groups -> GroupRecords]
      /\ stamp \in 0..MaxStamp /\ \A v \in Addresses : wallet[v].archived <= stamp
    BY DEF GroupInv
<1>3. /\ r \in GroupRecords /\ r.profile = group[h].profile /\ r.next = group[h].next
      /\ r.archived = Never
    BY <1>2, NoGroupIs, GroupArchivedAt
<1> HIDE DEF r
<1>4. group' \in [Groups -> GroupRecords] /\ \A k \in Groups : group'[k] = IF k = h THEN r ELSE group[k]
    BY <1>1, <1>2, <1>3
<1>5. ASSUME NEW w \in Addresses
      PROVE /\ wallet'[w] \in WalletRecords /\ wallet'[w].kind = wallet[w].kind
            /\ wallet'[w].archived <= stamp'
            /\ w[1] # h => wallet'[w] = wallet[w]
    <2>1. wallet[w] \in WalletRecords /\ wallet[w].archived <= stamp /\ Never <= stamp
        BY <1>2, BookBounds DEF Never
    <2>2. CASE ~ComesBack(h, w)
        BY <1>1, <2>1, <2>2
    <2>3. CASE ComesBack(h, w)
        <3>1. w[1] = h
            BY <2>3, AccountsAre DEF ComesBack
        <3>2. wallet'[w] = [wallet[w] EXCEPT !.archived = Never]
            BY <1>1, <2>3
        <3>3. wallet'[w] \in WalletRecords /\ wallet'[w].kind = wallet[w].kind /\ wallet'[w].archived = Never
            BY <2>1, <3>2, NoGroupIs, ArchivedAt
        <3> QED
            BY <1>1, <2>1, <3>1, <3>3
    <2> QED
        BY <2>2, <2>3
<1>6. ASSUME NEW w \in Addresses, wallet'[w].kind = "derived"
      PROVE /\ w[2] < group'[w[1]].next
            /\ group'[w[1]].archived # Never =>
                 /\ wallet'[w].archived # Never
                 /\ wallet'[w].archived = group'[w[1]].archived <=> w \in leftWith'[w[1]]
    <2>1. wallet[w].kind = "derived" /\ w[1] \in Groups /\ w[2] < group[w[1]].next
        BY <1>5, <1>6, AddressParts DEF GroupInv
    <2>2. CASE w[1] = h
        BY <1>3, <1>4, <2>1, <2>2
    <2>3. CASE w[1] # h
        BY <1>1, <1>4, <1>5, <2>1, <2>3 DEF GroupInv
    <2> QED
        BY <2>2, <2>3
<1>7. ASSUME NEW k \in Groups, group'[k].archived # Never, NEW w \in leftWith'[k]
      PROVE w \in Addresses /\ w[1] = k /\ wallet'[w].kind = "derived"
    <2>1. k # h /\ group[k].archived # Never /\ w \in leftWith[k]
        BY <1>1, <1>3, <1>4, <1>7
    <2>2. w \in Addresses /\ w[1] = k /\ wallet[w].kind = "derived"
        BY <2>1 DEF GroupInv
    <2> QED
        BY <1>5, <2>2
<1>8. \A k \in Groups : ~Exists(k)' => group'[k] = NoGroup
    BY <1>1, <1>3, <1>4 DEF GroupInv, Exists
<1>9. Migrated'
    <2>1. Migrated
        BY <1>1 DEF GroupInv
    <2> QED
        BY <1>5, <2>1 DEF Migrated
<1>10. Held \subseteq Held'
    BY <1>5 DEF Held
<1>11. wallet' \in [Addresses -> WalletRecords] /\ \A w \in Addresses : wallet'[w].archived <= stamp'
    BY <1>1, <1>5
<1>12. leftWith' \in [Groups -> SUBSET Addresses] /\ stamp' \in 0..MaxStamp
    BY <1>1 DEF GroupInv
<1> QED
    BY <1>4, <1>6, <1>7, <1>8, <1>9, <1>10, <1>11, <1>12 DEF GroupInv

LEMMA GroupStepKeeps ==
    ASSUME GroupInv,
           \/ MigrateLegacy
           \/ \E h \in Groups :
                 \/ \E count \in 1..MaxIndex : AddAccounts(h, count)
                 \/ \E indexes \in (SUBSET Indexes) \ {{}} :
                       CreateGroup(h, indexes) \/ RestoreAccounts(h, indexes)
                 \/ ArchiveGroup(h) \/ UnarchiveGroup(h)
           \/ \E w \in Addresses : ImportPrivateKey(w) \/ ArchiveWallet(w) \/ UnarchiveWallet(w)
    PROVE GroupInv' /\ Held \subseteq Held'
<1>1. ASSUME MigrateLegacy PROVE GroupInv' /\ Held \subseteq Held'
    BY <1>1, MigrateLegacyKeeps
<1>2. ASSUME NEW h \in Groups, NEW count \in 1..MaxIndex, AddAccounts(h, count)
      PROVE GroupInv' /\ Held \subseteq Held'
    <2> DEFINE first == group[h].next
               indexes == first..first + count - 1
    <2>1. first \in 0..MaxIndex + 1
        BY DEF GroupInv, GroupRecords
    <2>2. first + count - 1 <= MaxIndex /\ Persisted(h, indexes)
        BY <1>2 DEF AddAccounts
    <2> HIDE DEF first
    <2>3. indexes \in SUBSET Indexes /\ first \in indexes
        BY <2>1, <2>2, BookBounds DEF Indexes
    <2> HIDE DEF indexes
    <2> QED
        BY <2>2, <2>3, PersistedKeeps
<1>3. ASSUME NEW h \in Groups, NEW indexes \in (SUBSET Indexes) \ {{}},
             CreateGroup(h, indexes) \/ RestoreAccounts(h, indexes)
      PROVE GroupInv' /\ Held \subseteq Held'
    <2>1. CASE CreateGroup(h, indexes)
        BY <2>1, CreateGroupKeeps
    <2>2. CASE RestoreAccounts(h, indexes)
        BY <2>2, PersistedKeeps DEF RestoreAccounts
    <2> QED
        BY <1>3, <2>1, <2>2
<1>4. ASSUME NEW h \in Groups, ArchiveGroup(h) \/ UnarchiveGroup(h)
      PROVE GroupInv' /\ Held \subseteq Held'
    BY <1>4, ArchiveGroupKeeps, UnarchiveGroupKeeps
<1>5. ASSUME NEW w \in Addresses, ImportPrivateKey(w) \/ ArchiveWallet(w) \/ UnarchiveWallet(w)
      PROVE GroupInv' /\ Held \subseteq Held'
    BY <1>5, ImportKeeps, ArchiveWalletKeeps, UnarchiveWalletKeeps
<1> QED
    BY <1>1, <1>2, <1>3, <1>4, <1>5

LEMMA GroupSame ==
    ASSUME GroupInv, UNCHANGED <<group, wallet, stamp, leftWith>>
    PROVE GroupInv' /\ Held' = Held
<1>1. Held' = Held
    BY DEF Held
<1> QED
    BY <1>1 DEF GroupInv, Exists, Migrated

\* The address book is inside its limit, and finite: it can be counted.
EntriesInv ==
    /\ entries \subseteq Addresses \cup Foreign
    /\ IsFiniteSet(entries) /\ Cardinality(entries) <= MaxEntries

LEMMA AddressesAreFinite == IsFiniteSet(Addresses \cup Foreign)
<1>1. IsFiniteSet(Indexes)
    BY BookBounds, FS_Interval DEF Indexes
<1>2. IsFiniteSet(Addresses)
    BY <1>1, BookAssumption, FS_Product DEF Addresses
<1> QED
    BY <1>2, BookAssumption, FS_Union

LEMMA EntryStepKeeps ==
    ASSUME EntriesInv, EntryStep
    PROVE EntriesInv' /\ UNCHANGED <<groupVars, wallet, inJob, stamp, balanceVars>>
<1>1. IsFiniteSet(entries) /\ Cardinality(entries) \in Nat /\ Cardinality(entries) <= MaxEntries
    BY FS_CardinalityType DEF EntriesInv
<1>2. ASSUME NEW new \in (SUBSET (Addresses \cup Foreign)) \ {{}}, AddEntries(new)
      PROVE EntriesInv' /\ UNCHANGED <<groupVars, wallet, inJob, stamp, balanceVars>>
    <2>1. IsFiniteSet(new)
        BY AddressesAreFinite, FS_Subset
    <2>2. IsFiniteSet(entries \cap new)
        BY <1>1, FS_Subset
    <2>3. Cardinality(new) \in Nat /\ Cardinality(entries \cap new) \in Nat
        BY <2>1, <2>2, FS_CardinalityType
    <2>4. /\ IsFiniteSet(entries \cup new)
          /\ Cardinality(entries \cup new) =
                Cardinality(entries) + Cardinality(new) - Cardinality(entries \cap new)
        BY <1>1, <2>1, FS_Union
    <2>5. /\ Cardinality(entries) + Cardinality(new) <= MaxEntries
          /\ entries' = entries \cup new /\ UNCHANGED <<groupVars, wallet, inJob, stamp, balanceVars>>
        BY <1>2 DEF AddEntries
    <2>6. Cardinality(entries \cup new) <= MaxEntries
        BY <1>1, <2>3, <2>4, <2>5, BookBounds
    <2> QED
        BY <2>4, <2>5, <2>6 DEF EntriesInv
<1>3. ASSUME NEW old \in entries
      PROVE /\ IsFiniteSet(entries \ {old}) /\ Cardinality(entries \ {old}) = Cardinality(entries) - 1
            /\ Cardinality(entries \ {old}) \in Nat
    BY <1>1, FS_RemoveElement, FS_CardinalityType
<1>4. ASSUME NEW old \in entries, RemoveEntry(old)
      PROVE EntriesInv' /\ UNCHANGED <<groupVars, wallet, inJob, stamp, balanceVars>>
    <2>1. Cardinality(entries \ {old}) <= MaxEntries
        BY <1>1, <1>3, BookBounds
    <2> QED
        BY <1>3, <1>4, <2>1 DEF RemoveEntry, EntriesInv
<1>5. ASSUME NEW old \in entries, NEW new \in Addresses \cup Foreign, UpdateEntry(old, new)
      PROVE EntriesInv' /\ UNCHANGED <<groupVars, wallet, inJob, stamp, balanceVars>>
    <2> DEFINE kept == entries \ {old}
    <2>1. IsFiniteSet(kept) /\ Cardinality(kept) = Cardinality(entries) - 1 /\ Cardinality(kept) \in Nat
        BY <1>3
    <2> HIDE DEF kept
    <2>2. /\ IsFiniteSet(kept \cup {new})
          /\ Cardinality(kept \cup {new}) = IF new \in kept THEN Cardinality(kept) ELSE Cardinality(kept) + 1
        BY <2>1, FS_AddElement
    <2>3. Cardinality(kept \cup {new}) <= MaxEntries
        BY <1>1, <2>1, <2>2, BookBounds
    <2>4. entries' = kept \cup {new} /\ UNCHANGED <<groupVars, wallet, inJob, stamp, balanceVars>>
        BY <1>5 DEF UpdateEntry, kept
    <2>5. kept \cup {new} \subseteq Addresses \cup Foreign
        BY DEF kept, EntriesInv
    <2> QED
        BY <2>2, <2>3, <2>4, <2>5 DEF EntriesInv
<1> QED
    BY <1>2, <1>4, <1>5 DEF EntryStep

\* A wallet whose reads do not cross shows its newest balances, has one read
\* under way at most, and that read is no older than what is shown.
BalanceCounts == [Coins -> 0..MaxChanges]
ReadRecords ==
    [wallet : Addresses, asset : Coins \cup {"both"}, row : BalanceCounts, got : BalanceCounts,
     done : BOOLEAN]
Newer(r) ==
    /\ ~r.done /\ r.asset # "both" => r.row = shown[r.wallet]
    /\ r.done => \A a \in Coins : best[r.wallet][a] <= r.got[a] /\ r.got[a] <= truth[r.wallet][a]
Quiet(w) ==
    /\ shown[w] = best[w] /\ \A a \in Coins : best[w][a] <= truth[w][a]
    /\ \A r \in reading, s \in reading : r.wallet = w /\ s.wallet = w => r = s
    /\ \A r \in reading : r.wallet = w => Newer(r)
BalanceTyped ==
    /\ truth \in [Addresses -> BalanceCounts] /\ shown \in [Addresses -> BalanceCounts]
    /\ best \in [Addresses -> BalanceCounts] /\ reading \subseteq ReadRecords
    /\ crossed \subseteq Addresses
BalanceInv == BalanceTyped /\ \A w \in Addresses \ crossed : Quiet(w)

LEMMA BalanceInvSays ==
    ASSUME BalanceInv
    PROVE BalanceTyped /\ NewestIsShown
BY DEF BalanceInv, NewestIsShown, Quiet

LEMMA NoneIs == None \in BalanceCounts /\ \A a \in Coins : None[a] = 0
BY BookBounds DEF None, BalanceCounts

LEMMA CountIs ==
    ASSUME NEW x \in BalanceCounts, NEW a \in Coins
    PROVE x[a] \in 0..MaxChanges /\ x[a] \in Nat
BY BookBounds DEF BalanceCounts

LEMMA ChangeKeeps ==
    ASSUME BalanceInv, NEW w \in Addresses, NEW asset \in Coins, BalanceChanges(w, asset)
    PROVE BalanceInv' /\ crossed' = crossed
<1>1. /\ w \in Held /\ truth[w][asset] < MaxChanges
      /\ truth' = [truth EXCEPT ![w][asset] = @ + 1]
      /\ UNCHANGED <<shown, best, reading, crossed>>
    BY DEF BalanceChanges
<1>2. truth \in [Addresses -> BalanceCounts] /\ truth[w] \in BalanceCounts
    BY DEF BalanceInv, BalanceTyped
<1> DEFINE more == [truth[w] EXCEPT ![asset] = truth[w][asset] + 1]
<1>3. truth' = [truth EXCEPT ![w] = more]
    BY <1>1, <1>2
<1>4. more \in BalanceCounts /\ \A a \in Coins : truth[w][a] <= more[a]
    <2>1. truth[w][asset] + 1 \in 0..MaxChanges
        BY <1>1, <1>2, CountIs, BookBounds
    <2>2. more \in BalanceCounts
        BY <1>2, <2>1 DEF BalanceCounts
    <2>3. ASSUME NEW a \in Coins PROVE truth[w][a] <= more[a]
        <3>1. truth[w][a] \in Nat /\ more[a] = IF a = asset THEN truth[w][a] + 1 ELSE truth[w][a]
            BY <1>2, CountIs DEF BalanceCounts
        <3> QED
            BY <3>1
    <2> QED
        BY <2>2, <2>3
<1> HIDE DEF more
<1>5. /\ truth' \in [Addresses -> BalanceCounts]
      /\ \A v \in Addresses : truth'[v] = IF v = w THEN more ELSE truth[v]
    BY <1>2, <1>3, <1>4
<1>6. ASSUME NEW v \in Addresses, NEW a \in Coins
      PROVE /\ truth[v][a] <= truth'[v][a] /\ truth[v][a] \in Nat /\ truth'[v][a] \in Nat
    <2>1. truth[v] \in BalanceCounts /\ truth'[v] \in BalanceCounts
        BY <1>2, <1>5
    <2>2. truth[v][a] \in Nat /\ truth'[v][a] \in Nat
        BY <2>1, CountIs
    <2> QED
        BY <1>4, <1>5, <2>2
<1>7. ASSUME NEW v \in Addresses \ crossed' PROVE Quiet(v)'
    <2>1. Quiet(v) /\ best[v] \in BalanceCounts
        BY <1>1, <1>7 DEF BalanceInv, BalanceTyped
    <2>2. ASSUME NEW a \in Coins PROVE best'[v][a] <= truth'[v][a]
        <3>1. best[v][a] \in Nat /\ best[v][a] <= truth[v][a]
            BY <2>1, CountIs DEF Quiet
        <3> QED
            BY <1>1, <1>6, <3>1
    <2>3. ASSUME NEW r \in reading', r.wallet = v PROVE Newer(r)'
        <3>1. r \in ReadRecords /\ Newer(r) /\ r.got \in BalanceCounts
            BY <1>1, <2>1, <2>3 DEF BalanceInv, BalanceTyped, Quiet, ReadRecords
        <3>2. ASSUME r.done, NEW a \in Coins PROVE r.got[a] <= truth'[v][a]
            <4>1. r.got[a] \in Nat /\ r.got[a] <= truth[v][a]
                BY <2>3, <3>1, <3>2, CountIs DEF Newer
            <4> QED
                BY <1>6, <4>1
        <3> QED
            BY <1>1, <2>3, <3>1, <3>2 DEF Newer
    <2> QED
        BY <1>1, <2>1, <2>2, <2>3 DEF Quiet
<1> QED
    BY <1>1, <1>5, <1>7 DEF BalanceInv, BalanceTyped

LEMMA BeginKeeps ==
    ASSUME BalanceInv, NEW w \in Addresses, NEW asset \in Coins \cup {"both"}, ReadBegins(w, asset)
    PROVE BalanceInv' /\ crossed' \subseteq crossed \cup {w} /\ w \in ActiveWallets
<1> PICK first : first = Read(w, asset, IF asset = "both" THEN None ELSE shown[w])
    OBVIOUS
<1> DEFINE cross == \E r \in Reads(w) \cup {Read(w, asset, None)} : r.asset # "both" /\ Reads(w) # {}
<1>1. /\ w \in ActiveWallets
      /\ asset = "both" => NotYetRead(w)
      /\ reading' = reading \cup {first}
      /\ crossed' = IF cross THEN crossed \cup {w} ELSE crossed
      /\ UNCHANGED <<truth, shown, best>>
    BY DEF ReadBegins
<1>2. shown[w] \in BalanceCounts
    BY DEF BalanceInv, BalanceTyped
<1>3. /\ first \in ReadRecords /\ first.wallet = w /\ first.asset = asset /\ ~first.done
      /\ asset # "both" => first.row = shown[w]
    BY <1>2, NoneIs DEF Read, ReadRecords
<1>4. Reads(w) # {} => cross
    <2>1. CASE asset = "both"
        BY <1>1, <2>1 DEF NotYetRead
    <2>2. CASE asset # "both"
        <3>1. Read(w, asset, None).asset # "both"
            BY <2>2 DEF Read
        <3> QED
            BY <3>1
    <2> QED
        BY <2>1, <2>2
<1> HIDE DEF cross
<1>5. ASSUME NEW v \in Addresses \ crossed' PROVE Quiet(v)'
    <2>1. Quiet(v)
        BY <1>1, <1>5 DEF BalanceInv
    <2>2. CASE v = w
        <3>1. Reads(w) = {}
            BY <1>1, <1>4, <1>5, <2>2
        <3>2. \A r \in reading' : r.wallet = v => r = first
            BY <1>1, <2>2, <3>1 DEF Reads
        <3>3. Newer(first)'
            BY <1>1, <1>3 DEF Newer
        <3> QED
            BY <1>1, <2>1, <3>2, <3>3 DEF Quiet
    <2>3. CASE v # w
        <3>1. \A r \in reading' : r.wallet = v => r \in reading
            BY <1>1, <1>3, <2>3
        <3> QED
            BY <1>1, <2>1, <3>1 DEF Quiet, Newer
    <2> QED
        BY <2>2, <2>3
<1> QED
    BY <1>1, <1>3, <1>5 DEF BalanceInv, BalanceTyped

LEMMA AnswerKeeps ==
    ASSUME BalanceInv, NEW q \in reading, ReadAnswers(q)
    PROVE BalanceInv' /\ crossed' = crossed
<1> DEFINE w == q.wallet
           Got(a) == IF q.asset \in {a, "both"} THEN truth[w][a] ELSE q.row[a]
<1>1. PICK got : got = [a \in Coins |-> Got(a)]
    OBVIOUS
<1>2. PICK done : done = [q EXCEPT !.done = TRUE, !.got = got]
    OBVIOUS
<1>3. /\ ~q.done /\ reading' = (reading \ {q}) \cup {done}
      /\ UNCHANGED <<truth, shown, best, crossed>>
    BY <1>1, <1>2 DEF ReadAnswers
<1>4. q \in ReadRecords /\ w \in Addresses /\ q.row \in BalanceCounts /\ truth[w] \in BalanceCounts
    BY DEF BalanceInv, BalanceTyped, ReadRecords
<1>5. got \in BalanceCounts /\ \A a \in Coins : got[a] = Got(a)
    <2>1. \A a \in Coins : Got(a) \in 0..MaxChanges
        BY <1>4, CountIs
    <2> QED
        BY <1>1, <2>1 DEF BalanceCounts
<1>6. done \in ReadRecords /\ done.wallet = w /\ done.done /\ done.got = got
    BY <1>2, <1>4, <1>5 DEF ReadRecords
<1>7. ASSUME w \notin crossed, NEW a \in Coins PROVE best[w][a] <= got[a] /\ got[a] <= truth[w][a]
    <2>1. Quiet(w) /\ best[w] \in BalanceCounts
        BY <1>4, <1>7 DEF BalanceInv, BalanceTyped
    <2>2. /\ best[w][a] \in Nat /\ best[w][a] <= truth[w][a] /\ truth[w][a] \in Nat
          /\ shown[w][a] = best[w][a]
        BY <1>4, <2>1, CountIs DEF Quiet
    <2>3. CASE q.asset \in {a, "both"}
        BY <1>5, <2>2, <2>3
    <2>4. CASE q.asset \notin {a, "both"}
        <3>1. Newer(q)
            BY <2>1 DEF Quiet
        <3>2. q.row = shown[w]
            BY <1>3, <2>4, <3>1 DEF Newer
        <3> QED
            BY <1>5, <2>2, <2>4, <3>2
    <2> QED
        BY <2>3, <2>4
<1> HIDE DEF Got
<1>8. ASSUME NEW v \in Addresses \ crossed' PROVE Quiet(v)'
    <2>1. Quiet(v)
        BY <1>3, <1>8 DEF BalanceInv
    <2>2. CASE v = w
        <3>1. \A r \in reading : r.wallet = v => r = q
            BY <2>1, <2>2 DEF Quiet
        <3>2. \A r \in reading' : r.wallet = v => r = done
            BY <1>3, <3>1
        <3>3. Newer(done)'
            BY <1>3, <1>6, <1>7, <1>8, <2>2 DEF Newer
        <3> QED
            BY <1>3, <2>1, <3>2, <3>3 DEF Quiet
    <2>3. CASE v # w
        <3>1. \A r \in reading' : r.wallet = v => r \in reading
            BY <1>3, <1>6, <2>3
        <3> QED
            BY <1>3, <2>1, <3>1 DEF Quiet, Newer
    <2> QED
        BY <2>2, <2>3
<1> QED
    BY <1>3, <1>6, <1>8 DEF BalanceInv, BalanceTyped

LEMMA ReadEndKeeps ==
    ASSUME BalanceInv, NEW q \in reading, NEW failed \in BOOLEAN, ReadEnds(q, failed)
    PROVE BalanceInv' /\ crossed' = crossed
<1> DEFINE w == q.wallet
<1>1. PICK now : now = IF failed THEN shown[w] ELSE q.got
    OBVIOUS
<1> DEFINE Top(a) == IF now[a] > best[w][a] THEN now[a] ELSE best[w][a]
<1>2. PICK top : top = [a \in Coins |-> Top(a)]
    OBVIOUS
<1>3. /\ q \in ReadRecords /\ w \in Addresses /\ q.got \in BalanceCounts
      /\ shown[w] \in BalanceCounts /\ best[w] \in BalanceCounts /\ truth[w] \in BalanceCounts
      /\ shown \in [Addresses -> BalanceCounts] /\ best \in [Addresses -> BalanceCounts]
    BY DEF BalanceInv, BalanceTyped, ReadRecords
<1>4. /\ q.done \/ failed
      /\ reading' = reading \ {q}
      /\ shown' = IF failed THEN shown ELSE [shown EXCEPT ![w] = q.got]
      /\ best' = [best EXCEPT ![w] =
                    [a \in Coins |-> IF shown'[w][a] > best[w][a] THEN shown'[w][a] ELSE best[w][a]]]
      /\ UNCHANGED <<truth, crossed>>
    BY DEF ReadEnds
<1>5. now \in BalanceCounts
    BY <1>1, <1>3
<1>6. shown' = [shown EXCEPT ![w] = now] /\ shown'[w] = now
    BY <1>1, <1>3, <1>4
<1>7. best' = [best EXCEPT ![w] = top]
    BY <1>2, <1>4, <1>6
<1>8. top \in BalanceCounts
    <2>1. \A a \in Coins : Top(a) \in 0..MaxChanges
        BY <1>3, <1>5, CountIs
    <2> QED
        BY <1>2, <2>1 DEF BalanceCounts
<1>9. ASSUME w \notin crossed
      PROVE top = now /\ \A a \in Coins : now[a] <= truth[w][a]
    <2>1. Quiet(w)
        BY <1>3, <1>9 DEF BalanceInv
    <2>2. ASSUME NEW a \in Coins PROVE best[w][a] <= now[a] /\ now[a] <= truth[w][a]
        <3>1. best[w][a] <= truth[w][a] /\ shown[w] = best[w] /\ Newer(q) /\ best[w][a] \in Nat
            BY <1>3, <2>1, CountIs DEF Quiet
        <3>2. CASE failed
            BY <1>1, <3>1, <3>2
        <3>3. CASE ~failed
            BY <1>1, <1>4, <3>1, <3>3 DEF Newer
        <3> QED
            BY <3>2, <3>3
    <2>3. ASSUME NEW a \in Coins PROVE Top(a) = now[a]
        <3>1. best[w][a] \in Nat /\ now[a] \in Nat /\ best[w][a] <= now[a]
            BY <1>3, <1>5, <2>2, CountIs
        <3> QED
            BY <3>1
    <2>4. now = [a \in Coins |-> now[a]]
        BY <1>5 DEF BalanceCounts
    <2>5. top = now
        BY <1>2, <2>3, <2>4
    <2> QED
        BY <2>2, <2>5
<1> HIDE DEF Top
<1>10. /\ shown' \in [Addresses -> BalanceCounts] /\ best' \in [Addresses -> BalanceCounts]
       /\ \A v \in Addresses : /\ shown'[v] = IF v = w THEN now ELSE shown[v]
                               /\ best'[v] = IF v = w THEN top ELSE best[v]
    BY <1>3, <1>5, <1>6, <1>7, <1>8
<1>11. ASSUME NEW v \in Addresses \ crossed' PROVE Quiet(v)'
    <2>1. Quiet(v)
        BY <1>4, <1>11 DEF BalanceInv
    <2>2. CASE v = w
        <3>1. \A r \in reading' : r.wallet # v
            BY <1>4, <2>1, <2>2 DEF Quiet
        <3>2. shown'[v] = best'[v] /\ \A a \in Coins : best'[v][a] <= truth'[v][a]
            BY <1>4, <1>9, <1>10, <1>11, <2>2
        <3> QED
            BY <3>1, <3>2 DEF Quiet
    <2>3. CASE v # w
        <3>1. shown'[v] = shown[v] /\ best'[v] = best[v] /\ truth' = truth /\ reading' \subseteq reading
            BY <1>4, <1>10, <2>3
        <3> QED
            BY <2>1, <3>1 DEF Quiet, Newer
    <2> QED
        BY <2>2, <2>3
<1> QED
    BY <1>4, <1>10, <1>11 DEF BalanceInv, BalanceTyped

LEMMA BalanceSame ==
    ASSUME BalanceInv, UNCHANGED balanceVars
    PROVE BalanceInv' /\ crossed' = crossed
<1>1. UNCHANGED <<truth, shown, best, reading, crossed>>
    BY DEF balanceVars
<1> QED
    BY <1>1 DEF BalanceInv, BalanceTyped, Quiet, Newer

\* What the tables come to, all together.
BookInv ==
    GroupInv /\ EntriesInv /\ inJob \subseteq Held /\ BalanceInv /\ crossed \subseteq Held

LEMMA BookInvSays ==
    ASSUME BookInv
    PROVE BookTypeOK /\ NumbersAreSpent /\ ComesBackAsItLeft /\ NewestIsShown
<1>1. NumbersAreSpent /\ ComesBackAsItLeft /\ BalanceTyped /\ NewestIsShown
    BY GroupInvSays, BalanceInvSays DEF BookInv
<1>2. BookTypeOK
    BY <1>1 DEF BookInv, GroupInv, GroupRecords, WalletRecords, EntriesInv, BalanceTyped,
        BalanceCounts, BookTypeOK
<1> QED
    BY <1>1, <1>2

LEMMA BookBegins ==
    ASSUME BookInit
    PROVE BookInv
<1>1. /\ group = [h \in Groups |-> NoGroup] /\ entries = {} /\ inJob = {} /\ stamp = 0
      /\ leftWith = [h \in Groups |-> {}] /\ reading = {} /\ crossed = {}
      /\ truth = [w \in Addresses |-> None] /\ shown = truth /\ best = truth
    BY DEF BookInit
<1>2. PICK legacy \in SUBSET Addresses :
        wallet = [w \in Addresses |->
            [kind |-> IF w \in legacy THEN "legacy" ELSE "none", archived |-> Never]]
    BY DEF BookInit
<1>3. ASSUME NEW w \in Addresses
      PROVE wallet[w] \in WalletRecords /\ wallet[w].kind # "derived" /\ wallet[w].archived = Never
    BY <1>2, NoGroupIs DEF WalletRecords, WalletKinds
<1>4. wallet \in [Addresses -> WalletRecords]
    BY <1>2, <1>3
<1>5. group \in [Groups -> GroupRecords] /\ \A h \in Groups : group[h] = NoGroup /\ ~Exists(h)
    BY <1>1, NoGroupIs DEF Exists
<1>6. GroupInv
    <2>1. stamp \in 0..MaxStamp /\ \A w \in Addresses : wallet[w].archived <= stamp
        BY <1>1, <1>3, BookBounds DEF Never
    <2>2. leftWith \in [Groups -> SUBSET Addresses]
        BY <1>1
    <2>3. \A h \in Groups : group[h].archived = Never
        BY <1>5, NoGroupIs
    <2> QED
        BY <1>3, <1>4, <1>5, <2>1, <2>2, <2>3 DEF GroupInv
<1>7. EntriesInv
    BY <1>1, FS_EmptySet, BookBounds DEF EntriesInv
<1>8. BalanceInv
    <2>1. BalanceTyped
        BY <1>1, NoneIs DEF BalanceTyped
    <2>2. ASSUME NEW w \in Addresses PROVE Quiet(w)
        BY <1>1, NoneIs DEF Quiet
    <2> QED
        BY <2>1, <2>2 DEF BalanceInv
<1> QED
    BY <1>1, <1>6, <1>7, <1>8 DEF BookInv

LEMMA GroupStepsKeepBook ==
    ASSUME BookInv, GroupStep
    PROVE BookInv'
<1> USE DEF BookInv
<1>1. ASSUME NEW w \in Addresses, JobMoves(w) PROVE BookInv'
    <2>1. /\ w \in Held /\ UNCHANGED <<group, leftWith, wallet, entries, stamp, balanceVars>>
          /\ inJob' = IF w \in inJob THEN inJob \ {w} ELSE inJob \cup {w}
        BY <1>1, AccountsAre DEF JobMoves, groupVars
    <2>2. GroupInv' /\ Held' = Held
        BY <2>1, GroupSame
    <2>3. BalanceInv' /\ crossed' = crossed
        BY <2>1, BalanceSame
    <2> QED
        BY <2>1, <2>2, <2>3 DEF EntriesInv
<1>2. ASSUME ~\E w \in Addresses : JobMoves(w) PROVE BookInv'
    <2>1. GroupInv' /\ Held \subseteq Held'
        BY <1>2, GroupStepKeeps DEF GroupStep
    <2>2. UNCHANGED <<entries, inJob, balanceVars>>
        BY <1>2 DEF GroupStep, MigrateLegacy, AddAccounts, Persisted, CreateGroup, RestoreAccounts,
            ArchiveGroup, UnarchiveGroup, ImportPrivateKey, ArchiveWallet, UnarchiveWallet
    <2>3. BalanceInv' /\ crossed' = crossed
        BY <2>2, BalanceSame
    <2> QED
        BY <2>1, <2>2, <2>3 DEF EntriesInv
<1> QED
    BY <1>1, <1>2

LEMMA EntryStepsKeepBook ==
    ASSUME BookInv, EntryStep
    PROVE BookInv'
<1>1. EntriesInv' /\ UNCHANGED <<groupVars, wallet, inJob, stamp, balanceVars>>
    BY EntryStepKeeps DEF BookInv
<1>2. GroupInv' /\ Held' = Held
    BY <1>1, GroupSame DEF BookInv, groupVars
<1>3. BalanceInv' /\ crossed' = crossed
    BY <1>1, BalanceSame DEF BookInv
<1> QED
    BY <1>1, <1>2, <1>3 DEF BookInv

LEMMA BalanceStepsKeepBook ==
    ASSUME BookInv, BalanceStep
    PROVE BookInv'
<1>1. BalanceInv' /\ crossed' \subseteq crossed \cup ActiveWallets
    BY ChangeKeeps, BeginKeeps, AnswerKeeps, ReadEndKeeps DEF BalanceStep, BookInv
<1>2. UNCHANGED <<groupVars, wallet, entries, inJob, stamp>>
    BY DEF BalanceStep, BalanceChanges, ReadBegins, ReadAnswers, ReadEnds
<1>3. GroupInv' /\ Held' = Held
    BY <1>2, GroupSame DEF BookInv, groupVars
<1>4. ActiveWallets \subseteq Held
    BY AccountsAre
<1> QED
    BY <1>1, <1>2, <1>3, <1>4 DEF BookInv, EntriesInv

LEMMA BookSteps ==
    ASSUME BookInv,
           GroupStep \/ EntryStep \/ BalanceStep
             \/ \E h \in Groups, indexes \in (SUBSET Indexes) \ {{}} : CreateGroup(h, indexes)
    PROVE BookInv'
BY GroupStepsKeepBook, EntryStepsKeepBook, BalanceStepsKeepBook DEF GroupStep

LEMMA BookSame ==
    ASSUME BookInv, UNCHANGED bookVars
    PROVE BookInv'
<1>1. UNCHANGED <<group, wallet, stamp, leftWith, entries, inJob, balanceVars>>
    BY DEF bookVars, balanceVars
<1>2. GroupInv' /\ Held' = Held
    BY <1>1, GroupSame DEF BookInv
<1>3. BalanceInv' /\ crossed' = crossed
    BY <1>1, BalanceSame DEF BookInv
<1> QED
    BY <1>1, <1>2, <1>3 DEF BookInv, EntriesInv

(***************************************************************************)
(* Theorems                                                                *)
(***************************************************************************)
\* A part that is not the one that runs rests.
LEMMA PartsRest ==
    ASSUME [WalletNext]_walletVars
    PROVE /\ \/ GroupStep \/ EntryStep \/ BalanceStep
             \/ CreateGroup(g, {0}) \/ UNCHANGED bookVars
          /\ HistoryNext \/ UNCHANGED historyVars
          /\ VaultNext \/ UNCHANGED vaultVars
          /\ LimiterNext \/ UNCHANGED limiterVars
BY DEF WalletNext, walletVars

LEMMA VaultSame ==
    ASSUME VaultInv, UNCHANGED vaultVars
    PROVE VaultInv'
<1>1. UNCHANGED <<wrapped, unlocked, signedIn, idleLong, failures, blocked, call, running>>
    BY DEF vaultVars
<1>2. VaultTypeOK'
    BY <1>1, Zenon DEF VaultInv, VaultTypeOK
<1> QED
    BY <1>1, <1>2 DEF VaultInv, KeyHasSession, Changing

LEMMA LimiterSame ==
    ASSUME LimiterInv, UNCHANGED limiterVars
    PROVE LimiterInv'
BY DEF LimiterInv, limiterVars, QueueIsServed

\* Whatever jobs and screens ask of the chain, together they stay inside one
\* budget and are served, for every number of callers and every budget.
THEOREM BudgetHolds == WalletSpec => [](LimiterTypeOK /\ WithinBudget /\ QueueIsServed)
<1>1. WalletInit => LimiterInv
    BY LimiterBegins DEF WalletInit
<1>2. LimiterInv /\ [WalletNext]_walletVars => LimiterInv'
    BY PartsRest, LimiterSteps, LimiterSame
<1>3. LimiterInv => LimiterTypeOK /\ WithinBudget /\ QueueIsServed
    BY LimiterInvSays
<1> QED
    BY <1>1, <1>2, <1>3, PTL DEF WalletSpec

\* The key is in memory only for a session and the reads stay inside their
\* budget, unless the session may be ended while a change of the password
\* waits for its keys (changePassword puts the key back).
THEOREM KeyAndBudgetHold ==
    ASSUME ~LockedMeanwhile
    PROVE WalletSpec => []KeyAndBudget
<1>1. WalletInit => VaultInv
    BY VaultBegins DEF WalletInit
<1>2. VaultInv /\ [WalletNext]_walletVars => VaultInv'
    BY PartsRest, VaultSteps, VaultSame
<1>3. VaultInv /\ LimiterTypeOK /\ WithinBudget /\ QueueIsServed => KeyAndBudget
    BY DEF VaultInv, KeyAndBudget
<1> QED
    BY <1>1, <1>2, <1>3, BudgetHolds, PTL DEF WalletSpec

\* However the operations on groups, accounts, entries and balances follow one
\* another, and wherever a scan of the log was cut off: no number of an account
\* is given twice, a group comes back as it left, balances do not go back by
\* themselves, and no transfer is shown twice or skipped by the log's own fault.
THEOREM BooksHold == WalletSpec => []BooksAreWhole
<1>1. WalletInit => BookInv /\ HistoryInv
    BY BookBegins, HistoryBegins DEF WalletInit
<1>2. BookInv /\ HistoryInv /\ [WalletNext]_walletVars => (BookInv /\ HistoryInv)'
    <2>1. 0 \in Indexes
        BY BookBounds DEF Indexes
    <2>2. {0} \in (SUBSET Indexes) \ {{}} /\ g \in Groups
        BY <2>1, WalletAssumption
    <2>3. ASSUME BookInv, CreateGroup(g, {0}) PROVE BookInv'
        BY <2>2, <2>3, BookSteps
    <2>4. ASSUME BookInv, GroupStep \/ EntryStep \/ BalanceStep PROVE BookInv'
        BY <2>4, BookSteps
    <2>5. ASSUME BookInv, [WalletNext]_walletVars PROVE BookInv'
        BY <2>3, <2>4, <2>5, PartsRest, BookSame
    <2>6. ASSUME HistoryInv, [WalletNext]_walletVars PROVE HistoryInv'
        BY <2>6, PartsRest, HistorySteps, HistorySame
    <2> QED
        BY <2>5, <2>6
<1>3. BookInv /\ HistoryInv => BooksAreWhole
    BY BookInvSays, HistoryInvSays DEF BooksAreWhole
<1> QED
    BY <1>1, <1>2, <1>3, PTL DEF WalletSpec
=============================================================================
