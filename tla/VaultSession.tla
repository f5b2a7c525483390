---------------------------- MODULE VaultSession ----------------------------
(***************************************************************************)
(* The vault of the Aptos wallet and the one browser session it has:       *)
(* EncryptedVault (src/aptos-wallet/server/vault.ts), the session part of  *)
(* createApp (app.ts) and BackupService.restore (backup.ts).  The data     *)
(* encryption key (DEK) is stored wrapped by a key derived from the master *)
(* password and is in memory while the vault is unlocked.                  *)
(*                                                                         *)
(* Deriving a key takes long: every request that gives a password reads    *)
(* the stored row, awaits the derivation, and goes on with the row it read *)
(* before, while other requests, the sweep of idle sessions, the runner of *)
(* the transfer jobs and a restart take their turns.                       *)
(***************************************************************************)
EXTENDS Naturals, FiniteSets

CONSTANTS
    Passwords,      \* the right one is the stored one; others are wrong
    Callers,        \* bound: requests that await a derivation at the same time
    FailureLimit,   \* PASSWORD_FAILURE_LIMIT
    LockedMeanwhile \* bound: the session may be ended while a password change waits

ASSUME VaultAssumption ==
    /\ FailureLimit \in Nat \ {0} /\ LockedMeanwhile \in BOOLEAN
    /\ IsFiniteSet(Passwords) /\ IsFiniteSet(Callers)

VARIABLES
    wrapped,    \* vault_meta: the password the stored DEK is wrapped with
    unlocked,   \* the DEK is in memory
    signedIn,   \* there is a session token
    idleLong,   \* the session was last seen longer ago than its timeout
    failures,   \* failedPasswordAttempts, up to FailureLimit
    blocked,    \* passwordBlockedUntil lies ahead
    call,       \* per caller, the request that awaits
    running     \* a transfer job is running

vaultVars == <<wrapped, unlocked, signedIn, idleLong, failures, blocked, call, running>>
sessionVars == <<signedIn, idleLong>>
failureVars == <<failures, blocked>>

NoPassword == "none"
Waiting(kind, password, row, next, was) ==
    [kind |-> kind, password |-> password, row |-> row, next |-> next, was |-> was]
NoCall == Waiting("none", NoPassword, NoPassword, NoPassword, FALSE)
Initialized == wrapped # NoPassword

VaultTypeOK ==
    /\ wrapped \in Passwords \cup {NoPassword}
    /\ {unlocked, signedIn, idleLong, blocked, running} \subseteq BOOLEAN
    /\ failures \in 0..FailureLimit
    /\ call \in [Callers ->
         [kind : {"none", "initialize", "unlock", "change", "rewrap", "verify", "automate"},
          password : Passwords \cup {NoPassword}, row : Passwords \cup {NoPassword},
          next : Passwords \cup {NoPassword}, was : BOOLEAN]]

(***************************************************************************)
(* Attempts, sessions and calls                                            *)
(***************************************************************************)
\* recordPasswordFailure, recordPasswordSuccess
RecordFailure ==
    /\ failures' = IF failures < FailureLimit THEN failures + 1 ELSE failures
    /\ blocked' = (blocked \/ failures' = FailureLimit)
RecordSuccess == failures' = 0 /\ blocked' = FALSE

SetSession == signedIn' = TRUE /\ idleLong' = FALSE
\* Mutant: the session ends and the key stays in memory.
EndSessionOnly == signedIn' = FALSE /\ idleLong' = FALSE /\ UNCHANGED unlocked
InvalidateSession == signedIn' = FALSE /\ idleLong' = FALSE /\ unlocked' = FALSE

\* requireSession
HasSession == signedIn /\ unlocked

Returns(c) == call' = [call EXCEPT ![c] = NoCall]
Awaits(c, waiting) == call[c].kind = "none" /\ call' = [call EXCEPT ![c] = waiting]

\* the row that was read opens with the password that was given
Opens(c) == call[c].row # NoPassword /\ call[c].row = call[c].password

(***************************************************************************)
(* The requests                                                            *)
(***************************************************************************)
InitializeBegins(c, p) ==
    /\ ~Initialized
    /\ Awaits(c, Waiting("initialize", p, NoPassword, NoPassword, FALSE))
    /\ UNCHANGED <<wrapped, unlocked, sessionVars, failureVars, running>>

\* the row is inserted, unless another one has come before it
InitializeEnds(c) ==
    /\ call[c].kind = "initialize" /\ Returns(c)
    /\ IF Initialized THEN UNCHANGED <<wrapped, unlocked, sessionVars>>
       ELSE wrapped' = call[c].password /\ unlocked' = TRUE /\ SetSession
    /\ UNCHANGED <<failureVars, running>>

UnlockBegins(c, p) ==
    /\ ~blocked
    /\ Awaits(c, Waiting("unlock", p, wrapped, NoPassword, FALSE))
    /\ UNCHANGED <<wrapped, unlocked, sessionVars, failureVars, running>>

UnlockEnds(c) ==
    /\ call[c].kind = "unlock" /\ Returns(c)
    /\ IF Opens(c) THEN unlocked' = TRUE /\ SetSession /\ RecordSuccess
       ELSE RecordFailure /\ UNCHANGED <<unlocked, sessionVars>>
    /\ UNCHANGED <<wrapped, running>>

\* A request of the session that verifies the password once more.
VerifyBegins(c, p) ==
    /\ HasSession /\ ~blocked
    /\ Awaits(c, Waiting("verify", p, wrapped, NoPassword, FALSE))
    /\ idleLong' = FALSE
    /\ UNCHANGED <<wrapped, unlocked, signedIn, failureVars, running>>

\* verifyPassword compares with the key in memory: without one, the right
\* password counts as a wrong one
VerifyEnds(c) ==
    /\ call[c].kind = "verify" /\ Returns(c)
    /\ IF Opens(c) /\ unlocked THEN RecordSuccess ELSE RecordFailure
    /\ UNCHANGED <<wrapped, unlocked, sessionVars, running>>

ChangeBegins(c, p, q) ==
    /\ HasSession /\ ~blocked
    /\ Awaits(c, Waiting("change", p, wrapped, q, FALSE))
    /\ idleLong' = FALSE
    /\ UNCHANGED <<wrapped, unlocked, signedIn, failureVars, running>>

\* the old key is derived, and the new one begun
ChangeOpens(c) ==
    /\ call[c].kind = "change"
    /\ IF Opens(c)
       THEN call' = [call EXCEPT ![c].kind = "rewrap"] /\ UNCHANGED failureVars
       ELSE Returns(c) /\ RecordFailure
    /\ UNCHANGED <<wrapped, unlocked, sessionVars, running>>

\* the row is updated and the key put into memory, whatever came between
ChangeEnds(c) ==
    /\ call[c].kind = "rewrap" /\ Returns(c)
    /\ wrapped' = call[c].next /\ unlocked' = TRUE
    /\ RecordSuccess
    /\ UNCHANGED <<sessionVars, running>>

\* runLocalAutomation: a command without a session, which looks first whether
\* the vault is unlocked
AutomationBegins(c, p) ==
    /\ ~blocked
    /\ Awaits(c, Waiting("automate", p, wrapped, NoPassword, unlocked))
    /\ UNCHANGED <<wrapped, unlocked, sessionVars, failureVars, running>>

\* it verifies or unlocks, runs its operation, and locks what it unlocked
\* Mutant: a vault the command unlocked stays so.
KeepsItOpen(c) == unlocked' = (unlocked \/ Opens(c))
LocksAgain(c) == unlocked' = (unlocked /\ call[c].was)
AutomationEnds(c) ==
    /\ call[c].kind = "automate" /\ Returns(c)
    /\ LocksAgain(c)
    /\ IF Opens(c) /\ (call[c].was => unlocked) THEN RecordSuccess ELSE RecordFailure
    /\ UNCHANGED <<wrapped, sessionVars, running>>

Restore(p) ==
    /\ ~Initialized
    /\ wrapped' = p
    /\ UNCHANGED <<unlocked, sessionVars, failureVars, call, running>>

Changing == \E c \in Callers : call[c].kind \in {"change", "rewrap"}

LockVault ==
    /\ HasSession /\ (Changing => LockedMeanwhile)
    /\ InvalidateSession
    /\ UNCHANGED <<wrapped, failureVars, call, running>>

\* any other request of the session
UseSession ==
    /\ HasSession /\ idleLong' = FALSE
    /\ UNCHANGED <<wrapped, unlocked, signedIn, failureVars, call, running>>

(***************************************************************************)
(* The sweep, the job runner, time and a restart                           *)
(***************************************************************************)
SweepSession ==
    /\ signedIn /\ idleLong /\ ~running /\ (Changing => LockedMeanwhile)
    /\ InvalidateSession
    /\ UNCHANGED <<wrapped, failureVars, call, running>>

SessionIdles ==
    /\ signedIn /\ idleLong' = TRUE
    /\ UNCHANGED <<wrapped, unlocked, signedIn, failureVars, call, running>>

BlockExpires ==
    /\ blocked /\ blocked' = FALSE
    /\ UNCHANGED <<wrapped, unlocked, sessionVars, failures, call, running>>

JobStarts ==
    /\ HasSession /\ ~running
    /\ running' = TRUE /\ idleLong' = FALSE
    /\ UNCHANGED <<wrapped, unlocked, signedIn, failureVars, call>>

\* the job ends; at the latest when the vault is locked and its next step
\* finds no key
JobEnds ==
    /\ running /\ running' = FALSE
    /\ UNCHANGED <<wrapped, unlocked, sessionVars, failureVars, call>>

VaultRestarts ==
    /\ unlocked' = FALSE /\ signedIn' = FALSE /\ idleLong' = FALSE
    /\ failures' = 0 /\ blocked' = FALSE /\ running' = FALSE
    /\ call' = [c \in Callers |-> NoCall]
    /\ UNCHANGED wrapped

VaultInit ==
    /\ wrapped = NoPassword
    /\ unlocked = FALSE /\ signedIn = FALSE /\ idleLong = FALSE
    /\ failures = 0 /\ blocked = FALSE /\ running = FALSE
    /\ call = [c \in Callers |-> NoCall]

DerivationEnds(c) ==
    \/ InitializeEnds(c) \/ UnlockEnds(c) \/ VerifyEnds(c)
    \/ ChangeOpens(c) \/ ChangeEnds(c) \/ AutomationEnds(c)

VaultNext ==
    \/ \E c \in Callers :
          \/ DerivationEnds(c)
          \/ \E p \in Passwords :
                \/ InitializeBegins(c, p) \/ UnlockBegins(c, p)
                \/ VerifyBegins(c, p) \/ AutomationBegins(c, p)
                \/ \E q \in Passwords : ChangeBegins(c, p, q)
    \/ \E p \in Passwords : Restore(p)
    \/ LockVault \/ UseSession \/ SweepSession \/ SessionIdles \/ BlockExpires
    \/ JobStarts \/ JobEnds \/ VaultRestarts

\* Derivations end, and the sweep comes by.
VaultFairness ==
    /\ WF_vaultVars(SweepSession)
    /\ \A c \in Callers : WF_vaultVars(DerivationEnds(c))

VaultSpec == VaultInit /\ [][VaultNext]_vaultVars /\ VaultFairness

(***************************************************************************)
(* Properties                                                              *)
(***************************************************************************)
\* The key is in memory only for a session: a command that unlocks the vault
\* "must never create a durable unlocked session" (app.ts:245), whatever
\* overlaps with it.
KeyHasSession == unlocked => signedIn

\* A session nobody uses loses its key, unless a transfer job is running.
IdleIsLocked ==
    signedIn /\ idleLong /\ ~running ~> ~unlocked \/ ~idleLong \/ running
=============================================================================
