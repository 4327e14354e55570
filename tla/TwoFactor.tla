------------------------------ MODULE TwoFactor -------------------------------
(***************************************************************************)
(* Two-factor authentication: enrolment, backup codes, the second step of  *)
(* a log-in and the lockout after too many wrong codes.                    *)
(*                                                                         *)
(*   twofa.Service      Enroll, Confirm, Disable, RegenerateBackupCodes    *)
(*   user.Service       challenge2FAOrMint, Complete2FALogin,              *)
(*                      Start/Complete of the enrolment at log-in          *)
(*   ratelimit          RegisterFailure, IsLocked, Reset in Redis          *)
(*                                                                         *)
(* The clock is abstracted: a TOTP code is the secret it is computed from, *)
(* and what has a time to live may disappear whenever it has one (a token  *)
(* that expires only ends requests, so tokens stay).                       *)
(*                                                                         *)
(* A definition whose comment begins with "Mutant" is no part of the model *)
(* (see OrderPayment).                                                     *)
(***************************************************************************)
EXTENDS Naturals, FiniteSets

CONSTANTS TfaUsers,
          SuperAdmins,  \* those who must enrol
          TfaCalls,     \* requests that can be in flight at once
          Secrets, NoSecret,
          NumCodes,     \* numBackupCodes, 8 in the code
          MaxBatches,   \* bound on generations of backup codes
          MaxFailures,  \* ratelimit.MaxFailures, 5 in the code
          MaxGuesses,   \* bound on the failure counter
          TfaMaxFaults  \* bound on crashes and Redis errors

ASSUME SuperAdminsAssumption == SuperAdmins \subseteq TfaUsers
ASSUME TfaCallsAssumption == IsFiniteSet(TfaCalls)
ASSUME NoSecretAssumption == NoSecret \notin Secrets
ASSUME TfaNumbersAssumption ==
    /\ NumCodes \in Nat \ {0} /\ MaxFailures \in Nat \ {0}
    /\ MaxBatches \in Nat /\ MaxGuesses \in Nat /\ TfaMaxFaults \in Nat

VARIABLES secret,    \* totp_secret_enc, NoSecret without a row
          enabled,
          codes,     \* backup codes whose used_at is NULL
          batches,   \* generations of backup codes so far
          pending,   \* users who were given a pending token
          signedIn,  \* users who were given an access token
          fails,     \* 2fa:fail:<user>
          failsTtl,  \* whether that counter has an expiry
          locked,    \* 2fa:lock:<user>
          guesses,   \* wrong codes judged since a key last went
          entered,   \* log-ins a backup code was accepted for
          steps,     \* requests in flight
          tfaFaults  \* faults so far

tfaVars == <<secret, enabled, codes, batches, pending, signedIn, fails, failsTtl,
             locked, guesses, entered, steps, tfaFaults>>
recordVars == <<secret, enabled>>
codeVars == <<codes, batches, entered>>
lockVars == <<fails, failsTtl, locked, guesses>>
sessionVars == <<pending, signedIn>>

BackupCodes == (1..MaxBatches) \X (1..NumCodes)
Batch(n) == {n} \X (1..NumCodes)
Wrong == <<0, 0>>
\* What can be typed where a code is asked for.
Typed == Secrets \cup BackupCodes \cup {Wrong}
\* What makes a difference now: a code nobody was shown is as wrong as any.
Known(u) == ({secret[u]} \ {NoSecret}) \cup {k \in BackupCodes : k[1] <= batches}
                \cup {Wrong}

TfaSteps == {"idle", "verifyTotp", "consume", "incr", "expireFails", "lock", "reset",
             "enable", "replace", "insert", "dropCodes"}
\* `login` tells the two callers of Confirm apart, `doomed` are the backup codes
\* a DELETE found.
TfaRequests == [at : TfaSteps, user : TfaUsers, code : Typed, login : BOOLEAN,
                n : Nat, doomed : SUBSET BackupCodes]

TfaTypeOK ==
    /\ secret \in [TfaUsers -> Secrets \cup {NoSecret}]
    /\ enabled \in [TfaUsers -> BOOLEAN]
    /\ codes \in [TfaUsers -> SUBSET BackupCodes]
    /\ batches \in 0..MaxBatches
    /\ pending \subseteq TfaUsers
    /\ signedIn \subseteq TfaUsers
    /\ fails \in [TfaUsers -> Nat]
    /\ failsTtl \in [TfaUsers -> BOOLEAN]
    /\ locked \in [TfaUsers -> BOOLEAN]
    /\ guesses \in [TfaUsers -> Nat]
    /\ entered \in [BackupCodes -> Nat]
    /\ steps \in [TfaCalls -> TfaRequests]
    /\ tfaFaults \in 0..TfaMaxFaults

NoRequest(u) == [at |-> "idle", user |-> u, code |-> Wrong, login |-> FALSE,
                 n |-> 0, doomed |-> {}]

TfaInit ==
    /\ secret = [u \in TfaUsers |-> NoSecret]
    /\ enabled = [u \in TfaUsers |-> FALSE]
    /\ codes = [u \in TfaUsers |-> {}]
    /\ batches = 0
    /\ pending = {}
    /\ signedIn = {}
    /\ fails = [u \in TfaUsers |-> 0]
    /\ failsTtl = [u \in TfaUsers |-> FALSE]
    /\ locked = [u \in TfaUsers |-> FALSE]
    /\ guesses = [u \in TfaUsers |-> 0]
    /\ entered = [k \in BackupCodes |-> 0]
    /\ \E u \in TfaUsers : steps = [c \in TfaCalls |-> NoRequest(u)]
    /\ tfaFaults = 0

TfaFault == tfaFaults < TfaMaxFaults /\ tfaFaults' = tfaFaults + 1

Free(c) == steps[c].at = "idle"
Stands(c, s) == steps[c].at = s
Step(c, s) == steps' = [steps EXCEPT ![c].at = s]
Enter(c, r) == steps' = [steps EXCEPT ![c] = r]
\* The code that was typed is not needed any more.
Judged(c, s) == steps' = [steps EXCEPT ![c].at = s, ![c].code = Wrong]
End(c) == steps' = [steps EXCEPT ![c] = NoRequest(steps[c].user)]

-------------------------------------------------------------------------------
(* Logging in *)

\* The password was right (or Google vouched).  With the factor on, or for a
\* super admin without it, the answer is a pending token, else an access token.
challenge2FAOrMint(u) ==
    /\ IF enabled[u] \/ u \in SuperAdmins
       THEN pending' = pending \cup {u} /\ UNCHANGED signedIn
       ELSE signedIn' = signedIn \cup {u} /\ UNCHANGED pending
    /\ UNCHANGED <<recordVars, codeVars, lockVars, steps, tfaFaults>>

\* ResolvePendingToken and IsLocked, which fails open.
Complete2FALogin(c, u, code) ==
    /\ Free(c) /\ u \in pending
    /\ \/ ~locked[u] /\ UNCHANGED tfaFaults
       \/ locked[u] /\ TfaFault
    /\ Enter(c, [NoRequest(u) EXCEPT !.at = "verifyTotp", !.code = code])
    /\ UNCHANGED <<recordVars, codeVars, sessionVars, lockVars>>

\* The code is compared with the secret of an enabled record.
VerifyCode(c) ==
    LET r == steps[c] IN
    /\ Stands(c, "verifyTotp")
    /\ IF enabled[r.user] /\ r.code = secret[r.user]
       THEN Judged(c, "reset") ELSE Step(c, "consume")
    /\ UNCHANGED <<recordVars, codeVars, sessionVars, lockVars, tfaFaults>>

\* Mutant: the code is found and marked as used in two statements.
ConsumeByRead(c) ==
    LET r == steps[c] IN
    /\ Stands(c, "consume")
    /\ IF r.code \in codes[r.user]
       THEN IF r.n = 0
            THEN /\ steps' = [steps EXCEPT ![c].n = 1]
                 /\ UNCHANGED <<codes, guesses, entered>>
            ELSE /\ codes' = [codes EXCEPT ![r.user] = @ \ {r.code}]
                 /\ entered' = [entered EXCEPT ![r.code] = @ + 1]
                 /\ Step(c, "reset") /\ UNCHANGED guesses
       ELSE IF r.n = 1
            THEN /\ entered' = [entered EXCEPT ![r.code] = @ + 1]
                 /\ Step(c, "reset") /\ UNCHANGED <<codes, guesses>>
            ELSE /\ guesses' = [guesses EXCEPT ![r.user] = @ + 1]
                 /\ Step(c, "incr") /\ UNCHANGED <<codes, entered>>
    /\ UNCHANGED <<recordVars, batches, sessionVars, fails, failsTtl, locked, tfaFaults>>

\* One UPDATE ... WHERE used_at IS NULL RETURNING: it finds the code or not.
ConsumeBackupCode(c) ==
    LET r == steps[c] IN
    /\ Stands(c, "consume")
    /\ IF r.code \in codes[r.user]
       THEN /\ codes' = [codes EXCEPT ![r.user] = @ \ {r.code}]
            /\ entered' = [entered EXCEPT ![r.code] = @ + 1]
            /\ Judged(c, "reset") /\ UNCHANGED guesses
       ELSE /\ guesses' = [guesses EXCEPT ![r.user] = @ + 1]
            /\ Judged(c, "incr") /\ UNCHANGED <<codes, entered>>
    /\ UNCHANGED <<recordVars, batches, sessionVars, fails, failsTtl, locked, tfaFaults>>

\* RegisterFailure begins with INCR; on a Redis error it gives up.
RegisterFailure(c) ==
    LET u == steps[c].user
        n == fails[u] + 1
    IN
    /\ Stands(c, "incr") /\ n <= MaxGuesses
    /\ \/ /\ fails' = [fails EXCEPT ![u] = n]
          /\ steps' = [steps EXCEPT ![c].n = n,
                 ![c].at = IF n = 1 THEN "expireFails" ELSE "lock"]
          /\ UNCHANGED tfaFaults
       \/ End(c) /\ TfaFault /\ UNCHANGED fails
    /\ UNCHANGED <<recordVars, codeVars, sessionVars, failsTtl, locked, guesses>>

\* EXPIRE of the counter; nothing happens when it is gone.
ExpireFailures(c) ==
    LET u == steps[c].user IN
    /\ Stands(c, "expireFails") /\ Step(c, "lock")
    /\ \/ failsTtl' = [failsTtl EXCEPT ![u] = fails[u] > 0] /\ UNCHANGED tfaFaults
       \/ TfaFault /\ UNCHANGED failsTtl
    /\ UNCHANGED <<recordVars, codeVars, sessionVars, fails, locked, guesses>>

\* Mutant: the lock is set one failure late.
LockLate(c) ==
    LET r == steps[c] IN
    /\ Stands(c, "lock") /\ End(c)
    /\ locked' = IF r.n > MaxFailures THEN [locked EXCEPT ![r.user] = TRUE] ELSE locked
    /\ UNCHANGED <<recordVars, codeVars, sessionVars, fails, failsTtl, guesses, tfaFaults>>

\* SET of the lock, with its expiry in the same command.
LockOut(c) ==
    LET r == steps[c] IN
    /\ Stands(c, "lock") /\ End(c)
    /\ \/ /\ locked' = IF r.n >= MaxFailures THEN [locked EXCEPT ![r.user] = TRUE] ELSE locked
          /\ UNCHANGED tfaFaults
       \/ r.n >= MaxFailures /\ TfaFault /\ UNCHANGED locked
    /\ UNCHANGED <<recordVars, codeVars, sessionVars, fails, failsTtl, guesses>>

\* The code was right: both keys are deleted and the access token is minted.
ResetAndMint(c) ==
    LET u == steps[c].user IN
    /\ Stands(c, "reset") /\ End(c)
    /\ signedIn' = signedIn \cup {u}
    /\ \/ /\ fails' = [fails EXCEPT ![u] = 0]
          /\ failsTtl' = [failsTtl EXCEPT ![u] = FALSE]
          /\ locked' = [locked EXCEPT ![u] = FALSE]
          /\ guesses' = [guesses EXCEPT ![u] = 0]
          /\ UNCHANGED tfaFaults
       \/ TfaFault /\ UNCHANGED lockVars
    /\ UNCHANGED <<recordVars, codeVars, pending>>

\* Redis drops the counter or the lock when its time is over.
FailuresExpire(u) ==
    /\ failsTtl[u]
    /\ fails' = [fails EXCEPT ![u] = 0]
    /\ failsTtl' = [failsTtl EXCEPT ![u] = FALSE]
    /\ guesses' = [guesses EXCEPT ![u] = 0]
    /\ UNCHANGED <<recordVars, codeVars, sessionVars, locked, steps, tfaFaults>>

LockExpires(u) ==
    /\ locked[u]
    /\ locked' = [locked EXCEPT ![u] = FALSE]
    /\ guesses' = [guesses EXCEPT ![u] = 0]
    /\ UNCHANGED <<recordVars, codeVars, sessionVars, fails, failsTtl, steps, tfaFaults>>

-------------------------------------------------------------------------------
(* Enrolment and backup codes *)

\* A new secret is staged and whatever was enabled is not any more.  Asked for
\* with an access token, or with the pending token of a super admin's log-in.
Enroll(u, s) ==
    /\ u \in signedIn \/ u \in pending
    /\ s # secret[u]
    /\ secret' = [secret EXCEPT ![u] = s]
    /\ enabled' = [enabled EXCEPT ![u] = FALSE]
    /\ UNCHANGED <<codeVars, sessionVars, lockVars, steps, tfaFaults>>

\* The staged secret is read and the first code checked against it.
Confirm(c, u, code, login) ==
    /\ Free(c)
    /\ IF login THEN u \in pending ELSE u \in signedIn
    /\ secret[u] # NoSecret /\ code = secret[u]
    /\ Enter(c, [NoRequest(u) EXCEPT !.at = "enable", !.login = login])
    /\ UNCHANGED <<recordVars, codeVars, sessionVars, lockVars, tfaFaults>>

\* UPDATE ... SET enabled = TRUE WHERE user_id, whatever the secret is by now.
Enable(c) ==
    /\ Stands(c, "enable") /\ Step(c, "replace")
    /\ enabled' = [enabled EXCEPT ![steps[c].user] = TRUE]
    /\ UNCHANGED <<secret, codeVars, sessionVars, lockVars, tfaFaults>>

RegenerateBackupCodes(c, u) ==
    /\ Free(c) /\ u \in signedIn /\ enabled[u]
    /\ Enter(c, [NoRequest(u) EXCEPT !.at = "replace"])
    /\ UNCHANGED <<recordVars, codeVars, sessionVars, lockVars, tfaFaults>>

\* StoreBackupCodes deletes the unused codes it sees ...
DeleteUnused(c) ==
    /\ Stands(c, "replace")
    /\ steps' = [steps EXCEPT ![c].at = "insert", ![c].doomed = codes[steps[c].user]]
    /\ UNCHANGED <<recordVars, codeVars, sessionVars, lockVars, tfaFaults>>

\* ... and commits with the new ones; after Complete2FAEnrollment the user is
\* signed in.  Codes another transaction committed in between stay.
StoreBackupCodes(c) ==
    LET r == steps[c] IN
    /\ Stands(c, "insert") /\ End(c) /\ batches < MaxBatches
    /\ batches' = batches + 1
    /\ codes' = [codes EXCEPT ![r.user] = (@ \ r.doomed) \cup Batch(batches + 1)]
    /\ signedIn' = IF r.login THEN signedIn \cup {r.user} ELSE signedIn
    /\ UNCHANGED <<recordVars, entered, pending, lockVars, tfaFaults>>

Disable(c, u) ==
    /\ Free(c) /\ u \in signedIn /\ secret[u] # NoSecret
    /\ enabled' = [enabled EXCEPT ![u] = FALSE]
    /\ Enter(c, [NoRequest(u) EXCEPT !.at = "dropCodes"])
    /\ UNCHANGED <<secret, codeVars, sessionVars, lockVars, tfaFaults>>

DeleteBackupCodes(c) ==
    /\ Stands(c, "dropCodes") /\ End(c)
    /\ codes' = [codes EXCEPT ![steps[c].user] = {}]
    /\ UNCHANGED <<recordVars, batches, entered, sessionVars, lockVars, tfaFaults>>

TfaCrash ==
    /\ \E c \in TfaCalls : ~Free(c)
    /\ steps' = [c \in TfaCalls |-> NoRequest(steps[c].user)]
    /\ TfaFault
    /\ UNCHANGED <<recordVars, codeVars, sessionVars, lockVars>>

-------------------------------------------------------------------------------
TfaStarts(c, u) ==
    \/ \E k \in Known(u) : Complete2FALogin(c, u, k)
    \/ \E k \in Known(u), login \in BOOLEAN : Confirm(c, u, k, login)
    \/ RegenerateBackupCodes(c, u)
    \/ Disable(c, u)
TfaGoesOn(c) ==
    \/ VerifyCode(c) \/ ConsumeBackupCode(c)
    \/ RegisterFailure(c) \/ ExpireFailures(c) \/ LockOut(c) \/ ResetAndMint(c)
    \/ Enable(c) \/ DeleteUnused(c) \/ StoreBackupCodes(c) \/ DeleteBackupCodes(c)

TfaNext ==
    \/ \E u \in TfaUsers :
        \/ challenge2FAOrMint(u)
        \/ FailuresExpire(u) \/ LockExpires(u)
        \/ \E s \in Secrets : Enroll(u, s)
        \/ \E c \in TfaCalls : TfaStarts(c, u)
    \/ \E c \in TfaCalls : TfaGoesOn(c)
    \/ TfaCrash

TfaSpec == TfaInit /\ [][TfaNext]_tfaVars

-------------------------------------------------------------------------------
(* Properties *)

\* A backup code is accepted for one log-in, however many requests send it and
\* whatever is regenerated, disabled or confirmed meanwhile.
BackupCodeOnce == \A k \in BackupCodes : entered[k] <= 1

\* Between two expiries at most MaxFailures wrong codes are judged, and one more
\* for every other request that was past the lock when it was set; a fault loses
\* count of the requests in flight.
GuessesAreBounded ==
    \A u \in TfaUsers :
        guesses[u] <= MaxFailures + (Cardinality(TfaCalls) - 1)
                          + Cardinality(TfaCalls) * tfaFaults
===============================================================================
