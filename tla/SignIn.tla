------------------------------- MODULE SignIn -------------------------------
(***************************************************************************)
(* Signing in: src/internal/auth/{handlers,totp,sessions,middleware}.go,   *)
(* the lockout of src/internal/user/repo.go and the two administrators'    *)
(* resets of src/internal/user/adminapi/handlers.go.                       *)
(*                                                                         *)
(* A request is a sequence of statements, between which other requests     *)
(* run.  A password is compared with the hash the request read; a code is  *)
(* compared under the account's lock (accountLocks).  Codes of an          *)
(* authenticator are numbered by their time step: what the 90-second       *)
(* window lets through, in the order claim accepts it, is an increasing    *)
(* sequence.  The limiter and the hashing slots are in Throttle; cookies   *)
(* and CSRF tokens only refuse requests and are left out.                  *)
(***************************************************************************)
EXTENDS Accounts

CONSTANTS
    MaxFailures,   \* wrong passwords and codes that lock the account
    MFAAttempts,   \* wrong codes that end a sign-in, or close the step-up
    RecoveryCount,
    Seeds,         \* authenticators: what Enroll generates
    MaxStep,       \* bound: time steps
    SReqs          \* requests in flight

ASSUME SignInAssumption ==
    /\ {MaxFailures, MFAAttempts, RecoveryCount, MaxStep} \subseteq Nat \ {0}
    /\ None \notin Seeds \cup SReqs

VARIABLES
    totp,       \* mfa_totp
    recovery,   \* mfa_recovery_codes: how many are unused, and of which enrolment
    attempts,   \* mfaAttempts: wrong codes of a sign-in
    stepUp,     \* stepUpFails
    codeLock,   \* accountLocks: who compares a code of the account
    sreq,       \* requests
    guesses     \* codes compared during sign-ins and found wrong, since the count was cleared

signVars == <<totp, recovery, attempts, stepUp, codeLock, sreq, guesses>>

NoTOTP == [seed |-> None, confirmed |-> FALSE, last |-> 0]
NoCodes == [seed |-> None, unused |-> 0]
SIdle == [pc |-> "idle", user |-> None, sess |-> None, guess |-> None, pw |-> None, weak |-> FALSE, owed |-> FALSE, mfa |-> FALSE,
          enrolled |-> FALSE, seed |-> None, step |-> 0]

SignTypeOK ==
    /\ totp \in [Users -> [seed : Seeds \cup {None}, confirmed : BOOLEAN, last : Nat]]
    /\ recovery \in [Users -> [seed : Seeds \cup {None}, unused : Nat]]
    /\ attempts \in [WSess -> Nat]
    /\ stepUp \in [WSess -> [fails : Nat, closed : BOOLEAN]]
    /\ codeLock \in [Users -> SReqs \cup {None}]
    /\ sreq \in [SReqs -> [pc : {"idle", "password", "rehash", "accepted", "issue", "newpw", "others", "finish",
                                 "code", "prove", "enroll", "confirm", "confirming", "confirmed", "pwset", "reset"},
                           user : Users \cup {None}, sess : WSess \cup {None}, guess : Passwords \cup {None},
                           pw : Passwords \cup {None}, weak : BOOLEAN, owed : BOOLEAN, mfa : BOOLEAN, enrolled : BOOLEAN, seed : Seeds \cup {None}, step : Nat]]
    /\ guesses \in [Users -> Nat]

SignInit ==
    /\ totp = [u \in Users |-> NoTOTP]
    /\ recovery = [u \in Users |-> NoCodes]
    /\ attempts = [s \in WSess |-> 0]
    /\ stepUp = [s \in WSess |-> [fails |-> 0, closed |-> FALSE]]
    /\ codeLock = [u \in Users |-> None]
    /\ sreq = [q \in SReqs |-> SIdle]
    /\ guesses = [u \in Users |-> 0]

Enrolled(u) == totp[u].confirmed

\* Authenticate: a live session of an account nobody blocked; RequireAuth also
\* wants the second factor done and no password owed.
Principal(s) == LiveSession(s) /\ ~IsBlocked(account[wsess[s].user])
RequireAuth(s) == Principal(s) /\ wsess[s].state = "full" /\ ~account[wsess[s].user].owed

\* RecordLoginFailure, RecordLoginSuccess, SetPasswordHash: a statement each.
failed(r) == IF r.fails + 1 >= MaxFailures THEN [r EXCEPT !.fails = 0, !.locked = TRUE]
             ELSE [r EXCEPT !.fails = @ + 1]
RecordLoginFailure(u) == account' = IF Exists(u) THEN [account EXCEPT ![u] = failed(@)] ELSE account
Anew(u) == guesses' = [guesses EXCEPT ![u] = 0]
RecordLoginSuccess(u) ==
    /\ account' = IF Exists(u) THEN [account EXCEPT ![u].fails = 0, ![u].locked = FALSE] ELSE account
    /\ Anew(u)
\* The lockout count is cleared with it.
SetPasswordHash(u, pw, owed) ==
    /\ account' = IF Exists(u) THEN [account EXCEPT ![u].pw = pw, ![u].weak = FALSE, ![u].owed = owed,
                                                    ![u].fails = 0, ![u].locked = FALSE]
                  ELSE account
    /\ guesses' = [guesses EXCEPT ![u] = 0]

Goes(q, pc) == sreq' = [sreq EXCEPT ![q].pc = pc]
Stops(q) == sreq' = [sreq EXCEPT ![q] = SIdle]
Takes(q, u, rec) ==
    /\ sreq[q].pc = "idle"
    /\ sreq' = [sreq EXCEPT ![q] = [rec EXCEPT !.user = u]]
\* RevokeOthersForUser.
RevokeOthers(u, keep) ==
    wsess' = [s \in WSess |-> IF s # keep /\ LiveSession(s) /\ wsess[s].user = u
                              THEN [wsess[s] EXCEPT !.state = "revoked"] ELSE wsess[s]]
Revoked(s) == [wsess EXCEPT ![s].state = IF @ = "free" THEN @ ELSE "revoked"]
\* MarkMFAProved and MarkMFAVerified write to a revoked session too, which stays so.
Verified(s, proved) == [wsess EXCEPT ![s].state = IF @ = "partial" THEN "full" ELSE @, ![s].proved = @ \/ proved]

restOfAccounts == <<ulive, token, ureq, decided>>

-----------------------------------------------------------------------------
(* login, completeLogin.                                                   *)

\* The row is read; a locked account's password is not compared.  No password:
\* the directory is asked (ExternalLogin).
LoginStart(q, u, guess) ==
    /\ Exists(u) /\ ~IsLocked(account[u])
    /\ (guess = None) = (account[u].pw = None)
    /\ Takes(q, u, [SIdle EXCEPT !.pc = "password", !.guess = guess, !.pw = account[u].pw,
                                  !.weak = account[u].weak, !.owed = account[u].owed])
    /\ UNCHANGED <<acctVars, totp, recovery, attempts, stepUp, codeLock, guesses>>

LoginCheck(q, directory) ==
    LET r == sreq[q]
        right == IF r.guess = None THEN directory = "right" ELSE r.guess = r.pw
    IN
    /\ r.pc = "password"
    /\ IF right
       THEN /\ Goes(q, IF r.guess # None /\ r.weak THEN "rehash" ELSE "accepted")
            /\ UNCHANGED account
       ELSE /\ Stops(q)
            /\ IF r.guess # None \/ directory = "wrong" THEN RecordLoginFailure(r.user) ELSE UNCHANGED account
    /\ UNCHANGED <<wsess, restOfAccounts, totp, recovery, attempts, stepUp, codeLock, guesses>>

\* A hash made with older parameters is made anew, from what was read.
LoginRehash(q) ==
    /\ sreq[q].pc = "rehash"
    /\ SetPasswordHash(sreq[q].user, sreq[q].guess, sreq[q].owed)
    /\ Goes(q, "accepted")
    /\ UNCHANGED <<wsess, restOfAccounts, totp, recovery, attempts, stepUp, codeLock>>

\* ReplaceSession, then whether an authenticator is enrolled.
LoginReplace(q, old) ==
    /\ sreq[q].pc = "accepted"
    /\ old # None => Principal(old)
    /\ wsess' = IF old = None THEN wsess ELSE Revoked(old)
    /\ sreq' = [sreq EXCEPT ![q].pc = "issue", ![q].enrolled = Enrolled(sreq[q].user)]
    /\ UNCHANGED <<account, restOfAccounts, totp, recovery, attempts, stepUp, codeLock, guesses>>

\* Complete when nothing more is owed, the setting auth.require_mfa being read
\* each time; the session is partial otherwise.
LoginIssue(q, s, require) ==
    LET r == sreq[q]
        complete == ~r.enrolled /\ ~require /\ ~r.owed
    IN
    /\ r.pc = "issue"
    /\ wsess[s].state = "free"
    /\ Stops(q)
    /\ IF complete THEN RecordLoginSuccess(r.user) ELSE UNCHANGED <<account, guesses>>
    /\ wsess' = IF Exists(r.user)
                THEN [wsess EXCEPT ![s] = [state |-> IF complete THEN "full" ELSE "partial", user |-> r.user, proved |-> FALSE]]
                ELSE wsess
    /\ UNCHANGED <<restOfAccounts, totp, recovery, attempts, stepUp, codeLock>>

Logout(s) ==
    /\ Principal(s)
    /\ wsess' = Revoked(s)
    /\ UNCHANGED <<account, restOfAccounts, signVars>>

\* The session's time is up, or DeleteExpired removes what was revoked.
SessionExpires(s) ==
    /\ wsess[s].state # "free"
    /\ \A q \in SReqs : sreq[q].sess # s
    /\ wsess' = [wsess EXCEPT ![s] = NoWSess]
    /\ attempts' = [attempts EXCEPT ![s] = 0]
    /\ stepUp' = [stepUp EXCEPT ![s] = [fails |-> 0, closed |-> FALSE]]
    /\ UNCHANGED <<account, restOfAccounts, totp, recovery, codeLock, sreq, guesses>>

\* LockFor has passed.
Unlocks(u) ==
    /\ account[u].locked
    /\ account' = [account EXCEPT ![u].locked = FALSE]
    /\ Anew(u)
    /\ UNCHANGED <<wsess, restOfAccounts, totp, recovery, attempts, stepUp, codeLock, sreq>>

-----------------------------------------------------------------------------
(* changePassword.                                                         *)

\* currentPassword: refused while locked; a wrong one counts.
currentPassword(q, s, guess, rec) ==
    LET u == wsess[s].user IN
    /\ ~IsLocked(account[u])
    /\ IF guess = account[u].pw
       THEN Takes(q, u, rec) /\ UNCHANGED account
       ELSE /\ account[u].pw # None
            /\ RecordLoginFailure(u)
            /\ sreq[q].pc = "idle" /\ UNCHANGED sreq

ChangeStart(q, s, guess) ==
    /\ Principal(s)
    /\ wsess[s].state = "partial" => ~Enrolled(wsess[s].user) /\ account[wsess[s].user].owed
    /\ guess # None
    /\ currentPassword(q, s, guess, [SIdle EXCEPT !.pc = "newpw", !.sess = s, !.guess = guess,
                                                  !.mfa = wsess[s].state = "full"])
    /\ UNCHANGED <<wsess, restOfAccounts, totp, recovery, attempts, stepUp, codeLock, guesses>>

ChangeSet(q, pw) ==
    /\ sreq[q].pc = "newpw"
    /\ pw # sreq[q].guess
    /\ SetPasswordHash(sreq[q].user, pw, FALSE)
    /\ Goes(q, "others")
    /\ UNCHANGED <<wsess, restOfAccounts, totp, recovery, attempts, stepUp, codeLock>>

ChangeRevoke(q) ==
    /\ sreq[q].pc = "others"
    /\ RevokeOthers(sreq[q].user, sreq[q].sess)
    /\ IF sreq[q].mfa THEN Stops(q) ELSE Goes(q, "finish")
    /\ UNCHANGED <<account, restOfAccounts, totp, recovery, attempts, stepUp, codeLock, guesses>>

\* The change was the last step owed, unless a second factor is.
ChangeFinish(q, require) ==
    LET r == sreq[q] IN
    /\ r.pc = "finish"
    /\ Stops(q)
    /\ IF Enrolled(r.user) \/ require THEN UNCHANGED <<account, guesses, wsess>>
       ELSE RecordLoginSuccess(r.user) /\ wsess' = Verified(r.sess, FALSE)
    /\ UNCHANGED <<restOfAccounts, totp, recovery, attempts, stepUp, codeLock>>

-----------------------------------------------------------------------------
(* checkCode: totpVerify and totpConfirm.                                  *)

Releases(u) == codeLock' = [codeLock EXCEPT ![u] = None]
\* endSignIn.
endSignIn(s) == wsess' = Revoked(s) /\ attempts' = [attempts EXCEPT ![s] = 0]

\* A wrong code: counted for the account, and for the sign-in.
WrongCode(q, verify) ==
    LET r == sreq[q]
        locking == account[r.user].fails + 1 >= MaxFailures
    IN
    /\ RecordLoginFailure(r.user)
    /\ Releases(r.user)
    /\ Stops(q)
    /\ IF r.mfa THEN UNCHANGED guesses
       ELSE guesses' = [guesses EXCEPT ![r.user] = @ + 1]
    /\ IF ~r.mfa /\ (locking \/ (verify /\ attempts[r.sess] + 1 >= MFAAttempts)) THEN endSignIn(r.sess)
       ELSE /\ attempts' = IF verify THEN [attempts EXCEPT ![r.sess] = @ + 1] ELSE attempts
            /\ UNCHANGED wsess

CheckCodeMut(q, s, pc) ==     \* mutant: checks of one account are not kept apart
    LET u == wsess[s].user
        signIn == wsess[s].state = "partial"
    IN
    /\ IF signIn /\ IsLocked(account[u])
       THEN endSignIn(s) /\ sreq[q].pc = "idle" /\ UNCHANGED <<sreq, codeLock>>
       ELSE /\ Takes(q, u, [SIdle EXCEPT !.pc = pc, !.sess = s, !.mfa = ~signIn])
            /\ UNCHANGED <<wsess, attempts, codeLock>>
    /\ UNCHANGED <<account, restOfAccounts, totp, recovery, stepUp, guesses>>

\* The account's lock, then the row: a locked account's code is not compared.
CheckCode(q, s, pc) ==
    LET u == wsess[s].user
        signIn == wsess[s].state = "partial"
    IN
    /\ codeLock[u] = None
    /\ IF signIn /\ IsLocked(account[u])
       THEN endSignIn(s) /\ sreq[q].pc = "idle" /\ UNCHANGED <<sreq, codeLock>>
       ELSE /\ Takes(q, u, [SIdle EXCEPT !.pc = pc, !.sess = s, !.mfa = ~signIn])
            /\ codeLock' = [codeLock EXCEPT ![u] = q]
            /\ UNCHANGED <<wsess, attempts>>
    /\ UNCHANGED <<account, restOfAccounts, totp, recovery, stepUp, guesses>>

VerifyStart(q, s) ==
    /\ Principal(s) /\ wsess[s].state = "partial"
    /\ CheckCode(q, s, "code")

\* TOTP.Verify: a code claims its step, once; a recovery code is used up.
claim(u, step) == totp[u].confirmed /\ step > totp[u].last
VerifyRight(q, step) ==
    LET r == sreq[q] IN
    /\ r.pc = "code"
    /\ \/ /\ claim(r.user, step)
          /\ totp' = [totp EXCEPT ![r.user].last = step]
          /\ UNCHANGED recovery
       \/ /\ totp[r.user].confirmed /\ recovery[r.user].unused > 0
          /\ recovery' = [recovery EXCEPT ![r.user].unused = @ - 1]
          /\ UNCHANGED totp
    /\ RecordLoginSuccess(r.user)
    /\ Releases(r.user)
    /\ Goes(q, "prove")
    /\ UNCHANGED <<wsess, restOfAccounts, attempts, stepUp>>

VerifyWrong(q) ==
    /\ sreq[q].pc = "code"
    /\ WrongCode(q, TRUE)
    /\ UNCHANGED <<restOfAccounts, totp, recovery, stepUp>>

VerifyProve(q) ==
    /\ sreq[q].pc = "prove"
    /\ wsess' = Verified(sreq[q].sess, TRUE)
    /\ attempts' = [attempts EXCEPT ![sreq[q].sess] = 0]
    /\ Stops(q)
    /\ UNCHANGED <<account, restOfAccounts, totp, recovery, stepUp, codeLock, guesses>>

\* totpEnroll: a full session gives the password again; TOTP.Enroll looks for
\* a confirmed authenticator ...
EnrollStart(q, s, guess) ==
    LET u == wsess[s].user
        rec == [SIdle EXCEPT !.pc = "enroll", !.sess = s]
    IN
    /\ Principal(s) /\ ~account[u].owed /\ ~Enrolled(u)
    /\ IF wsess[s].state = "full" /\ account[u].pw # None THEN guess # None /\ currentPassword(q, s, guess, rec)
       ELSE guess = None /\ Takes(q, u, rec) /\ UNCHANGED account
    /\ UNCHANGED <<wsess, restOfAccounts, totp, recovery, attempts, stepUp, codeLock, guesses>>

\* ... and replaces what is there.
EnrollWrite(q, seed) ==
    LET u == sreq[q].user IN
    /\ sreq[q].pc = "enroll"
    /\ seed # totp[u].seed
    /\ totp' = IF Exists(u) THEN [totp EXCEPT ![u] = [NoTOTP EXCEPT !.seed = seed]] ELSE totp
    /\ Stops(q)
    /\ UNCHANGED <<acctVars, recovery, attempts, stepUp, codeLock, guesses>>

ConfirmStart(q, s) ==
    /\ Principal(s) /\ ~account[wsess[s].user].owed
    /\ CheckCode(q, s, "confirm")

\* TOTP.Confirm: the secret is read and the code compared with it ...
ConfirmRead(q, step) ==
    LET r == sreq[q] IN
    /\ r.pc = "confirm"
    /\ IF totp[r.user].seed = None \/ totp[r.user].confirmed
       THEN Stops(q) /\ Releases(r.user)
       ELSE /\ sreq' = [sreq EXCEPT ![q].pc = "confirming", ![q].seed = totp[r.user].seed, ![q].step = step]
            /\ UNCHANGED codeLock
    /\ UNCHANGED <<acctVars, totp, recovery, attempts, stepUp, guesses>>

ConfirmWrong(q) ==
    /\ sreq[q].pc = "confirm"
    /\ totp[sreq[q].user].seed # None /\ ~totp[sreq[q].user].confirmed
    /\ WrongCode(q, FALSE)
    /\ UNCHANGED <<restOfAccounts, totp, recovery, stepUp>>

\* ... then whatever row the account has is confirmed, with new recovery codes.
ConfirmWrite(q) ==
    LET r == sreq[q]
        u == r.user
    IN
    /\ r.pc = "confirming"
    /\ totp' = IF totp[u].seed = None THEN totp ELSE [totp EXCEPT ![u].confirmed = TRUE, ![u].last = r.step]
    /\ recovery' = IF Exists(u) THEN [recovery EXCEPT ![u] = [seed |-> r.seed, unused |-> RecoveryCount]] ELSE recovery
    /\ IF r.mfa THEN UNCHANGED <<account, guesses>> ELSE RecordLoginSuccess(u)
    /\ Releases(u)
    /\ Goes(q, "confirmed")
    /\ UNCHANGED <<wsess, restOfAccounts, attempts, stepUp>>

\* MarkMFAProved; a full session also ends the account's others.
ConfirmProve(q) ==
    LET r == sreq[q]
        marked == Verified(r.sess, TRUE)
    IN
    /\ r.pc = "confirmed"
    /\ wsess' = [s \in WSess |-> IF r.mfa /\ s # r.sess /\ LiveSession(s) /\ wsess[s].user = r.user
                                 THEN [wsess[s] EXCEPT !.state = "revoked"] ELSE marked[s]]
    /\ Stops(q)
    /\ UNCHANGED <<account, restOfAccounts, totp, recovery, attempts, stepUp, codeLock, guesses>>

\* stepUp: a code proved again on a full session; wrong ones close the route
\* for the session, not the account.
StepUp(s, step) ==
    LET u == wsess[s].user
        n == stepUp[s].fails + 1
    IN
    /\ RequireAuth(s) /\ ~stepUp[s].closed /\ Enrolled(u)
    /\ \/ /\ claim(u, step)
          /\ totp' = [totp EXCEPT ![u].last = step]
          /\ wsess' = Verified(s, TRUE)
          /\ stepUp' = [stepUp EXCEPT ![s] = [fails |-> 0, closed |-> FALSE]]
       \/ /\ ~claim(u, step)
          /\ stepUp' = [stepUp EXCEPT ![s] = [fails |-> IF n >= MFAAttempts THEN 0 ELSE n, closed |-> n >= MFAAttempts]]
          /\ UNCHANGED <<totp, wsess>>
    /\ UNCHANGED <<account, restOfAccounts, recovery, attempts, codeLock, sreq, guesses>>

\* The closing time, or the five minutes a proof is fresh for, have passed.
StepUpLapses(s) ==
    /\ stepUp[s].closed \/ wsess[s].proved
    /\ stepUp' = [stepUp EXCEPT ![s].closed = FALSE]
    /\ wsess' = [wsess EXCEPT ![s].proved = FALSE]
    /\ UNCHANGED <<account, restOfAccounts, totp, recovery, attempts, codeLock, sreq, guesses>>

-----------------------------------------------------------------------------
(* The administrator's resets: setPassword, resetMFA; the sessions end in  *)
(* a statement of its own.                                                 *)

AdminPassword(q, u, pw, owed) ==
    /\ Exists(u)
    /\ Takes(q, u, [SIdle EXCEPT !.pc = "pwset"])
    /\ SetPasswordHash(u, pw, owed)
    /\ UNCHANGED <<wsess, restOfAccounts, totp, recovery, attempts, stepUp, codeLock>>

AdminResetMFA(q, u) ==
    /\ Exists(u)
    /\ Takes(q, u, [SIdle EXCEPT !.pc = "reset"])
    /\ totp' = [totp EXCEPT ![u] = NoTOTP]
    /\ recovery' = [recovery EXCEPT ![u] = NoCodes]
    /\ UNCHANGED <<acctVars, attempts, stepUp, codeLock, guesses>>

AdminRevoke(q) ==
    /\ sreq[q].pc \in {"pwset", "reset"}
    /\ RevokeAllForUser(sreq[q].user)
    /\ endLive(sreq[q].user)
    /\ Stops(q)
    /\ UNCHANGED <<account, token, ureq, decided, totp, recovery, attempts, stepUp, codeLock, guesses>>

LoginNext ==
    \/ \E q \in SReqs, u \in Users, guess \in Passwords \cup {None} : LoginStart(q, u, guess)
    \/ \E q \in SReqs, d \in {"right", "wrong", "unavailable"} : LoginCheck(q, d)
    \/ \E q \in SReqs : LoginRehash(q) \/ \E old \in WSess \cup {None} : LoginReplace(q, old)
    \/ \E q \in SReqs, s \in WSess, require \in BOOLEAN : LoginIssue(q, s, require)
    \/ \E s \in WSess : Logout(s) \/ SessionExpires(s)
    \/ \E u \in Users : Unlocks(u)

PasswordNext ==
    \/ \E q \in SReqs, s \in WSess, guess \in Passwords : ChangeStart(q, s, guess)
    \/ \E q \in SReqs : ChangeRevoke(q) \/ AdminRevoke(q) \/ \E require \in BOOLEAN : ChangeFinish(q, require)
    \/ \E q \in SReqs, pw \in Passwords :
          ChangeSet(q, pw) \/ \E u \in Users, owed \in BOOLEAN : AdminPassword(q, u, pw, owed)

CodeNext ==
    \/ \E q \in SReqs : VerifyWrong(q) \/ VerifyProve(q) \/ \E s \in WSess : VerifyStart(q, s)
    \/ \E q \in SReqs, step \in 1 .. MaxStep : VerifyRight(q, step)
    \/ \E s \in WSess : StepUpLapses(s) \/ \E step \in 1 .. MaxStep : StepUp(s, step)

EnrolNext ==
    \/ \E q \in SReqs, s \in WSess :
          ConfirmStart(q, s) \/ \E guess \in Passwords \cup {None} : EnrollStart(q, s, guess)
    \/ \E q \in SReqs, seed \in Seeds : EnrollWrite(q, seed)
    \/ \E q \in SReqs, step \in 1 .. MaxStep : ConfirmRead(q, step)
    \/ \E q \in SReqs : ConfirmWrong(q) \/ ConfirmWrite(q) \/ ConfirmProve(q) \/ AdminRevoke(q)
    \/ \E q \in SReqs, u \in Users : AdminResetMFA(q, u)

\* Signing in while accounts are made and managed.  None is deleted: the id of a
\* deleted account is not given again, so that nothing is counted for it after.
Managed == AccountNext /\ UNCHANGED signVars /\ \A u \in Users : Exists(u) => account'[u].status # "free"
SignSpec ==
    /\ AccountInit /\ SignInit
    /\ [][LoginNext \/ PasswordNext \/ CodeNext \/ EnrolNext \/ Managed]_<<acctVars, signVars>>

-----------------------------------------------------------------------------
\* However many half-finished sign-ins send their codes at once, no more than
\* MaxFailures wrong codes are compared for an account before it is locked
\* (checkCode: "codes sent all at once ... must not all be compared before
\* the first of them is counted").
CodesBounded == \A u \in Users : guesses[u] <= MaxFailures
=============================================================================
