---------------------------- MODULE LoginSession ----------------------------
(***************************************************************************)
(* Signing in to one account and the sessions this opens: handleLogin with *)
(* its lockout, handleLogout, handleChangePassword, the administrator's    *)
(* reset, update and offboarding (internal/httpserver), over the users     *)
(* table and the cache.                                                    *)
(*                                                                         *)
(* Every read or write of the table or the cache is a step, so requests    *)
(* interleave between them, and every one can fail. A session is its place *)
(* in the order of logins: randomID never repeats a value. What a request  *)
(* carries is chosen when a handler first looks at it.                     *)
(***************************************************************************)
EXTENDS Naturals, FiniteSets

CONSTANTS
    Request,      \* goroutines that serve the requests about the account
    Password,
    Default,      \* IDPFORGE_DEFAULT_PASSWORD
    MaxAttempts,  \* failures that lock the account, lockout being enabled
    Status,       \* values of users.status
    MFA,          \* is a second factor enabled for the account
    MayFail,      \* can calls of the cache and the database return errors
    MaxFaults,    \* bound on the calls of the lockout's cache that fail
    MaxFailures,  \* bound on the failure counter
    MaxSessions   \* bound on the number of logins

ASSUME LoginAssumption ==
    /\ Default \in Password /\ "active" \in Status
    /\ MaxAttempts \in Nat \ {0} /\ MaxFailures \in Nat /\ MaxSessions \in Nat
    /\ MaxFaults \in Nat /\ MFA \in BOOLEAN /\ MayFail \in BOOLEAN
    /\ IsFiniteSet(Request)

Session == 1..MaxSessions

LoginRequest == [force : BOOLEAN]      \* force_password_change, as the login read it
ChangeRequest == [session : Session]   \* the cookie of the request
NoRequest == {}

VARIABLES
    password,    \* users.password_hash, as the password it is the hash of
    force,       \* users.force_password_change
    status,      \* users.status
    failures,    \* login_fail:<username>, 0 when there is no such entry
    locked,      \* is there an entry login_lock:<username>
    session,     \* what session:<id> holds: "none", or a session that "must"
                 \* or need not ("free") change the password
    logins,      \* sessions created so far
    pc, req,     \* what each request does next, and its parameters
    \* History, read by the properties only:
    guesses,     \* wrong passwords or codes examined since the account was
                 \* last unlocked or its counter last expired
    faults,      \* calls of the lockout's cache that failed since then
    ended,       \* sessions that were logged out
    suspect,     \* those of them whose logout failed, or fell into a change of the
                 \* password made with that session
    owing,       \* the account was reset, and not yet changed by somebody who
                 \* had proved to know what it was reset to
    proved,      \* requests whose check of the current password still holds
    exposed      \* the last reset fell between a change's check and its UPDATE

row == <<password, force, status>>
lockout == <<failures, locked, guesses, faults>>
sessions == <<session, logins, ended, suspect>>
reset == <<owing, exposed>>
vars == <<row, lockout, sessions, pc, req, reset, proved>>

\* handleCreateUser's account: the default password, to be changed.
Init ==
    /\ password = Default /\ force = TRUE /\ status = "active"
    /\ failures = 0 /\ locked = FALSE
    /\ session = [s \in Session |-> "none"] /\ logins = 0
    /\ pc = [p \in Request |-> "idle"] /\ req = [p \in Request |-> NoRequest]
    /\ guesses = 0 /\ faults = 0 /\ ended = {} /\ suspect = {}
    /\ owing = TRUE /\ proved = {} /\ exposed = FALSE

Changing(p) == pc[p] \in {"current", "set", "unflag"}

\* A call of the lockout's cache fails.
Fault == MayFail /\ faults < MaxFaults /\ faults' = faults + 1

\* The request goes on at the label, or is answered.
Goto(p, label) ==
    /\ pc' = [pc EXCEPT ![p] = label]
    /\ req' = IF label = "idle" THEN [req EXCEPT ![p] = NoRequest] ELSE req
    /\ proved' = IF label = "idle" THEN proved \ {p} ELSE proved

-----------------------------------------------------------------------------
(* handleLogin. *)

\* A login passes accountLocked, which ignores the error of its Get, and the captcha;
\* one that does not is refused and changes nothing.
BeginLogin(p) ==
    /\ pc[p] = "idle"
    /\ (~locked /\ UNCHANGED faults) \/ (locked /\ Fault)
    /\ failures < MaxFailures
    /\ pc' = [pc EXCEPT ![p] = "hash"]
    /\ req' = [req EXCEPT ![p] = [force |-> FALSE]]
    /\ UNCHANGED <<row, failures, locked, guesses, sessions, reset, proved>>

\* PasswordHash and VerifyPassword, of the password submitted.
VerifyPassword(p, pw) ==
    /\ pc[p] = "hash"
    /\ IF pw = password
       THEN Goto(p, "user") /\ UNCHANGED guesses
       ELSE Goto(p, "count") /\ guesses' = guesses + 1
    /\ UNCHANGED <<row, failures, locked, faults, sessions, reset>>

\* GetByUsername, which is where the flags of the account come from. Nothing
\* looks at the status.
GetUser(p) ==
    /\ pc[p] = "user"
    /\ req' = [req EXCEPT ![p].force = force]
    /\ pc' = [pc EXCEPT ![p] = IF MFA THEN "code" ELSE "clear"]
    /\ UNCHANGED <<row, lockout, sessions, reset, proved>>

\* Seeded fault: a wrong code is answered without being counted.
UncountedCode(p, code) ==
    /\ pc[p] = "code"
    /\ IF code = "right"
       THEN Goto(p, "clear") /\ UNCHANGED guesses
       ELSE Goto(p, "idle") /\ guesses' = guesses + 1
    /\ UNCHANGED <<row, failures, locked, faults, sessions, reset>>

VerifyCode(p, code) ==
    /\ pc[p] = "code"
    /\ IF code = "right"
       THEN Goto(p, "clear") /\ UNCHANGED guesses
       ELSE Goto(p, "count") /\ guesses' = guesses + 1
    /\ UNCHANGED <<row, failures, locked, faults, sessions, reset>>

\* recordLoginFailure: Increment, ...
Count(p) ==
    /\ pc[p] = "count"
    /\ failures' = failures + 1
    /\ Goto(p, IF failures' < MaxAttempts THEN "idle" ELSE "lock")
    /\ UNCHANGED <<row, locked, guesses, faults, sessions, reset>>

\* (an error of Increment, executed or not, ends it uncounted)
CountFails(p) ==
    /\ pc[p] = "count" /\ Fault
    /\ failures' \in {failures, failures + 1}
    /\ Goto(p, "idle")
    /\ UNCHANGED <<row, locked, guesses, sessions, reset>>

\* ... and, once there are enough, Set.
Lock(p) ==
    /\ pc[p] = "lock"
    /\ locked' = TRUE
    /\ Goto(p, "idle")
    /\ UNCHANGED <<row, failures, guesses, faults, sessions, reset>>

\* (whose error is ignored)
LockFails(p) ==
    /\ pc[p] = "lock" /\ Fault
    /\ locked' \in {locked, TRUE}
    /\ Goto(p, "idle")
    /\ UNCHANGED <<row, failures, guesses, sessions, reset>>

\* clearLoginFailures, which ignores an error of Delete.
ClearFailures(p) ==
    /\ pc[p] = "clear"
    /\ \/ failures' = 0 /\ locked' = FALSE /\ guesses' = 0 /\ faults' = 0
       \/ MayFail /\ UNCHANGED lockout
    /\ Goto(p, "create")
    /\ UNCHANGED <<row, sessions, reset>>

\* Seeded fault: the generator of session ids starts over.
RepeatedId(p) ==
    /\ pc[p] = "create"
    /\ logins < MaxSessions
    /\ session' = [session EXCEPT ![1] = IF req[p].force THEN "must" ELSE "free"]
    /\ Goto(p, "idle")
    /\ UNCHANGED <<row, lockout, logins, ended, suspect, reset>>

\* The session is created with the flag read by GetUser.
CreateSession(p) ==
    /\ pc[p] = "create"
    /\ logins < MaxSessions
    /\ logins' = logins + 1
    /\ session' = [session EXCEPT ![logins'] = IF req[p].force THEN "must" ELSE "free"]
    /\ Goto(p, "idle")
    /\ UNCHANGED <<row, lockout, ended, suspect, reset>>

\* An error of a query, or of the Set that creates the session, ends the login; one of
\* PasswordHash or mfa.Verify counts as a failure.
LoginFails(p) ==
    /\ MayFail
    /\ \/ pc[p] \in {"hash", "code"} /\ Goto(p, "count")
       \/ pc[p] \in {"user", "create"} /\ Goto(p, "idle")
    /\ UNCHANGED <<row, lockout, sessions, reset>>

-----------------------------------------------------------------------------
(* Requests that carry a session. *)

Live(s) == session[s] # "none"

\* A change of the password made with the session is under way.
ChangedWith(s) == \E q \in Request : Changing(q) /\ req[q].session = s

\* Seeded fault: a session that must change the password cannot be ended.
PickyLogout(p, s) ==
    /\ pc[p] = "idle" /\ s <= logins
    /\ session' = IF session[s] = "must" THEN session ELSE [session EXCEPT ![s] = "none"]
    /\ ended' = ended \cup {s}
    /\ suspect' = IF ChangedWith(s) THEN suspect \cup {s} ELSE suspect \ {s}
    /\ UNCHANGED <<row, lockout, logins, pc, req, reset, proved>>

\* handleLogout, with the cookie of any session, live or not. It answers that the
\* session is logged out even where Delete returned an error.
Logout(p, s) ==
    /\ pc[p] = "idle" /\ s <= logins
    /\ ended' = ended \cup {s}
    /\ \/ /\ session' = [session EXCEPT ![s] = "none"]
          /\ suspect' = IF ChangedWith(s) THEN suspect \cup {s} ELSE suspect \ {s}
       \/ MayFail /\ suspect' = suspect \cup {s} /\ UNCHANGED session
    /\ UNCHANGED <<row, lockout, logins, pc, req, reset, proved>>

\* handleChangePassword, behind the middleware that looks the session up.
BeginChange(p, s) ==
    /\ pc[p] = "idle"
    /\ Live(s)
    /\ pc' = [pc EXCEPT ![p] = "current"]
    /\ req' = [req EXCEPT ![p] = [session |-> s]]
    /\ UNCHANGED <<row, lockout, sessions, reset, proved>>

VerifyCurrent(p, current) ==
    /\ pc[p] = "current"
    /\ IF current = password
       THEN /\ pc' = [pc EXCEPT ![p] = "set"]
            /\ proved' = proved \cup {p}
            /\ UNCHANGED req
       ELSE Goto(p, "idle")
    /\ UNCHANGED <<row, lockout, sessions, reset>>

\* One UPDATE, of the password and the flag.
Overwrite(p, new) ==
    /\ password' = new /\ force' = FALSE
    /\ owing' = (owing /\ p \notin proved)
    /\ proved' = {}

SetPassword(p, new) ==
    /\ pc[p] = "set"
    /\ Overwrite(p, new)
    /\ pc' = [pc EXCEPT ![p] = "unflag"]
    /\ UNCHANGED <<status, lockout, sessions, req, exposed>>

\* clearMustChangePassword, which does not look whether the session exists and
\* whose error is ignored.
ClearMustChange(p) ==
    /\ pc[p] = "unflag"
    /\ \/ session' = [session EXCEPT ![req[p].session] = "free"]
       \/ MayFail /\ UNCHANGED session
    /\ Goto(p, "idle")
    /\ UNCHANGED <<row, lockout, logins, ended, suspect, reset>>

\* An error of a query ends the change; the UPDATE may have been executed.
ChangeFails(p) ==
    /\ MayFail
    /\ \/ /\ pc[p] \in {"current", "set"}
          /\ Goto(p, "idle")
          /\ UNCHANGED <<password, force, owing>>
       \/ /\ pc[p] = "set"
          /\ \E new \in Password : Overwrite(p, new)
          /\ pc' = [pc EXCEPT ![p] = "idle"] /\ req' = [req EXCEPT ![p] = NoRequest]
    /\ UNCHANGED <<status, lockout, sessions, exposed>>

-----------------------------------------------------------------------------
(* Requests of an administrator. *)

\* A change of the password has checked the current one and is yet to write.
Checked == \E q \in Request : pc[q] = "set"

\* Seeded fault: the reset leaves the flag alone.
UnforcedReset(p) ==
    /\ pc[p] = "idle"
    /\ password' = Default
    /\ owing' = TRUE /\ proved' = {} /\ exposed' = Checked
    /\ UNCHANGED <<force, status, lockout, sessions, pc, req>>

\* handleResetUserPassword: AssignDefaultPassword is one UPDATE.
ResetPassword(p) ==
    /\ pc[p] = "idle"
    /\ password' = Default /\ force' = TRUE
    /\ owing' = TRUE /\ proved' = {} /\ exposed' = Checked
    /\ UNCHANGED <<status, lockout, sessions, pc, req>>

\* handleOffboardUser, or handleUpdateUser with a status.
SetStatus(p, st) ==
    /\ pc[p] = "idle"
    /\ status' = st
    /\ UNCHANGED <<password, force, lockout, sessions, pc, req, reset, proved>>

-----------------------------------------------------------------------------
(* The cache's clock. *)

\* The window of the counter ends, AccountLockout.Window after its first failure.
ExpireFailures ==
    /\ failures > 0
    /\ failures' = 0 /\ guesses' = 0 /\ faults' = 0
    /\ UNCHANGED <<row, locked, sessions, pc, req, reset, proved>>

\* The lock ends, AccountLockout.Duration after it was last set.
ExpireLock ==
    /\ locked
    /\ locked' = FALSE /\ guesses' = 0 /\ faults' = 0
    /\ UNCHANGED <<row, failures, sessions, pc, req, reset, proved>>

ExpireSession(s) ==
    /\ Live(s)
    /\ session' = [session EXCEPT ![s] = "none"]
    /\ UNCHANGED <<row, lockout, logins, ended, suspect, pc, req, reset, proved>>

Serve(p) ==
    \/ BeginLogin(p) \/ GetUser(p) \/ Count(p) \/ Lock(p)
    \/ \E pw \in Password : VerifyPassword(p, pw)
    \/ \E code \in {"right", "wrong"} : VerifyCode(p, code)
    \/ ClearFailures(p) \/ CreateSession(p)
    \/ CountFails(p) \/ LockFails(p) \/ LoginFails(p)
    \/ \E s \in Session : Logout(p, s) \/ BeginChange(p, s)
    \/ \E current \in Password : VerifyCurrent(p, current)
    \/ \E new \in Password : SetPassword(p, new)
    \/ ClearMustChange(p) \/ ChangeFails(p)
    \/ ResetPassword(p)
    \/ \E st \in Status : SetStatus(p, st)

Next ==
    \/ \E p \in Request : Serve(p)
    \/ ExpireFailures \/ ExpireLock
    \/ \E s \in Session : ExpireSession(s)

Spec == Init /\ [][Next]_vars

-----------------------------------------------------------------------------
\* The table, the cache and the requests hold what the handlers write.
TypeOK ==
    /\ password \in Password /\ force \in BOOLEAN
    /\ status \in Status
    /\ failures \in Nat /\ locked \in BOOLEAN
    /\ session \in [Session -> {"none", "must", "free"}] /\ logins \in 0..MaxSessions
    /\ \A s \in Session : Live(s) => s <= logins
    /\ pc \in [Request -> {"idle", "hash", "user", "code", "count", "lock", "clear",
                           "create", "current", "set", "unflag"}]
    /\ \A p \in Request :
          req[p] \in CASE pc[p] = "idle" -> {NoRequest}
                       [] Changing(p) -> ChangeRequest
                       [] OTHER -> LoginRequest
    /\ guesses \in Nat /\ faults \in Nat /\ suspect \subseteq ended /\ ended \subseteq 1..logins
    /\ owing \in BOOLEAN /\ proved \subseteq Request /\ exposed \in BOOLEAN

\* However many sign-ins guess at once, between two unlockings handleLogin examines no
\* more wrong passwords and codes than MaxAttempts, one for each other request that was
\* past accountLocked when the lock was set, and one for each call of the cache that
\* failed on the way: accountLocked and recordLoginFailure ignore the errors, so each
\* costs one guess and not the lock. Other handlers' checks of a password count nothing.
GuessesBounded == guesses <= MaxAttempts + Cardinality(Request) - 1 + faults

\* A session that was logged out is never valid again, unless its logout failed or
\* fell into a change of the password made with that very session: whatever other
\* requests are under way, clearMustChangePassword (session.go:64) brings back no other.
LoggedOutStaysOut == \A s \in ended \ suspect : ~Live(s)

\* From an administrator's reset (users/repository.go:94) until somebody who has proved
\* to know the password it set changes it, the account is marked for a change, unless
\* a change had passed its check and was yet to write when the reset came.
ResetForcesChange == owing /\ ~exposed => force
=============================================================================
