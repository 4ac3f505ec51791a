-------------------------------- MODULE Auth --------------------------------
(***************************************************************************)
(* One account's credentials: registration, verification, sign-in with     *)
(* lockout, password reset and change, sessions, and deletion. A request   *)
(* reads the users row in one statement and writes it in another.          *)
(*                                                                         *)
(* A link token is also the name of the outbox row that mails it. Time is  *)
(* relative: sentAgo[t] is now() - created_at of that row, saturating at   *)
(* Cooldown. failedLogins saturates at MaxFailed: only "reached" matters.  *)
(***************************************************************************)
EXTENDS Integers

CONSTANTS
    Handlers,           \* API requests in flight
    Tokens,             \* link tokens that may ever be issued
    Sessions,           \* session tokens that may ever be issued
    Passwords,
    NoToken, NoPassword,
    MaxFailed,          \* LOGIN_MAX_FAILED_ATTEMPTS
    Cooldown            \* RESEND_COOLDOWN_SECONDS

ASSUME NamesAssumption == NoToken \notin Tokens /\ NoPassword \notin Passwords
ASSUME LimitsAssumption == MaxFailed \in Nat \ {0} /\ Cooldown \in Nat

VARIABLES
    account,            \* the users row: "new", "live" or "gone"
    password, verified, verificationToken, resetToken,
    failedLogins,       \* failed_login_count
    lock,               \* locked_until: "none" (NULL), "on" or "over"
    session,            \* sessions rows: "new", "live", "expired" or "gone"
    spared,             \* sessions inserted since a new password's DELETE ran
    mail, sentAgo,      \* email_outbox rows: what kind, and how old
    expired,            \* link tokens past their expires_at
    step,               \* where a request stands
    seen,               \* what a request read of the users row
    overlapped,         \* ghost: a failure since the last reset read an older count
    failedEver,         \* ghost: failures ever recorded, saturating at MaxFailed
    newest,             \* ghost: the last link committed, per kind
    outdated,           \* ghost: reset links stored before the last password change
    overtaken,          \* ghost: sign-ins that read before the last password change
    proof,              \* ghost: the password a session was issued on
    late,               \* ghost: sessions inserted after a change that their sign-in had not seen
    mailsBefore         \* ghost: verification mails there when a resend began

userVars == <<account, password, verified, verificationToken, resetToken, failedLogins, lock>>
mailVars == <<mail, sentAgo, expired, newest>>
sessionVars == <<session, spared, proof, late>>
lockGhosts == <<overlapped, failedEver>>
requestVars == <<step, seen, overtaken, mailsBefore>>
vars == <<userVars, mailVars, sessionVars, lockGhosts, requestVars, outdated>>

Kinds == {"verification", "reset"}
Steps == {"idle", "signing", "issuing", "forgot", "resending", "rotating",
          "verifying", "resetting", "guarded", "changing", "deleting",
          "resetRevoked", "changeRevoked"}
Seen == [password : Passwords \cup {NoPassword}, verified : BOOLEAN, failures : 0..MaxFailed]
NothingSeen == [password |-> NoPassword, verified |-> FALSE, failures |-> 0]

Init ==
    /\ account = "new"
    /\ password = NoPassword /\ verified = FALSE
    /\ verificationToken = NoToken /\ resetToken = NoToken
    /\ failedLogins = 0 /\ lock = "none"
    /\ session = [s \in Sessions |-> "new"] /\ spared = {}
    /\ mail = [t \in Tokens |-> "none"]
    /\ sentAgo = [t \in Tokens |-> 0]
    /\ expired = {}
    /\ step = [h \in Handlers |-> "idle"]
    /\ seen = [h \in Handlers |-> NothingSeen]
    /\ overlapped = FALSE /\ failedEver = 0
    /\ newest = [k \in Kinds |-> NoToken]
    /\ outdated = {} /\ overtaken = {}
    /\ proof = [s \in Sessions |-> NoPassword]
    /\ late = {}
    /\ mailsBefore = [h \in Handlers |-> {}]

-----------------------------------------------------------------------------
(* Requests, links and sessions.                                           *)

Goto(h, next) == step' = [step EXCEPT ![h] = next]

\* A transaction that stores a new password has written the users row: every
\* other UPDATE or DELETE of that row waits for its end.
Revoked == {"resetRevoked", "changeRevoked"}
UserLocked == \E g \in Handlers : step[g] \in Revoked

\* The request answers, and what it read is forgotten.
Finish(h) ==
    /\ Goto(h, "idle")
    /\ seen' = [seen EXCEPT ![h] = NothingSeen]
    /\ overtaken' = overtaken \ {h}
    /\ mailsBefore' = [mailsBefore EXCEPT ![h] = {}]

\* Any answer that changes nothing: a wrong current password, a password the
\* policy refuses, a row that is gone, a statement or transaction that fails.
Fail(h) ==
    /\ step[h] # "idle"
    /\ Finish(h)
    /\ spared' = IF step[h] \in Revoked THEN {} ELSE spared
    /\ UNCHANGED <<userVars, mailVars, session, proof, late, lockGhosts, outdated>>

\* INSERT INTO email_outbox of a link with a fresh token.
EnqueueLink(t, kind) ==
    /\ mail[t] = "none"
    /\ mail' = [mail EXCEPT ![t] = kind]
    /\ newest' = [newest EXCEPT ![kind] = t]
    /\ UNCHANGED <<sentAgo, expired>>

\* A row of sessions that has been inserted and not deleted.
SessionRow(s) == session[s] \in {"live", "expired"}

\* DELETE FROM sessions: what is left of the table.
Deleted(S) == [s \in Sessions |-> IF s \in S THEN "gone" ELSE session[s]]

\* WHERE user_id = ...
AllRows == {s \in Sessions : SessionRow(s)}

DeleteSessions(S) ==
    /\ session' = Deleted(S)
    /\ proof' = [s \in Sessions |-> IF s \in S THEN NoPassword ELSE proof[s]]
    /\ late' = late \ S

-----------------------------------------------------------------------------
(* Registration and verification.                                          *)

\* User and first link commit together; a second registration is EmailTaken.
Register(t, p) ==
    /\ account = "new"
    /\ account' = "live"
    /\ password' = p
    /\ verificationToken' = t
    /\ EnqueueLink(t, "verification")
    /\ UNCHANGED <<verified, resetToken, failedLogins, lock, sessionVars, lockGhosts,
                   requestVars, outdated>>

\* verifyEmail: the link's token is the stored one, unverified and unexpired ...
VerifyRead(h, t) ==
    /\ step[h] = "idle"
    /\ account = "live" /\ verificationToken = t /\ ~verified
    /\ t \notin expired
    /\ Goto(h, "verifying")
    /\ UNCHANGED <<userVars, mailVars, sessionVars, lockGhosts, seen, overtaken,
                   mailsBefore, outdated>>

\* ... markVerified goes by the id, WHERE verified_at IS NULL.
VerifyCommit(h) ==
    /\ step[h] = "verifying" /\ ~UserLocked
    /\ account = "live" /\ ~verified
    /\ verified' = TRUE
    /\ verificationToken' = NoToken
    /\ Finish(h)
    /\ UNCHANGED <<account, password, resetToken, failedLogins, lock, mailVars, sessionVars,
                   lockGhosts, outdated>>

Verifications == {t \in Tokens : mail[t] = "verification"}

\* resendVerification: findUnverifiedByEmail ...
ResendRead(h) ==
    /\ step[h] = "idle"
    /\ account = "live" /\ ~verified
    /\ Goto(h, "resending")
    /\ mailsBefore' = [mailsBefore EXCEPT ![h] = Verifications]
    /\ UNCHANGED <<userVars, mailVars, sessionVars, lockGhosts, seen, overtaken, outdated>>

\* Deviation (the comparison is off by one): caught by CooldownKept.
CoolingShort == \E t \in Verifications : sentAgo[t] + 1 < Cooldown

\* Date.now() - lastSentAt < cooldown
Cooling == \E t \in Verifications : sentAgo[t] < Cooldown

\* ... the newest verification mail is past the cooldown ...
ResendCheck(h) ==
    /\ step[h] = "resending"
    /\ ~Cooling
    /\ Goto(h, "rotating")
    /\ UNCHANGED <<userVars, mailVars, sessionVars, lockGhosts, seen, overtaken,
                   mailsBefore, outdated>>

\* Deviation (the transaction does not rotate): caught by NewestLinkIsLive.
Unrotated(t) == verificationToken

\* rotateVerificationToken: whatever the row has become; no row, no error.
Rotated(t) == IF account = "live" THEN t ELSE verificationToken

\* ... rotate and enqueue in one transaction.
ResendCommit(h, t) ==
    /\ step[h] = "rotating" /\ ~UserLocked
    /\ verificationToken' = Rotated(t)
    /\ EnqueueLink(t, "verification")
    /\ Finish(h)
    /\ UNCHANGED <<account, password, verified, resetToken, failedLogins, lock, sessionVars,
                   lockGhosts, outdated>>

-----------------------------------------------------------------------------
(* Signing in and out.                                                     *)

\* signIn: findByEmailForAuth, and the lockout gate on what it returned ...
SignInRead(h) ==
    /\ step[h] = "idle"
    /\ account = "live" /\ lock # "on"
    /\ Goto(h, "signing")
    /\ seen' = [seen EXCEPT ![h] =
           [password |-> password, verified |-> verified, failures |-> failedLogins]]
    /\ UNCHANGED <<userVars, mailVars, sessionVars, lockGhosts, overtaken,
                   mailsBefore, outdated>>

\* Deviation (an attempt counts twice): caught by TypeOK.
IncrementTwice(n) == n + 2

Increment(n) == IF n < MaxFailed THEN n + 1 ELSE MaxFailed

\* Deviations (the attempt itself is not counted, or counted twice): caught by
\* LockUnlessOverlap and LockEarned.
MaxReachedBefore(n) == n >= MaxFailed
MaxReachedEarly(n) == n + 2 >= MaxFailed

\* nextCount >= loginMaxFailedAttempts, with the count that was read.
MaxReached(n) == n + 1 >= MaxFailed

\* ... a wrong password: the stored count is incremented, and locked_until is
\* set or cleared by the count that was read ...
RecordFailedLogin(h) ==
    /\ step[h] = "signing" /\ ~UserLocked
    /\ account = "live"
    /\ failedLogins' = Increment(failedLogins)
    /\ lock' = IF MaxReached(seen[h].failures) THEN "on" ELSE "none"
    /\ overlapped' = (overlapped \/ seen[h].failures # failedLogins)
    /\ failedEver' = Increment(failedEver)
    /\ Finish(h)
    /\ UNCHANGED <<account, password, verified, verificationToken, resetToken, mailVars,
                   sessionVars, outdated>>

\* ... or the password read: resetFailedLogin, and the request goes on if the
\* address was verified.
ResetFailedLogin(h) ==
    /\ step[h] = "signing" /\ ~UserLocked
    /\ account = "live"
    /\ failedLogins' = 0 /\ lock' = "none" /\ overlapped' = FALSE
    /\ \/ ~seen[h].verified /\ Finish(h)
       \/ seen[h].verified /\ Goto(h, "issuing") /\ UNCHANGED <<seen, overtaken, mailsBefore>>
    /\ UNCHANGED <<account, password, verified, verificationToken, resetToken, mailVars,
                   sessionVars, failedEver, outdated>>

\* sessions.user_id REFERENCES users(id)
UserExists == account = "live"

\* ... sessions.issue.
IssueSession(h, s) ==
    /\ step[h] = "issuing"
    /\ UserExists
    /\ session[s] = "new"
    /\ session' = [session EXCEPT ![s] = "live"]
    /\ proof' = [proof EXCEPT ![s] = seen[h].password]
    /\ late' = IF h \in overtaken THEN late \cup {s} ELSE late
    /\ spared' = IF UserLocked THEN spared \cup {s} ELSE spared
    /\ Finish(h)
    /\ UNCHANGED <<userVars, mailVars, lockGhosts, outdated>>

\* signOut: the row goes; a token without a row is no error, and a row that a
\* new password is deleting is waited for.
SignOut(s) ==
    /\ SessionRow(s)
    /\ UserLocked => s \in spared
    /\ DeleteSessions({s})
    /\ spared' = spared \ {s}
    /\ UNCHANGED <<userVars, mailVars, lockGhosts, requestVars, outdated>>

\* SessionGuard: the cookie's session is there and has not expired.
Guard(h, s) ==
    /\ step[h] = "idle"
    /\ session[s] = "live"
    /\ Goto(h, "guarded")
    /\ UNCHANGED <<userVars, mailVars, sessionVars, lockGhosts, seen, overtaken,
                   mailsBefore, outdated>>

-----------------------------------------------------------------------------
(* Changing the password.                                                  *)

\* updatePasswordAndClearReset
ResetCleared == NoToken

\* The first two statements of a new password's transaction: UPDATE users, which
\* locks the row, and the DELETE of the sessions, which fixes what it removes. An
\* INSERT of another session needs no such lock.
Revoke(h, from, to) ==
    /\ step[h] = from /\ ~UserLocked
    /\ account = "live"
    /\ Goto(h, to)
    /\ UNCHANGED <<userVars, mailVars, sessionVars, lockGhosts, seen, overtaken,
                   mailsBefore, outdated>>

ResetRevoke(h) == Revoke(h, "resetting", "resetRevoked")
ChangeRevoke(h) == Revoke(h, "changing", "changeRevoked")

\* What its COMMIT makes of the users row.
NewPassword(p) ==
    /\ account = "live"
    /\ password' = p
    /\ resetToken' = ResetCleared
    /\ outdated' = {t \in Tokens : mail[t] = "reset"}
    /\ UNCHANGED <<account, verified, verificationToken, failedLogins, lock>>

\* Sign-ins in flight have read the password that is replaced.
Overtake(h) ==
    /\ Goto(h, "idle")
    /\ seen' = [seen EXCEPT ![h] = NothingSeen]
    /\ overtaken' = {g \in Handlers \ {h} : step[g] \in {"signing", "issuing"}}
    /\ mailsBefore' = [mailsBefore EXCEPT ![h] = {}]

\* requestPasswordReset: findIdByEmail ...
ForgotRead(h) ==
    /\ step[h] = "idle"
    /\ account = "live"
    /\ Goto(h, "forgot")
    /\ UNCHANGED <<userVars, mailVars, sessionVars, lockGhosts, seen, overtaken,
                   mailsBefore, outdated>>

\* ... setResetToken (no row, no error) and enqueue in one transaction.
ForgotCommit(h, t) ==
    /\ step[h] = "forgot" /\ ~UserLocked
    /\ resetToken' = IF account = "live" THEN t ELSE resetToken
    /\ EnqueueLink(t, "reset")
    /\ Finish(h)
    /\ UNCHANGED <<account, password, verified, verificationToken, failedLogins, lock,
                   sessionVars, lockGhosts, outdated>>

\* resetPassword: the link's token is the stored one and has not expired ...
ResetRead(h, t) ==
    /\ step[h] = "idle"
    /\ account = "live" /\ resetToken = t
    /\ t \notin expired
    /\ Goto(h, "resetting")
    /\ UNCHANGED <<userVars, mailVars, sessionVars, lockGhosts, seen, overtaken,
                   mailsBefore, outdated>>

\* Deviation (sessions stay): caught by SessionsProvePassword.
RevokeNone == {}

\* deleteByUserId: the rows its statement saw.
RevokeAll == AllRows \ spared

\* Sessions that the DELETE did not see rest on the password before it.
LateComers ==
    /\ late' = (late \ RevokeAll) \cup spared
    /\ spared' = {}

\* ... and by the id: the new password, the token cleared, all sessions gone.
ResetCommit(h, p) ==
    /\ step[h] = "resetRevoked"
    /\ NewPassword(p)
    /\ session' = Deleted(RevokeAll)
    /\ proof' = [s \in Sessions |-> IF s \in RevokeAll THEN NoPassword ELSE proof[s]]
    /\ LateComers
    /\ Overtake(h)
    /\ UNCHANGED <<mailVars, lockGhosts>>

\* changePassword: the stored hash matches the current password ...
ChangeRead(h) ==
    /\ step[h] = "guarded"
    /\ account = "live"
    /\ Goto(h, "changing")
    /\ UNCHANGED <<userVars, mailVars, sessionVars, lockGhosts, seen, overtaken,
                   mailsBefore, outdated>>

\* ... and as a reset, with a session of its own after the others are gone.
ChangeCommit(h, p, s) ==
    /\ step[h] = "changeRevoked"
    /\ NewPassword(p)
    /\ session[s] = "new"
    /\ session' = [Deleted(RevokeAll) EXCEPT ![s] = "live"]
    /\ proof' = [r \in Sessions |-> IF r = s THEN p
                                   ELSE IF r \in RevokeAll THEN NoPassword ELSE proof[r]]
    /\ LateComers
    /\ Overtake(h)
    /\ UNCHANGED <<mailVars, lockGhosts>>

-----------------------------------------------------------------------------
(* Deletion, and time.                                                     *)

\* AccountDeleteService.delete: findCredential, the password matches ...
DeleteRead(h) ==
    /\ step[h] = "guarded"
    /\ account = "live"
    /\ Goto(h, "deleting")
    /\ UNCHANGED <<userVars, mailVars, sessionVars, lockGhosts, seen, overtaken,
                   mailsBefore, outdated>>

\* sessions.user_id ON DELETE CASCADE
SessionsCascaded == AllRows

\* ... the outbox rows and the user, in one transaction.
DeleteCommit(h) ==
    /\ step[h] = "deleting" /\ ~UserLocked
    /\ account = "live"
    /\ account' = "gone"
    /\ password' = NoPassword /\ verified' = FALSE
    /\ verificationToken' = NoToken /\ resetToken' = NoToken
    /\ failedLogins' = 0 /\ lock' = "none"
    /\ overlapped' = FALSE /\ failedEver' = 0 /\ outdated' = {}
    /\ DeleteSessions(SessionsCascaded)
    /\ spared' = {}
    /\ mail' = [t \in Tokens |-> IF mail[t] = "none" THEN "none" ELSE "deleted"]
    /\ sentAgo' = [t \in Tokens |-> 0]
    /\ expired' = {}
    /\ newest' = [k \in Kinds |-> NoToken]
    /\ Finish(h)

\* locked_until passes.
LockEnds ==
    /\ lock = "on"
    /\ lock' = "over"
    /\ UNCHANGED <<account, password, verified, verificationToken, resetToken, failedLogins,
                   mailVars, sessionVars, lockGhosts, requestVars, outdated>>

\* verification_token_expires_at or reset_token_expires_at passes.
LinkExpires(t) ==
    /\ t \in {verificationToken, resetToken} \ expired
    /\ expired' = expired \cup {t}
    /\ UNCHANGED <<userVars, mail, sentAgo, newest, sessionVars, lockGhosts, requestVars, outdated>>

\* sessions.expires_at passes.
SessionExpires(s) ==
    /\ session[s] = "live"
    /\ session' = [session EXCEPT ![s] = "expired"]
    /\ UNCHANGED <<userVars, mailVars, spared, proof, late, lockGhosts, requestVars, outdated>>

Tick ==
    /\ Cooling
    /\ sentAgo' = [t \in Tokens |-> IF mail[t] = "verification" /\ sentAgo[t] < Cooldown
                                    THEN sentAgo[t] + 1 ELSE sentAgo[t]]
    /\ UNCHANGED <<userVars, mail, expired, newest, sessionVars, lockGhosts, requestVars, outdated>>

-----------------------------------------------------------------------------

Next ==
    \/ \E t \in Tokens, p \in Passwords : Register(t, p)
    \/ \E h \in Handlers, t \in Tokens : VerifyRead(h, t)
    \/ \E h \in Handlers : VerifyCommit(h)
    \/ \E h \in Handlers : ResendRead(h)
    \/ \E h \in Handlers : ResendCheck(h)
    \/ \E h \in Handlers, t \in Tokens : ResendCommit(h, t)
    \/ \E h \in Handlers : SignInRead(h)
    \/ \E h \in Handlers : RecordFailedLogin(h)
    \/ \E h \in Handlers : ResetFailedLogin(h)
    \/ \E h \in Handlers, s \in Sessions : IssueSession(h, s)
    \/ \E s \in Sessions : SignOut(s)
    \/ \E h \in Handlers, s \in Sessions : Guard(h, s)
    \/ \E h \in Handlers : ForgotRead(h)
    \/ \E h \in Handlers, t \in Tokens : ForgotCommit(h, t)
    \/ \E h \in Handlers, t \in Tokens : ResetRead(h, t)
    \/ \E h \in Handlers : ResetRevoke(h)
    \/ \E h \in Handlers, p \in Passwords : ResetCommit(h, p)
    \/ \E h \in Handlers : ChangeRead(h)
    \/ \E h \in Handlers : ChangeRevoke(h)
    \/ \E h \in Handlers, p \in Passwords, s \in Sessions : ChangeCommit(h, p, s)
    \/ \E h \in Handlers : DeleteRead(h)
    \/ \E h \in Handlers : DeleteCommit(h)
    \/ LockEnds
    \/ \E t \in Tokens : LinkExpires(t)
    \/ \E s \in Sessions : SessionExpires(s)
    \/ Tick
    \/ \E h \in Handlers : Fail(h)

Spec == Init /\ [][Next]_vars

-----------------------------------------------------------------------------
(* Properties.                                                             *)

TypeOK ==
    /\ account \in {"new", "live", "gone"}
    /\ password \in Passwords \cup {NoPassword}
    /\ verified \in BOOLEAN
    /\ verificationToken \in Tokens \cup {NoToken}
    /\ resetToken \in Tokens \cup {NoToken}
    /\ failedLogins \in 0..MaxFailed
    /\ lock \in {"none", "on", "over"}
    /\ session \in [Sessions -> {"new", "live", "expired", "gone"}]
    /\ spared \subseteq Sessions
    /\ mail \in [Tokens -> Kinds \cup {"none", "deleted"}]
    /\ sentAgo \in [Tokens -> 0..Cooldown]
    /\ expired \subseteq Tokens
    /\ step \in [Handlers -> Steps]
    /\ seen \in [Handlers -> Seen]
    /\ overlapped \in BOOLEAN
    /\ failedEver \in 0..MaxFailed
    /\ newest \in [Kinds -> Tokens \cup {NoToken}]
    /\ outdated \subseteq Tokens
    /\ overtaken \subseteq Handlers
    /\ proof \in [Sessions -> Passwords \cup {NoPassword}]
    /\ late \subseteq Sessions
    /\ mailsBefore \in [Handlers -> SUBSET Tokens]

\* A session belongs to an account that exists and is verified, although the
\* sign-in that issues it looked several statements earlier (FR-AUTH-007,
\* FR-DATA-005).
SessionsOfVerifiedUsers == \A s \in Sessions : SessionRow(s) => account = "live" /\ verified

\* A session rests on the password that is stored now, unless the sign-in that
\* issued it had read the users row before the password changed and inserted its
\* row after the old sessions were removed (FR-AUTH-017).
SessionsProvePassword ==
    \A s \in Sessions : SessionRow(s) => proof[s] = password \/ s \in late

\* No reset link stored before the last change of the password is live
\* (FEAT-006 D6), whichever of a reset and a change came first.
ResetLinksExpire == resetToken # NoToken => resetToken \notin outdated

\* While the account exists, the link that works is the one of the newest mail:
\* rotating and enqueueing commit together (FEAT-002 D5).
NewestLinkIsLive ==
    account = "live" =>
        /\ ~verified => verificationToken = newest["verification"]
        /\ resetToken # NoToken => resetToken = newest["reset"]

\* An account is locked only after MaxFailed failures were recorded on it,
\* however old the count was that decided (FR-AUTH-019).
LockEarned == lock = "on" => failedEver = MaxFailed

\* Once the count has reached the maximum a lock is stored, unless failures
\* overlapped: one that read an older count clears it.
LockUnlessOverlap == failedLogins = MaxFailed /\ lock = "none" => overlapped

\* A resend adds no mail while one that was there when it began is within the
\* cooldown (FEAT-002 AC-8).
CooldownKept ==
    [][\A h \in Handlers, t \in Tokens : ResendCommit(h, t) =>
        \A m \in mailsBefore[h] : mail[m] = "verification" => sentAgo[m] = Cooldown]_vars
=============================================================================
