----------------------------- MODULE AuthProofs -----------------------------
(***************************************************************************)
(* The safety of Auth, for every number of requests, links, sessions and   *)
(* passwords and every MaxFailed and Cooldown.                             *)
(***************************************************************************)
EXTENDS Auth, TLAPS

\* The initial state is well typed.
LEMMA TypeInit == Init => TypeOK
<1> SUFFICES ASSUME Init PROVE TypeOK
  OBVIOUS
<1>1. verified \in BOOLEAN /\ overlapped \in BOOLEAN
  BY DEF Init
<1>2. seen \in [Handlers -> Seen]
  BY LimitsAssumption DEF Init, Seen, NothingSeen
<1>3. QED
  BY <1>1, <1>2, LimitsAssumption DEF Init, TypeOK, Steps, Kinds

\* Forgetting what a request read keeps the types of its variables.
LEMMA FinishType ==
    ASSUME TypeOK, NEW h \in Handlers, Finish(h)
    PROVE  /\ step' \in [Handlers -> Steps]
           /\ seen' \in [Handlers -> Seen]
           /\ overtaken' \subseteq Handlers
           /\ mailsBefore' \in [Handlers -> SUBSET Tokens]
BY LimitsAssumption DEF TypeOK, Finish, Goto, Seen, NothingSeen, Steps

\* Being overtaken leaves a request well formed.
LEMMA OvertakeType ==
    ASSUME TypeOK, NEW h \in Handlers, Overtake(h)
    PROVE  /\ step' \in [Handlers -> Steps]
           /\ seen' \in [Handlers -> Seen]
           /\ overtaken' \subseteq Handlers
           /\ mailsBefore' \in [Handlers -> SUBSET Tokens]
BY LimitsAssumption DEF TypeOK, Overtake, Goto, Seen, NothingSeen, Steps

\* A link that is enqueued is well formed.
LEMMA EnqueueType ==
    ASSUME TypeOK, NEW t \in Tokens, NEW k \in Kinds, EnqueueLink(t, k)
    PROVE  /\ mail' \in [Tokens -> Kinds \cup {"none", "deleted"}]
           /\ sentAgo' \in [Tokens -> 0..Cooldown]
           /\ expired' \subseteq Tokens
           /\ newest' \in [Kinds -> Tokens \cup {NoToken}]
BY DEF TypeOK, EnqueueLink

\* Sessions that are deleted stay sessions.
LEMMA DeleteSessionsType ==
    ASSUME TypeOK, NEW S, DeleteSessions(S)
    PROVE  /\ session' \in [Sessions -> {"new", "live", "expired", "gone"}]
           /\ proof' \in [Sessions -> Passwords \cup {NoPassword}]
           /\ late' \subseteq Sessions
BY DEF TypeOK, DeleteSessions, Deleted

\* Failures are counted up to the bound.
LEMMA IncrementType ==
    ASSUME NEW n \in 0..MaxFailed
    PROVE  Increment(n) \in 0..MaxFailed
BY LimitsAssumption DEF Increment

\* Every step keeps the types.
LEMMA TypeStep == TypeOK /\ [Next]_vars => TypeOK'
<1> SUFFICES ASSUME TypeOK, [Next]_vars PROVE TypeOK'
  OBVIOUS
<1> USE DEF userVars, mailVars, sessionVars, lockGhosts, requestVars
<1>1. CASE UNCHANGED vars
  BY <1>1 DEF TypeOK, vars
<1>2. ASSUME NEW t \in Tokens, NEW p \in Passwords, Register(t, p) PROVE TypeOK'
  BY <1>2, EnqueueType DEF TypeOK, Register, Kinds
<1>3. ASSUME NEW h \in Handlers, NEW t \in Tokens, VerifyRead(h, t) PROVE TypeOK'
  BY <1>3 DEF TypeOK, VerifyRead, Goto, Steps
<1>4. ASSUME NEW h \in Handlers, VerifyCommit(h) PROVE TypeOK'
  BY <1>4, FinishType DEF TypeOK, VerifyCommit
<1>5. ASSUME NEW h \in Handlers, ResendRead(h) PROVE TypeOK'
  BY <1>5 DEF TypeOK, ResendRead, Goto, Steps, Verifications
<1>6. ASSUME NEW h \in Handlers, ResendCheck(h) PROVE TypeOK'
  BY <1>6 DEF TypeOK, ResendCheck, Goto, Steps
<1>7. ASSUME NEW h \in Handlers, NEW t \in Tokens, ResendCommit(h, t) PROVE TypeOK'
  BY <1>7, FinishType, EnqueueType DEF TypeOK, ResendCommit, Rotated, Kinds
<1>8. ASSUME NEW h \in Handlers, SignInRead(h) PROVE TypeOK'
  BY <1>8 DEF TypeOK, SignInRead, Goto, Steps, Seen
<1>9. ASSUME NEW h \in Handlers, RecordFailedLogin(h) PROVE TypeOK'
  BY <1>9, FinishType, IncrementType DEF TypeOK, RecordFailedLogin
<1>10. ASSUME NEW h \in Handlers, ResetFailedLogin(h) PROVE TypeOK'
  <2>1. overlapped' \in BOOLEAN /\ verified' \in BOOLEAN
    BY <1>10 DEF ResetFailedLogin, TypeOK
  <2>2. CASE Finish(h)
    BY <1>10, <2>1, <2>2, FinishType, LimitsAssumption DEF TypeOK, ResetFailedLogin
  <2>3. CASE Goto(h, "issuing") /\ UNCHANGED <<seen, overtaken, mailsBefore>>
    BY <1>10, <2>1, <2>3, LimitsAssumption DEF TypeOK, ResetFailedLogin, Goto, Steps
  <2>4. QED
    BY <1>10, <2>2, <2>3 DEF ResetFailedLogin
<1>11. ASSUME NEW h \in Handlers, NEW s \in Sessions, IssueSession(h, s) PROVE TypeOK'
  BY <1>11, FinishType DEF TypeOK, IssueSession, Seen
<1>12. ASSUME NEW s \in Sessions, SignOut(s) PROVE TypeOK'
  BY <1>12, DeleteSessionsType DEF TypeOK, SignOut
<1>13. ASSUME NEW h \in Handlers, NEW s \in Sessions, Guard(h, s) PROVE TypeOK'
  BY <1>13 DEF TypeOK, Guard, Goto, Steps
<1>14. ASSUME NEW h \in Handlers, ForgotRead(h) PROVE TypeOK'
  BY <1>14 DEF TypeOK, ForgotRead, Goto, Steps
<1>15. ASSUME NEW h \in Handlers, NEW t \in Tokens, ForgotCommit(h, t) PROVE TypeOK'
  BY <1>15, FinishType, EnqueueType DEF TypeOK, ForgotCommit, Kinds
<1>16. ASSUME NEW h \in Handlers, NEW t \in Tokens, ResetRead(h, t) PROVE TypeOK'
  BY <1>16 DEF TypeOK, ResetRead, Goto, Steps
<1>17. ASSUME NEW h \in Handlers, NEW p \in Passwords, ResetCommit(h, p) PROVE TypeOK'
  BY <1>17, OvertakeType DEF TypeOK, ResetCommit, NewPassword, ResetCleared, Deleted, LateComers
<1>18. ASSUME NEW h \in Handlers, ChangeRead(h) PROVE TypeOK'
  BY <1>18 DEF TypeOK, ChangeRead, Goto, Steps
<1>19. ASSUME NEW h \in Handlers, NEW p \in Passwords, NEW s \in Sessions, ChangeCommit(h, p, s)
       PROVE TypeOK'
  BY <1>19, OvertakeType DEF TypeOK, ChangeCommit, NewPassword, ResetCleared, Deleted,
     LateComers
<1>20. ASSUME NEW h \in Handlers, DeleteRead(h) PROVE TypeOK'
  BY <1>20 DEF TypeOK, DeleteRead, Goto, Steps
<1>21. ASSUME NEW h \in Handlers, DeleteCommit(h) PROVE TypeOK'
  <2>1. overlapped' \in BOOLEAN /\ verified' \in BOOLEAN
    BY <1>21 DEF DeleteCommit
  <2>2. QED
    BY <1>21, <2>1, FinishType, DeleteSessionsType, LimitsAssumption DEF TypeOK, DeleteCommit,
        Kinds
<1>22. CASE LockEnds
  BY <1>22 DEF TypeOK, LockEnds
<1>23. ASSUME NEW t \in Tokens, LinkExpires(t) PROVE TypeOK'
  BY <1>23 DEF TypeOK, LinkExpires
<1>24. ASSUME NEW s \in Sessions, SessionExpires(s) PROVE TypeOK'
  BY <1>24 DEF TypeOK, SessionExpires
<1>25. CASE Tick
  BY <1>25, LimitsAssumption DEF TypeOK, Tick
<1>26. ASSUME NEW h \in Handlers, Fail(h) PROVE TypeOK'
  BY <1>26, FinishType DEF TypeOK, Fail
<1>27. ASSUME NEW h \in Handlers, ResetRevoke(h) PROVE TypeOK'
  BY <1>27 DEF TypeOK, ResetRevoke, Revoke, Goto, Steps
<1>28. ASSUME NEW h \in Handlers, ChangeRevoke(h) PROVE TypeOK'
  BY <1>28 DEF TypeOK, ChangeRevoke, Revoke, Goto, Steps
<1>29. QED
  BY <1>1, <1>2, <1>3, <1>4, <1>5, <1>6, <1>7, <1>8, <1>9, <1>10, <1>11, <1>12, <1>13, <1>14,
     <1>15, <1>16, <1>17, <1>18, <1>19, <1>20, <1>21, <1>22, <1>23, <1>24, <1>25, <1>26, <1>27,
     <1>28 DEF Next

\* Every variable keeps its type: the failure counters stay within the maximum
\* that locks, and the age of a mail within the cooldown.
THEOREM TypeCorrect == Spec => []TypeOK
<1>1. QED
  BY TypeInit, TypeStep, PTL DEF Spec

-----------------------------------------------------------------------------
(* The invariant.                                                          *)

\* What a sign-in read is still so, as far as its session depends on it: an
\* address stays verified, the password is the stored one unless the request is
\* overtaken, and the failures it counted were recorded. A request that passed
\* the guard had a session, so its address is verified.
ReadInv ==
    /\ account = "new" => \A h \in Handlers : step[h] = "idle"
    /\ \A h \in Handlers : step[h] = "issuing" => seen[h].verified
    /\ failedLogins <= failedEver
    /\ account = "live" => \A h \in Handlers :
        step[h] \in {"guarded", "changing", "changeRevoked"} => verified
    /\ account = "live" => \A h \in Handlers : step[h] \in {"signing", "issuing"} =>
        /\ seen[h].verified => verified
        /\ seen[h].password = password \/ h \in overtaken
        /\ seen[h].failures <= failedEver

SessionInv == SessionsOfVerifiedUsers /\ SessionsProvePassword

\* A link that was never issued is not outdated, so a new one never is.
LinkInv ==
    /\ ResetLinksExpire /\ NewestLinkIsLive
    /\ account = "new" => resetToken = NoToken
    /\ \A t \in outdated : mail[t] # "none"

LockInv == LockEarned /\ LockUnlessOverlap

\* Mails that were there when a resend began were issued, and once the request
\* has passed the check none of them is within the cooldown.
CooldownInv ==
    \A h \in Handlers : \A m \in mailsBefore[h] :
        /\ mail[m] # "none"
        /\ step[h] = "rotating" /\ mail[m] = "verification" => sentAgo[m] = Cooldown

IInv == TypeOK /\ ReadInv /\ SessionInv /\ LinkInv /\ LockInv /\ CooldownInv

\* The invariant holds at the start.
LEMMA IInit == Init => IInv
<1> SUFFICES ASSUME Init PROVE IInv
  OBVIOUS
<1>1. TypeOK
  BY TypeInit
<1>2. ReadInv
  BY DEF Init, ReadInv
<1>3. SessionInv
  BY DEF Init, SessionInv, SessionsOfVerifiedUsers, SessionsProvePassword, SessionRow
<1>4. LinkInv
  BY DEF Init, LinkInv, ResetLinksExpire, NewestLinkIsLive
<1>5. LockInv
  BY LimitsAssumption DEF Init, LockInv, LockEarned, LockUnlessOverlap
<1>6. CooldownInv
  BY DEF Init, CooldownInv
<1>7. QED
  BY <1>1, <1>2, <1>3, <1>4, <1>5, <1>6 DEF IInv

\* Only a sign-in reads, and only a new password changes what it read.
LEMMA ReadStep == TypeOK /\ ReadInv /\ SessionInv /\ [Next]_vars => ReadInv'
<1> SUFFICES ASSUME TypeOK, ReadInv, SessionInv, [Next]_vars PROVE ReadInv'
  OBVIOUS
<1> USE DEF userVars, mailVars, sessionVars, lockGhosts, requestVars, Revoke, ReadInv, Finish,
    Goto, Overtake, NewPassword
<1>1. CASE UNCHANGED vars
  BY <1>1 DEF vars, ReadInv
<1>2. ASSUME NEW t \in Tokens, NEW p \in Passwords, Register(t, p) PROVE ReadInv'
  BY <1>2 DEF Register, TypeOK
<1>3. ASSUME NEW h \in Handlers, NEW t \in Tokens, VerifyRead(h, t) PROVE ReadInv'
  BY <1>3 DEF VerifyRead, TypeOK
<1>4. ASSUME NEW h \in Handlers, VerifyCommit(h) PROVE ReadInv'
  BY <1>4 DEF VerifyCommit, TypeOK
<1>5. ASSUME NEW h \in Handlers, ResendRead(h) PROVE ReadInv'
  BY <1>5 DEF ResendRead, TypeOK
<1>6. ASSUME NEW h \in Handlers, ResendCheck(h) PROVE ReadInv'
  BY <1>6 DEF ResendCheck, TypeOK
<1>7. ASSUME NEW h \in Handlers, NEW t \in Tokens, ResendCommit(h, t) PROVE ReadInv'
  BY <1>7 DEF ResendCommit, TypeOK
<1>8. ASSUME NEW h \in Handlers, SignInRead(h) PROVE ReadInv'
  BY <1>8 DEF SignInRead, TypeOK, Seen
<1>9. ASSUME NEW h \in Handlers, RecordFailedLogin(h) PROVE ReadInv'
  BY <1>9, LimitsAssumption DEF RecordFailedLogin, TypeOK, Seen, Increment
<1>10. ASSUME NEW h \in Handlers, ResetFailedLogin(h) PROVE ReadInv'
  BY <1>10 DEF ResetFailedLogin, TypeOK
<1>11. ASSUME NEW h \in Handlers, NEW s \in Sessions, IssueSession(h, s) PROVE ReadInv'
  BY <1>11 DEF IssueSession, TypeOK
<1>12. ASSUME NEW s \in Sessions, SignOut(s) PROVE ReadInv'
  BY <1>12 DEF SignOut, TypeOK
<1>13. ASSUME NEW h \in Handlers, NEW s \in Sessions, Guard(h, s) PROVE ReadInv'
  BY <1>13 DEF Guard, TypeOK, SessionInv, SessionsOfVerifiedUsers, SessionRow
<1>14. ASSUME NEW h \in Handlers, ForgotRead(h) PROVE ReadInv'
  BY <1>14 DEF ForgotRead, TypeOK
<1>15. ASSUME NEW h \in Handlers, NEW t \in Tokens, ForgotCommit(h, t) PROVE ReadInv'
  BY <1>15 DEF ForgotCommit, TypeOK
<1>16. ASSUME NEW h \in Handlers, NEW t \in Tokens, ResetRead(h, t) PROVE ReadInv'
  BY <1>16 DEF ResetRead, TypeOK
<1>17. ASSUME NEW h \in Handlers, NEW p \in Passwords, ResetCommit(h, p) PROVE ReadInv'
  BY <1>17 DEF ResetCommit, TypeOK
<1>18. ASSUME NEW h \in Handlers, ChangeRead(h) PROVE ReadInv'
  BY <1>18 DEF ChangeRead, TypeOK
<1>19. ASSUME NEW h \in Handlers, NEW p \in Passwords, NEW s \in Sessions, ChangeCommit(h, p, s)
       PROVE ReadInv'
  BY <1>19 DEF ChangeCommit, TypeOK
<1>20. ASSUME NEW h \in Handlers, DeleteRead(h) PROVE ReadInv'
  BY <1>20 DEF DeleteRead, TypeOK
<1>21. ASSUME NEW h \in Handlers, DeleteCommit(h) PROVE ReadInv'
  BY <1>21 DEF DeleteCommit, TypeOK
<1>22. ASSUME LockEnds PROVE ReadInv'
  BY <1>22 DEF LockEnds, TypeOK
<1>23. ASSUME NEW t \in Tokens, LinkExpires(t) PROVE ReadInv'
  BY <1>23 DEF LinkExpires, TypeOK
<1>24. ASSUME NEW s \in Sessions, SessionExpires(s) PROVE ReadInv'
  BY <1>24 DEF SessionExpires, TypeOK
<1>25. ASSUME Tick PROVE ReadInv'
  BY <1>25 DEF Tick, TypeOK
<1>26. ASSUME NEW h \in Handlers, Fail(h) PROVE ReadInv'
  BY <1>26 DEF Fail, TypeOK
<1>27. ASSUME NEW h \in Handlers, ResetRevoke(h) PROVE ReadInv'
  BY <1>27 DEF ResetRevoke, TypeOK
<1>28. ASSUME NEW h \in Handlers, ChangeRevoke(h) PROVE ReadInv'
  BY <1>28 DEF ChangeRevoke, TypeOK
<1>29. QED
  BY <1>1, <1>2, <1>3, <1>4, <1>5, <1>6, <1>7, <1>8, <1>9, <1>10, <1>11, <1>12, <1>13, <1>14, 
     <1>15, <1>16, <1>17, <1>18, <1>19, <1>20, <1>21, <1>22, <1>23, <1>24, <1>25, <1>26, <1>27, 
     <1>28 DEF Next

\* Sessions come from sign-ins whose reading still holds, and from changes.
LEMMA SessionStep == TypeOK /\ ReadInv /\ SessionInv /\ [Next]_vars => SessionInv'
<1> SUFFICES ASSUME TypeOK, ReadInv, SessionInv, [Next]_vars PROVE SessionInv'
  OBVIOUS
<1> USE DEF userVars, mailVars, sessionVars, lockGhosts, requestVars, Revoke, SessionInv,
    SessionsOfVerifiedUsers, SessionsProvePassword, SessionRow
<1>1. CASE UNCHANGED vars
  BY <1>1 DEF vars, SessionInv
<1>2. ASSUME NEW t \in Tokens, NEW p \in Passwords, Register(t, p) PROVE SessionInv'
  BY <1>2 DEF Register, TypeOK
<1>3. ASSUME NEW h \in Handlers, NEW t \in Tokens, VerifyRead(h, t) PROVE SessionInv'
  BY <1>3 DEF VerifyRead, TypeOK
<1>4. ASSUME NEW h \in Handlers, VerifyCommit(h) PROVE SessionInv'
  BY <1>4 DEF VerifyCommit, TypeOK
<1>5. ASSUME NEW h \in Handlers, ResendRead(h) PROVE SessionInv'
  BY <1>5 DEF ResendRead, TypeOK
<1>6. ASSUME NEW h \in Handlers, ResendCheck(h) PROVE SessionInv'
  BY <1>6 DEF ResendCheck, TypeOK
<1>7. ASSUME NEW h \in Handlers, NEW t \in Tokens, ResendCommit(h, t) PROVE SessionInv'
  BY <1>7 DEF ResendCommit, TypeOK
<1>8. ASSUME NEW h \in Handlers, SignInRead(h) PROVE SessionInv'
  BY <1>8 DEF SignInRead, TypeOK
<1>9. ASSUME NEW h \in Handlers, RecordFailedLogin(h) PROVE SessionInv'
  BY <1>9 DEF RecordFailedLogin, TypeOK
<1>10. ASSUME NEW h \in Handlers, ResetFailedLogin(h) PROVE SessionInv'
  BY <1>10 DEF ResetFailedLogin, TypeOK
<1>11. ASSUME NEW h \in Handlers, NEW s \in Sessions, IssueSession(h, s) PROVE SessionInv'
  BY <1>11 DEF IssueSession, TypeOK, ReadInv, UserExists
<1>12. ASSUME NEW s \in Sessions, SignOut(s) PROVE SessionInv'
  BY <1>12 DEF SignOut, TypeOK, DeleteSessions, Deleted, AllRows, RevokeAll, SessionsCascaded,
      NewPassword, LateComers
<1>13. ASSUME NEW h \in Handlers, NEW s \in Sessions, Guard(h, s) PROVE SessionInv'
  BY <1>13 DEF Guard, TypeOK
<1>14. ASSUME NEW h \in Handlers, ForgotRead(h) PROVE SessionInv'
  BY <1>14 DEF ForgotRead, TypeOK
<1>15. ASSUME NEW h \in Handlers, NEW t \in Tokens, ForgotCommit(h, t) PROVE SessionInv'
  BY <1>15 DEF ForgotCommit, TypeOK
<1>16. ASSUME NEW h \in Handlers, NEW t \in Tokens, ResetRead(h, t) PROVE SessionInv'
  BY <1>16 DEF ResetRead, TypeOK
<1>17. ASSUME NEW h \in Handlers, NEW p \in Passwords, ResetCommit(h, p) PROVE SessionInv'
  BY <1>17 DEF ResetCommit, TypeOK, DeleteSessions, Deleted, AllRows, RevokeAll,
      SessionsCascaded, NewPassword, LateComers
<1>18. ASSUME NEW h \in Handlers, ChangeRead(h) PROVE SessionInv'
  BY <1>18 DEF ChangeRead, TypeOK
<1>19. ASSUME NEW h \in Handlers, NEW p \in Passwords, NEW s \in Sessions, ChangeCommit(h, p, s)
       PROVE SessionInv'
  BY <1>19 DEF ChangeCommit, TypeOK, DeleteSessions, Deleted, AllRows, RevokeAll,
      SessionsCascaded, NewPassword, LateComers, ReadInv
<1>20. ASSUME NEW h \in Handlers, DeleteRead(h) PROVE SessionInv'
  BY <1>20 DEF DeleteRead, TypeOK
<1>21. ASSUME NEW h \in Handlers, DeleteCommit(h) PROVE SessionInv'
  BY <1>21 DEF DeleteCommit, TypeOK, DeleteSessions, Deleted, AllRows, RevokeAll,
      SessionsCascaded, NewPassword, LateComers
<1>22. ASSUME LockEnds PROVE SessionInv'
  BY <1>22 DEF LockEnds, TypeOK
<1>23. ASSUME NEW t \in Tokens, LinkExpires(t) PROVE SessionInv'
  BY <1>23 DEF LinkExpires, TypeOK
<1>24. ASSUME NEW s \in Sessions, SessionExpires(s) PROVE SessionInv'
  BY <1>24 DEF SessionExpires, TypeOK
<1>25. ASSUME Tick PROVE SessionInv'
  BY <1>25 DEF Tick, TypeOK
<1>26. ASSUME NEW h \in Handlers, Fail(h) PROVE SessionInv'
  BY <1>26 DEF Fail, TypeOK
<1>27. ASSUME NEW h \in Handlers, ResetRevoke(h) PROVE SessionInv'
  BY <1>27 DEF ResetRevoke, TypeOK
<1>28. ASSUME NEW h \in Handlers, ChangeRevoke(h) PROVE SessionInv'
  BY <1>28 DEF ChangeRevoke, TypeOK
<1>29. QED
  BY <1>1, <1>2, <1>3, <1>4, <1>5, <1>6, <1>7, <1>8, <1>9, <1>10, <1>11, <1>12, <1>13, <1>14, 
     <1>15, <1>16, <1>17, <1>18, <1>19, <1>20, <1>21, <1>22, <1>23, <1>24, <1>25, <1>26, <1>27, 
     <1>28 DEF Next

\* A stored link is the newest of its kind, or was cleared.
LEMMA LinkStep == TypeOK /\ LinkInv /\ [Next]_vars => LinkInv'
<1> SUFFICES ASSUME TypeOK, LinkInv, [Next]_vars PROVE LinkInv'
  OBVIOUS
<1> USE DEF userVars, mailVars, sessionVars, lockGhosts, requestVars, Revoke, LinkInv,
    ResetLinksExpire, NewestLinkIsLive, EnqueueLink, Kinds
<1>1. CASE UNCHANGED vars
  BY <1>1 DEF vars, LinkInv
<1>2. ASSUME NEW t \in Tokens, NEW p \in Passwords, Register(t, p) PROVE LinkInv'
  BY <1>2 DEF Register, TypeOK
<1>3. ASSUME NEW h \in Handlers, NEW t \in Tokens, VerifyRead(h, t) PROVE LinkInv'
  BY <1>3 DEF VerifyRead, TypeOK
<1>4. ASSUME NEW h \in Handlers, VerifyCommit(h) PROVE LinkInv'
  BY <1>4 DEF VerifyCommit, TypeOK
<1>5. ASSUME NEW h \in Handlers, ResendRead(h) PROVE LinkInv'
  BY <1>5 DEF ResendRead, TypeOK
<1>6. ASSUME NEW h \in Handlers, ResendCheck(h) PROVE LinkInv'
  BY <1>6 DEF ResendCheck, TypeOK
<1>7. ASSUME NEW h \in Handlers, NEW t \in Tokens, ResendCommit(h, t) PROVE LinkInv'
  BY <1>7 DEF ResendCommit, TypeOK, Rotated
<1>8. ASSUME NEW h \in Handlers, SignInRead(h) PROVE LinkInv'
  BY <1>8 DEF SignInRead, TypeOK
<1>9. ASSUME NEW h \in Handlers, RecordFailedLogin(h) PROVE LinkInv'
  BY <1>9 DEF RecordFailedLogin, TypeOK
<1>10. ASSUME NEW h \in Handlers, ResetFailedLogin(h) PROVE LinkInv'
  BY <1>10 DEF ResetFailedLogin, TypeOK
<1>11. ASSUME NEW h \in Handlers, NEW s \in Sessions, IssueSession(h, s) PROVE LinkInv'
  BY <1>11 DEF IssueSession, TypeOK
<1>12. ASSUME NEW s \in Sessions, SignOut(s) PROVE LinkInv'
  BY <1>12 DEF SignOut, TypeOK
<1>13. ASSUME NEW h \in Handlers, NEW s \in Sessions, Guard(h, s) PROVE LinkInv'
  BY <1>13 DEF Guard, TypeOK
<1>14. ASSUME NEW h \in Handlers, ForgotRead(h) PROVE LinkInv'
  BY <1>14 DEF ForgotRead, TypeOK
<1>15. ASSUME NEW h \in Handlers, NEW t \in Tokens, ForgotCommit(h, t) PROVE LinkInv'
  BY <1>15 DEF ForgotCommit, TypeOK
<1>16. ASSUME NEW h \in Handlers, NEW t \in Tokens, ResetRead(h, t) PROVE LinkInv'
  BY <1>16 DEF ResetRead, TypeOK
<1>17. ASSUME NEW h \in Handlers, NEW p \in Passwords, ResetCommit(h, p) PROVE LinkInv'
  BY <1>17 DEF ResetCommit, TypeOK, NewPassword, ResetCleared
<1>18. ASSUME NEW h \in Handlers, ChangeRead(h) PROVE LinkInv'
  BY <1>18 DEF ChangeRead, TypeOK
<1>19. ASSUME NEW h \in Handlers, NEW p \in Passwords, NEW s \in Sessions, ChangeCommit(h, p, s)
       PROVE LinkInv'
  BY <1>19 DEF ChangeCommit, TypeOK, NewPassword, ResetCleared
<1>20. ASSUME NEW h \in Handlers, DeleteRead(h) PROVE LinkInv'
  BY <1>20 DEF DeleteRead, TypeOK
<1>21. ASSUME NEW h \in Handlers, DeleteCommit(h) PROVE LinkInv'
  BY <1>21 DEF DeleteCommit, TypeOK
<1>22. ASSUME LockEnds PROVE LinkInv'
  BY <1>22 DEF LockEnds, TypeOK
<1>23. ASSUME NEW t \in Tokens, LinkExpires(t) PROVE LinkInv'
  BY <1>23 DEF LinkExpires, TypeOK
<1>24. ASSUME NEW s \in Sessions, SessionExpires(s) PROVE LinkInv'
  BY <1>24 DEF SessionExpires, TypeOK
<1>25. ASSUME Tick PROVE LinkInv'
  BY <1>25 DEF Tick, TypeOK
<1>26. ASSUME NEW h \in Handlers, Fail(h) PROVE LinkInv'
  BY <1>26 DEF Fail, TypeOK
<1>27. ASSUME NEW h \in Handlers, ResetRevoke(h) PROVE LinkInv'
  BY <1>27 DEF ResetRevoke, TypeOK
<1>28. ASSUME NEW h \in Handlers, ChangeRevoke(h) PROVE LinkInv'
  BY <1>28 DEF ChangeRevoke, TypeOK
<1>29. QED
  BY <1>1, <1>2, <1>3, <1>4, <1>5, <1>6, <1>7, <1>8, <1>9, <1>10, <1>11, <1>12, <1>13, <1>14, 
     <1>15, <1>16, <1>17, <1>18, <1>19, <1>20, <1>21, <1>22, <1>23, <1>24, <1>25, <1>26, <1>27, 
     <1>28 DEF Next

\* The count that is read is never above the failures ever recorded.
LEMMA LockStep == TypeOK /\ ReadInv /\ LockInv /\ [Next]_vars => LockInv'
<1> SUFFICES ASSUME TypeOK, ReadInv, LockInv, [Next]_vars PROVE LockInv'
  OBVIOUS
<1> USE DEF userVars, mailVars, sessionVars, lockGhosts, requestVars, Revoke, LockInv,
    LockEarned, LockUnlessOverlap
<1>1. CASE UNCHANGED vars
  BY <1>1 DEF vars, LockInv
<1>2. ASSUME NEW t \in Tokens, NEW p \in Passwords, Register(t, p) PROVE LockInv'
  BY <1>2 DEF Register, TypeOK
<1>3. ASSUME NEW h \in Handlers, NEW t \in Tokens, VerifyRead(h, t) PROVE LockInv'
  BY <1>3 DEF VerifyRead, TypeOK
<1>4. ASSUME NEW h \in Handlers, VerifyCommit(h) PROVE LockInv'
  BY <1>4 DEF VerifyCommit, TypeOK
<1>5. ASSUME NEW h \in Handlers, ResendRead(h) PROVE LockInv'
  BY <1>5 DEF ResendRead, TypeOK
<1>6. ASSUME NEW h \in Handlers, ResendCheck(h) PROVE LockInv'
  BY <1>6 DEF ResendCheck, TypeOK
<1>7. ASSUME NEW h \in Handlers, NEW t \in Tokens, ResendCommit(h, t) PROVE LockInv'
  BY <1>7 DEF ResendCommit, TypeOK
<1>8. ASSUME NEW h \in Handlers, SignInRead(h) PROVE LockInv'
  BY <1>8 DEF SignInRead, TypeOK
<1>9. ASSUME NEW h \in Handlers, RecordFailedLogin(h) PROVE LockInv'
  <2>1. {seen[h].failures, failedLogins, failedEver} \subseteq 0..MaxFailed
    BY DEF TypeOK, Seen
  <2>2. seen[h].failures <= failedEver
    BY <1>9 DEF RecordFailedLogin, ReadInv
  <2>3. LockEarned'
    BY <1>9, <2>1, <2>2, LimitsAssumption DEF RecordFailedLogin, Increment, MaxReached
  <2>4. CASE seen[h].failures = failedLogins
    <3>1. failedLogins' = MaxFailed => lock' = "on"
      BY <1>9, <2>1, <2>4, LimitsAssumption DEF RecordFailedLogin, Increment, MaxReached
    <3>2. QED
      BY <2>3, <3>1
  <2>5. CASE seen[h].failures # failedLogins
    <3>1. overlapped'
      BY <1>9, <2>5 DEF RecordFailedLogin
    <3>2. QED
      BY <2>3, <3>1
  <2>6. QED
    BY <2>4, <2>5
<1>10. ASSUME NEW h \in Handlers, ResetFailedLogin(h) PROVE LockInv'
  BY <1>10, LimitsAssumption DEF ResetFailedLogin, TypeOK
<1>11. ASSUME NEW h \in Handlers, NEW s \in Sessions, IssueSession(h, s) PROVE LockInv'
  BY <1>11 DEF IssueSession, TypeOK
<1>12. ASSUME NEW s \in Sessions, SignOut(s) PROVE LockInv'
  BY <1>12 DEF SignOut, TypeOK
<1>13. ASSUME NEW h \in Handlers, NEW s \in Sessions, Guard(h, s) PROVE LockInv'
  BY <1>13 DEF Guard, TypeOK
<1>14. ASSUME NEW h \in Handlers, ForgotRead(h) PROVE LockInv'
  BY <1>14 DEF ForgotRead, TypeOK
<1>15. ASSUME NEW h \in Handlers, NEW t \in Tokens, ForgotCommit(h, t) PROVE LockInv'
  BY <1>15 DEF ForgotCommit, TypeOK
<1>16. ASSUME NEW h \in Handlers, NEW t \in Tokens, ResetRead(h, t) PROVE LockInv'
  BY <1>16 DEF ResetRead, TypeOK
<1>17. ASSUME NEW h \in Handlers, NEW p \in Passwords, ResetCommit(h, p) PROVE LockInv'
  BY <1>17 DEF ResetCommit, TypeOK, NewPassword
<1>18. ASSUME NEW h \in Handlers, ChangeRead(h) PROVE LockInv'
  BY <1>18 DEF ChangeRead, TypeOK
<1>19. ASSUME NEW h \in Handlers, NEW p \in Passwords, NEW s \in Sessions, ChangeCommit(h, p, s)
       PROVE LockInv'
  BY <1>19 DEF ChangeCommit, TypeOK, NewPassword
<1>20. ASSUME NEW h \in Handlers, DeleteRead(h) PROVE LockInv'
  BY <1>20 DEF DeleteRead, TypeOK
<1>21. ASSUME NEW h \in Handlers, DeleteCommit(h) PROVE LockInv'
  BY <1>21, LimitsAssumption DEF DeleteCommit, TypeOK
<1>22. ASSUME LockEnds PROVE LockInv'
  BY <1>22 DEF LockEnds, TypeOK
<1>23. ASSUME NEW t \in Tokens, LinkExpires(t) PROVE LockInv'
  BY <1>23 DEF LinkExpires, TypeOK
<1>24. ASSUME NEW s \in Sessions, SessionExpires(s) PROVE LockInv'
  BY <1>24 DEF SessionExpires, TypeOK
<1>25. ASSUME Tick PROVE LockInv'
  BY <1>25 DEF Tick, TypeOK
<1>26. ASSUME NEW h \in Handlers, Fail(h) PROVE LockInv'
  BY <1>26 DEF Fail, TypeOK
<1>27. ASSUME NEW h \in Handlers, ResetRevoke(h) PROVE LockInv'
  BY <1>27 DEF ResetRevoke, TypeOK
<1>28. ASSUME NEW h \in Handlers, ChangeRevoke(h) PROVE LockInv'
  BY <1>28 DEF ChangeRevoke, TypeOK
<1>29. QED
  BY <1>1, <1>2, <1>3, <1>4, <1>5, <1>6, <1>7, <1>8, <1>9, <1>10, <1>11, <1>12, <1>13, <1>14, 
     <1>15, <1>16, <1>17, <1>18, <1>19, <1>20, <1>21, <1>22, <1>23, <1>24, <1>25, <1>26, <1>27, 
     <1>28 DEF Next

\* Ages only grow, and rows never come back.
LEMMA CooldownStep == TypeOK /\ CooldownInv /\ [Next]_vars => CooldownInv'
<1> SUFFICES ASSUME TypeOK, CooldownInv, [Next]_vars PROVE CooldownInv'
  OBVIOUS
<1> USE DEF userVars, mailVars, sessionVars, lockGhosts, requestVars, Revoke, CooldownInv,
    Finish, Goto, Overtake, EnqueueLink, Kinds
<1>1. CASE UNCHANGED vars
  BY <1>1 DEF vars, CooldownInv
<1>2. ASSUME NEW t \in Tokens, NEW p \in Passwords, Register(t, p) PROVE CooldownInv'
  BY <1>2 DEF Register, TypeOK
<1>3. ASSUME NEW h \in Handlers, NEW t \in Tokens, VerifyRead(h, t) PROVE CooldownInv'
  BY <1>3 DEF VerifyRead, TypeOK
<1>4. ASSUME NEW h \in Handlers, VerifyCommit(h) PROVE CooldownInv'
  BY <1>4 DEF VerifyCommit, TypeOK
<1>5. ASSUME NEW h \in Handlers, ResendRead(h) PROVE CooldownInv'
  BY <1>5 DEF ResendRead, TypeOK, Verifications
<1>6. ASSUME NEW h \in Handlers, ResendCheck(h) PROVE CooldownInv'
  <2> SUFFICES ASSUME NEW g \in Handlers, NEW m \in mailsBefore[g]
               PROVE  /\ mail[m] # "none"
                      /\ step'[g] = "rotating" /\ mail[m] = "verification" => sentAgo[m] = Cooldown
    BY <1>6 DEF ResendCheck
  <2>1. m \in Tokens /\ sentAgo[m] \in 0..Cooldown
    BY DEF TypeOK
  <2>2. mail[m] = "verification" => sentAgo[m] = Cooldown
    BY <1>6, <2>1, LimitsAssumption DEF ResendCheck, Verifications, Cooling
  <2>3. QED
    BY <2>2
<1>7. ASSUME NEW h \in Handlers, NEW t \in Tokens, ResendCommit(h, t) PROVE CooldownInv'
  BY <1>7 DEF ResendCommit, TypeOK
<1>8. ASSUME NEW h \in Handlers, SignInRead(h) PROVE CooldownInv'
  BY <1>8 DEF SignInRead, TypeOK
<1>9. ASSUME NEW h \in Handlers, RecordFailedLogin(h) PROVE CooldownInv'
  BY <1>9 DEF RecordFailedLogin, TypeOK
<1>10. ASSUME NEW h \in Handlers, ResetFailedLogin(h) PROVE CooldownInv'
  BY <1>10 DEF ResetFailedLogin, TypeOK
<1>11. ASSUME NEW h \in Handlers, NEW s \in Sessions, IssueSession(h, s) PROVE CooldownInv'
  BY <1>11 DEF IssueSession, TypeOK
<1>12. ASSUME NEW s \in Sessions, SignOut(s) PROVE CooldownInv'
  BY <1>12 DEF SignOut, TypeOK
<1>13. ASSUME NEW h \in Handlers, NEW s \in Sessions, Guard(h, s) PROVE CooldownInv'
  BY <1>13 DEF Guard, TypeOK
<1>14. ASSUME NEW h \in Handlers, ForgotRead(h) PROVE CooldownInv'
  BY <1>14 DEF ForgotRead, TypeOK
<1>15. ASSUME NEW h \in Handlers, NEW t \in Tokens, ForgotCommit(h, t) PROVE CooldownInv'
  BY <1>15 DEF ForgotCommit, TypeOK
<1>16. ASSUME NEW h \in Handlers, NEW t \in Tokens, ResetRead(h, t) PROVE CooldownInv'
  BY <1>16 DEF ResetRead, TypeOK
<1>17. ASSUME NEW h \in Handlers, NEW p \in Passwords, ResetCommit(h, p) PROVE CooldownInv'
  BY <1>17 DEF ResetCommit, TypeOK
<1>18. ASSUME NEW h \in Handlers, ChangeRead(h) PROVE CooldownInv'
  BY <1>18 DEF ChangeRead, TypeOK
<1>19. ASSUME NEW h \in Handlers, NEW p \in Passwords, NEW s \in Sessions, ChangeCommit(h, p, s)
       PROVE CooldownInv'
  BY <1>19 DEF ChangeCommit, TypeOK
<1>20. ASSUME NEW h \in Handlers, DeleteRead(h) PROVE CooldownInv'
  BY <1>20 DEF DeleteRead, TypeOK
<1>21. ASSUME NEW h \in Handlers, DeleteCommit(h) PROVE CooldownInv'
  BY <1>21 DEF DeleteCommit, TypeOK
<1>22. ASSUME LockEnds PROVE CooldownInv'
  BY <1>22 DEF LockEnds, TypeOK
<1>23. ASSUME NEW t \in Tokens, LinkExpires(t) PROVE CooldownInv'
  BY <1>23 DEF LinkExpires, TypeOK
<1>24. ASSUME NEW s \in Sessions, SessionExpires(s) PROVE CooldownInv'
  BY <1>24 DEF SessionExpires, TypeOK
<1>25. ASSUME Tick PROVE CooldownInv'
  BY <1>25 DEF Tick, TypeOK
<1>26. ASSUME NEW h \in Handlers, Fail(h) PROVE CooldownInv'
  BY <1>26 DEF Fail, TypeOK
<1>27. ASSUME NEW h \in Handlers, ResetRevoke(h) PROVE CooldownInv'
  BY <1>27 DEF ResetRevoke, TypeOK
<1>28. ASSUME NEW h \in Handlers, ChangeRevoke(h) PROVE CooldownInv'
  BY <1>28 DEF ChangeRevoke, TypeOK
<1>29. QED
  BY <1>1, <1>2, <1>3, <1>4, <1>5, <1>6, <1>7, <1>8, <1>9, <1>10, <1>11, <1>12, <1>13, <1>14, 
     <1>15, <1>16, <1>17, <1>18, <1>19, <1>20, <1>21, <1>22, <1>23, <1>24, <1>25, <1>26, <1>27, 
     <1>28 DEF Next

-----------------------------------------------------------------------------
(* The theorems.                                                           *)

\* The invariant holds in every reachable state.
THEOREM SafetyInductive == Spec => []IInv
<1>1. IInv /\ [Next]_vars => IInv'
  BY TypeStep, ReadStep, SessionStep, LinkStep, LockStep, CooldownStep DEF IInv
<1>2. QED
  BY IInit, <1>1, PTL DEF Spec

\* Every session is of an existing, verified account and rests on its password,
\* or on the one a sign-in in flight had read when it changed.
THEOREM SessionsRest == Spec => [](SessionsOfVerifiedUsers /\ SessionsProvePassword)
<1>1. IInv => SessionsOfVerifiedUsers /\ SessionsProvePassword
  BY DEF IInv, SessionInv
<1>2. QED
  BY <1>1, SafetyInductive, PTL

\* The link that works is the newest one, and none outlives a new password.
THEOREM LinksAreCurrent == Spec => [](NewestLinkIsLive /\ ResetLinksExpire)
<1>1. IInv => NewestLinkIsLive /\ ResetLinksExpire
  BY DEF IInv, LinkInv
<1>2. QED
  BY <1>1, SafetyInductive, PTL

\* A locked account had MaxFailed failures recorded on it, however old the count was that
\* decided (FR-AUTH-019).
THEOREM LocksAreEarned == Spec => []LockEarned
<1>1. IInv => LockEarned
  BY DEF IInv, LockInv
<1>2. QED
  BY <1>1, SafetyInductive, PTL

\* Once the count has reached the maximum a lock is stored, unless failures overlapped.
THEOREM FailuresAreAnswered == Spec => []LockUnlessOverlap
<1>1. IInv => LockUnlessOverlap
  BY DEF IInv, LockInv
<1>2. QED
  BY <1>1, SafetyInductive, PTL

\* No resend is enqueued within the cooldown of a mail it could know of.
THEOREM ResendsAreSpaced == Spec => CooldownKept
<1>1. IInv /\ [Next]_vars =>
        [\A h \in Handlers, t \in Tokens : ResendCommit(h, t) =>
            \A m \in mailsBefore[h] : mail[m] = "verification" => sentAgo[m] = Cooldown]_vars
  BY DEF IInv, CooldownInv, ResendCommit
<1>2. QED
  BY <1>1, SafetyInductive, PTL DEF Spec, CooldownKept
=============================================================================
