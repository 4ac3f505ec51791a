---------------------------- MODULE OutboxProofs ----------------------------
(***************************************************************************)
(* Safety of the outbox drain for every number of rows and runs, every     *)
(* batch size, backoff and attempt limit.                                  *)
(***************************************************************************)
EXTENDS Outbox, FiniteSetTheorems, TLAPS

-----------------------------------------------------------------------------
(* Arithmetic of the backoff.                                              *)

\* Powers of two are positive naturals: 2^n counts the subsets of 1..n.
LEMMA PowerPositive == ASSUME NEW n \in Nat PROVE 2^n \in Nat \ {0}
<1> DEFINE S == 1 .. n
<1>1. IsFiniteSet(S) /\ Cardinality(S) = n
  BY FS_Interval
<1>2. IsFiniteSet(SUBSET S) /\ Cardinality(SUBSET S) = 2^n
  BY <1>1, FS_SUBSET
<1>3. Cardinality(SUBSET S) \in Nat
  BY <1>2, FS_CardinalityType
<1>4. SUBSET S # {}
  OBVIOUS
<1>5. Cardinality(SUBSET S) # 0
  BY <1>2, <1>4, FS_EmptySet
<1>6. QED
  BY <1>2, <1>3, <1>5

\* Every backoff lies between the first one (Lease) and the cap.
LEMMA BackoffRange ==
    ASSUME NEW n \in Nat
    PROVE  /\ Backoff(n) \in 0..Cap
           /\ Lease \in 0..Cap
           /\ Backoff(n) >= Lease
<1> DEFINE p == 2^n
<1>1. p \in Nat /\ p >= 1
  BY PowerPositive
<1>2. 2^0 = 1
  OBVIOUS
<1> HIDE DEF p
<1>3. Base * p \in Nat /\ Base * p >= Base
  BY <1>1, BoundsAssumption
<1>4. Lease = IF Base <= Cap THEN Base ELSE Cap
  BY <1>2, BoundsAssumption DEF Lease, Backoff
<1>5. Backoff(n) = IF Base * p <= Cap THEN Base * p ELSE Cap
  BY DEF Backoff, p
<1>6. QED
  BY <1>3, <1>4, <1>5, BoundsAssumption

\* The shortest backoff, which a claim has as its lease, is a duration.
LEMMA LeaseType == Lease \in 0..Cap /\ 0 \in 0..Lease /\ 0 \in 0..Cap
<1>1. Lease \in 0..Cap
  <2>1. 0 \in Nat
    OBVIOUS
  <2>2. QED
    BY <2>1, BackoffRange
<1>2. QED
  BY <1>1, BoundsAssumption

-----------------------------------------------------------------------------
(* Type correctness.                                                       *)

\* Advance and Stop keep the variables of the run well-typed.
LEMMA StopType ==
    ASSUME TypeOK, NEW w \in Runs, Stop(w)
    PROVE  /\ phase' \in [Runs -> Phase]
           /\ batch' \in [Runs -> SUBSET Claim]
           /\ current' \in [Runs -> Claim \cup {NoClaim}]
           /\ iteration' \in [Runs -> 0..MaxIterations]
           /\ age' \in [Runs -> 0..Lease]
<1>1. 0 \in 0..Lease
  BY LeaseType
<1>2. 0 \in 0..MaxIterations
  BY BoundsAssumption
<1>3. QED
  BY <1>1, <1>2 DEF TypeOK, Stop, Phase

\* A run that goes on to its next claim is well formed.
LEMMA AdvanceType ==
    ASSUME TypeOK, NEW w \in Runs, Advance(w)
    PROVE  /\ phase' \in [Runs -> Phase]
           /\ batch' \in [Runs -> SUBSET Claim]
           /\ current' \in [Runs -> Claim \cup {NoClaim}]
           /\ iteration' \in [Runs -> 0..MaxIterations]
           /\ age' \in [Runs -> 0..Lease]
<1>1. 0 \in 0..Lease
  BY LeaseType
<1>2. iteration[w] + 1 < MaxIterations => iteration[w] + 1 \in 0..MaxIterations
  BY BoundsAssumption DEF TypeOK
<1>3. CASE Stop(w)
  BY <1>3, StopType
<1>4. CASE batch[w] # {} /\ UNCHANGED <<batch, iteration, age>>
           /\ phase' = [phase EXCEPT ![w] = "sending"]
           /\ current' = [current EXCEPT ![w] = NoClaim]
  BY <1>4 DEF TypeOK, Phase
<1>5. CASE /\ iteration[w] + 1 < MaxIterations
           /\ phase' = [phase EXCEPT ![w] = "claiming"]
           /\ current' = [current EXCEPT ![w] = NoClaim]
           /\ iteration' = [iteration EXCEPT ![w] = @ + 1]
           /\ age' = [age EXCEPT ![w] = 0]
           /\ UNCHANGED batch
  BY <1>1, <1>2, <1>5 DEF TypeOK, Phase
<1>6. QED
  BY <1>3, <1>4, <1>5 DEF Advance

\* The claim built for a due row is a claim.
LEMMA ClaimType ==
    ASSUME TypeOK, NEW r \in Rows
    PROVE  [row |-> r, attempt |-> attempts[r] + 1] \in Claim
BY DEF TypeOK, Claim

\* The initial state is well typed.
LEMMA TypeInit == Init => TypeOK
<1>1. 0 \in 0..Lease /\ 0 \in 0..Cap
  BY LeaseType
<1>2. QED
  BY <1>1, BoundsAssumption DEF Init, TypeOK, RowStatus, Phase

\* Every step keeps the types.
LEMMA TypeStep == TypeOK /\ [Next]_vars => TypeOK'
<1> SUFFICES ASSUME TypeOK, [Next]_vars PROVE TypeOK'
  OBVIOUS
<1> USE DEF TypeOK
<1>1. ASSUME NEW u \in Users, NEW r \in Rows, Register(u, r) PROVE TypeOK'
  BY <1>1 DEF Register, Insert, RowStatus, runVars
<1>2. ASSUME NEW q \in Requests, NEW u \in Users, LookUp(q, u) PROVE TypeOK'
  BY <1>2 DEF LookUp, rowVars, runVars
<1>3. ASSUME NEW q \in Requests, NEW r \in Rows, Enqueue(q, r) PROVE TypeOK'
  BY <1>3 DEF Enqueue, Insert, RowStatus, runVars
<1>4. ASSUME NEW u \in Users, DeleteAccount(u) PROVE TypeOK'
  BY <1>4 DEF DeleteAccount, RowStatus, runVars
<1>5. ASSUME NEW w \in Runs, Start(w) PROVE TypeOK'
  BY <1>5, BoundsAssumption DEF Start, Phase, userVars, rowVars
<1>6. ASSUME NEW w \in Runs, ClaimDue(w) PROVE TypeOK'
  <2>1. PICK B \in SUBSET Rows :
          /\ attempts' = [r \in Rows |-> IF r \in B THEN attempts[r] + 1 ELSE attempts[r]]
          /\ dueIn' = [r \in Rows |-> IF r \in B THEN Backoff(attempts[r]) ELSE dueIn[r]]
          /\ \/ Stop(w)
             \/ /\ phase' = [phase EXCEPT ![w] = "sending"]
                /\ batch' = [batch EXCEPT ![w] =
                               {[row |-> r, attempt |-> attempts[r] + 1] : r \in B}]
                /\ age' = [age EXCEPT ![w] = 0]
                /\ UNCHANGED <<current, iteration>>
    BY <1>6 DEF ClaimDue, CountAttempt, Due
  <2>2. attempts' \in [Rows -> Nat] /\ dueIn' \in [Rows -> 0..Cap]
    BY <2>1, BackoffRange
  <2>3. /\ phase' \in [Runs -> Phase]
        /\ batch' \in [Runs -> SUBSET Claim]
        /\ current' \in [Runs -> Claim \cup {NoClaim}]
        /\ iteration' \in [Runs -> 0..MaxIterations]
        /\ age' \in [Runs -> 0..Lease]
    <3>1. CASE Stop(w)
      BY <3>1, StopType
    <3>2. CASE ~Stop(w)
      <4>1. {[row |-> r, attempt |-> attempts[r] + 1] : r \in B} \in SUBSET Claim
        BY ClaimType
      <4>2. 0 \in 0..Lease
        BY LeaseType
      <4>3. QED
        BY <2>1, <3>2, <4>1, <4>2 DEF Phase
    <3>3. QED
      BY <3>1, <3>2
  <2>4. QED
    BY <1>6, <2>2, <2>3 DEF ClaimDue, userVars
<1>7. ASSUME NEW w \in Runs, SendOk(w) PROVE TypeOK'
  BY <1>7 DEF SendOk, Phase, userVars, rowVars
<1>8. ASSUME NEW w \in Runs, SendThrows(w) PROVE TypeOK'
  BY <1>8 DEF SendThrows, Phase, userVars, rowVars
<1>9. ASSUME NEW w \in Runs, MarkSent(w) PROVE TypeOK'
  BY <1>9, AdvanceType DEF MarkSent, SetStatus, RowStatus, userVars
<1>10. ASSUME NEW w \in Runs, MarkSentThrows(w) PROVE TypeOK'
  BY <1>10, BoundsAssumption DEF MarkSentThrows, Phase, userVars, rowVars
<1>11. ASSUME NEW w \in Runs, DeadLetter(w) PROVE TypeOK'
  BY <1>11, AdvanceType DEF DeadLetter, SetStatus, RowStatus, userVars
<1>12. ASSUME NEW w \in Runs, RecordRetry(w) PROVE TypeOK'
  BY <1>12, AdvanceType DEF RecordRetry, userVars, rowVars
<1>13. ASSUME NEW w \in Runs, Abort(w) PROVE TypeOK'
  BY <1>13, StopType, BoundsAssumption DEF Abort, userVars, rowVars
<1>14. ASSUME Tick PROVE TypeOK'
  <2>1. Lease \in Nat
    BY LeaseType
  <2>2. dueIn' \in [Rows -> 0..Cap]
    BY <1>14, BoundsAssumption DEF Tick
  <2>3. age' \in [Runs -> 0..Lease]
    BY <1>14, <2>1 DEF Tick
  <2>4. QED
    BY <1>14, <2>2, <2>3 DEF Tick, userVars
<1>15. CASE UNCHANGED vars
  BY <1>15 DEF vars, userVars, rowVars, runVars
<1>16. QED
  BY <1>1, <1>2, <1>3, <1>4, <1>5, <1>6, <1>7, <1>8, <1>9, <1>10, <1>11,
     <1>12, <1>13, <1>14, <1>15 DEF Next

\* Every variable keeps its type in every reachable state.
THEOREM TypeCorrect == Spec => []TypeOK
<1>1. QED
  BY TypeInit, TypeStep, PTL DEF Spec

-----------------------------------------------------------------------------
(* Claims: who holds which, and what was sent on them.                     *)

\* What a run holds follows its phase.
PhaseInv ==
    \A w \in Runs :
        /\ phase[w] \in {"idle", "claiming"} => batch[w] = {}
        /\ phase[w] \in {"marking", "failing"} <=> current[w] # NoClaim

\* No claim carries a number the row has not reached.
ClaimsCounted ==
    /\ \A w \in Runs : \A c \in Holds(w) : c.attempt <= attempts[c.row]
    /\ \A c \in accepted : c.attempt <= attempts[c.row]

ClaimInv == ClaimsCounted /\ ClaimsExclusive /\ OneSendPerClaim

\* Whatever step only lets go of claims keeps the claim invariant.
LEMMA LetGoClaims ==
    ASSUME ClaimInv, attempts' = attempts, accepted' = accepted,
           \A v \in Runs : Holds(v)' \subseteq Holds(v) /\ batch'[v] \subseteq batch[v]
    PROVE  ClaimInv'
BY DEF ClaimInv, ClaimsCounted, ClaimsExclusive, OneSendPerClaim

\* Stopping and advancing only let go of claims.
LEMMA StopLetsGo ==
    ASSUME TypeOK, NEW w \in Runs, Stop(w)
    PROVE  /\ Holds(w)' = {}
           /\ \A v \in Runs : Holds(v)' \subseteq Holds(v) /\ batch'[v] \subseteq batch[v]
           /\ \A v \in Runs : Holds(v)' # {} => age'[v] = age[v]
BY DEF TypeOK, Stop, Holds

\* A run that goes on lets go of a claim and takes none.
LEMMA AdvanceLetsGo ==
    ASSUME TypeOK, NEW w \in Runs, Advance(w)
    PROVE  /\ \A v \in Runs : Holds(v)' \subseteq Holds(v) /\ batch'[v] \subseteq batch[v]
           /\ \A v \in Runs : Holds(v)' # {} => age'[v] = age[v]
<1>1. CASE Stop(w)
  BY <1>1, StopLetsGo
<1>2. CASE ~Stop(w)
  BY <1>2 DEF TypeOK, Advance, Holds
<1>3. QED
  BY <1>1, <1>2

\* A run's phase goes on matching the claims it holds.
LEMMA PhaseStep == TypeOK /\ PhaseInv /\ [Next]_vars => PhaseInv'
<1> SUFFICES ASSUME TypeOK, PhaseInv, [Next]_vars PROVE PhaseInv'
  OBVIOUS
<1>0. ASSUME UNCHANGED <<phase, batch, current>> PROVE PhaseInv'
  BY <1>0 DEF PhaseInv
<1>1. ASSUME NEW w \in Runs, Stop(w) PROVE PhaseInv'
  BY <1>1 DEF TypeOK, PhaseInv, Stop
<1>2. ASSUME NEW w \in Runs, phase[w] \in {"marking", "failing"}, Advance(w)
      PROVE  PhaseInv'
  <2>1. CASE Stop(w)
    BY <1>1, <2>1
  <2>2. CASE ~Stop(w)
    BY <1>2, <2>2 DEF TypeOK, PhaseInv, Advance
  <2>3. QED
    BY <2>1, <2>2
<1>3. ASSUME NEW w \in Runs, Start(w) PROVE PhaseInv'
  BY <1>3 DEF TypeOK, PhaseInv, Start
<1>4. ASSUME NEW w \in Runs, ClaimDue(w) PROVE PhaseInv'
  <2>1. CASE Stop(w)
    BY <1>1, <2>1
  <2>2. CASE ~Stop(w)
    BY <1>4, <2>2 DEF TypeOK, PhaseInv, ClaimDue
  <2>3. QED
    BY <2>1, <2>2
<1>5. ASSUME NEW w \in Runs, SendOk(w) \/ SendThrows(w) PROVE PhaseInv'
  BY <1>5, NamesAssumption DEF TypeOK, PhaseInv, SendOk, SendThrows
<1>6. ASSUME NEW w \in Runs, MarkSentThrows(w) PROVE PhaseInv'
  BY <1>6 DEF TypeOK, PhaseInv, MarkSentThrows
<1>7. ASSUME NEW w \in Runs, MarkSent(w) \/ DeadLetter(w) \/ RecordRetry(w)
      PROVE  PhaseInv'
  BY <1>2, <1>7 DEF MarkSent, DeadLetter, RecordRetry
<1>8. ASSUME NEW w \in Runs, Abort(w) PROVE PhaseInv'
  BY <1>1, <1>8 DEF Abort
<1>9. CASE \/ \E u \in Users, r \in Rows : Register(u, r)
           \/ \E q \in Requests, u \in Users : LookUp(q, u)
           \/ \E q \in Requests, r \in Rows : Enqueue(q, r)
           \/ \E u \in Users : DeleteAccount(u)
           \/ Tick
           \/ UNCHANGED vars
  BY <1>0, <1>9
     DEF Register, LookUp, Enqueue, DeleteAccount, Tick, runVars, vars
<1>10. QED
  BY <1>3, <1>4, <1>5, <1>6, <1>7, <1>8, <1>9 DEF Next

\* Every step keeps the claims exclusive, and the sends counted.
LEMMA ClaimStep == TypeOK /\ ClaimInv /\ [Next]_vars => ClaimInv'
<1> SUFFICES ASSUME TypeOK, ClaimInv, [Next]_vars PROVE ClaimInv'
  OBVIOUS
<1>0. ASSUME UNCHANGED <<attempts, accepted, batch, current>> PROVE ClaimInv'
  <2>1. \A v \in Runs : Holds(v)' \subseteq Holds(v) /\ batch'[v] \subseteq batch[v]
    BY <1>0 DEF Holds
  <2>2. QED
    BY <1>0, <2>1, LetGoClaims
<1>1. ASSUME NEW w \in Runs, ClaimDue(w) PROVE ClaimInv'
  <2>1. PICK B \in SUBSET Rows :
          /\ attempts' = [r \in Rows |-> IF r \in B THEN attempts[r] + 1 ELSE attempts[r]]
          /\ \/ B = {} /\ Stop(w)
             \/ /\ phase' = [phase EXCEPT ![w] = "sending"]
                /\ batch' = [batch EXCEPT ![w] =
                               {[row |-> r, attempt |-> attempts[r] + 1] : r \in B}]
                /\ UNCHANGED current
    BY <1>1 DEF ClaimDue, CountAttempt, Due
  <2>2. accepted' = accepted /\ phase[w] = "claiming"
    BY <1>1 DEF ClaimDue
  <2>3. CASE B = {} /\ Stop(w)
    <3>1. attempts' = attempts
      BY <2>1, <2>3 DEF TypeOK
    <3>2. QED
      BY <2>2, <2>3, <3>1, StopLetsGo, LetGoClaims
  <2>4. CASE ~(B = {} /\ Stop(w))
    <3> DEFINE New == {[row |-> r, attempt |-> attempts[r] + 1] : r \in B}
    <3>1. /\ batch' = [batch EXCEPT ![w] = New]
          /\ current' = current
      BY <2>1, <2>4
    <3>2. \A v \in Runs : Holds(v)' \subseteq Holds(v) \cup New
      BY <3>1 DEF Holds, TypeOK
    <3>3. \A v \in Runs : v # w => Holds(v)' = Holds(v)
      BY <3>1 DEF Holds, TypeOK
    <3>4. \A c \in New : c \in Claim /\ c.attempt = attempts[c.row] + 1 /\ c.row \in B
      BY ClaimType
    <3>5. \A v \in Runs : Holds(v) \subseteq Claim
      BY DEF Holds, TypeOK
    <3>6. \A c \in Claim :
            /\ c.row \in Rows /\ c.attempt \in Nat /\ attempts[c.row] \in Nat
            /\ attempts[c.row] <= attempts'[c.row]
            /\ c.row \in B => attempts'[c.row] = attempts[c.row] + 1
      BY <2>1 DEF Claim, TypeOK
    <3> HIDE DEF New
    <3>7. ASSUME NEW c \in New
          PROVE  c \notin accepted /\ \A v \in Runs : c \notin Holds(v)
      <4>1. c.attempt = attempts[c.row] + 1 /\ attempts[c.row] \in Nat
        <5>1. c \in Claim /\ c.attempt = attempts[c.row] + 1
          BY <3>4
        <5>2. QED
          BY <5>1, <3>6
      <4>2. ~(c.attempt <= attempts[c.row])
        BY <4>1
      <4>3. QED
        BY <4>2 DEF ClaimInv, ClaimsCounted
    <3>8. ClaimsCounted'
      <4>1. ASSUME NEW c \in Claim, c.attempt <= attempts[c.row]
            PROVE  c.attempt <= attempts'[c.row]
        <5>1. /\ c.attempt \in Nat /\ attempts[c.row] \in Nat
              /\ attempts'[c.row] \in {attempts[c.row], attempts[c.row] + 1}
          BY <2>1 DEF Claim, TypeOK
        <5>2. QED
          BY <4>1, <5>1
      <4>2. ASSUME NEW c \in New PROVE c.attempt <= attempts'[c.row]
        <5>1. c \in Claim /\ c.row \in B /\ c.attempt = attempts[c.row] + 1
          BY <3>4
        <5>2. c.attempt \in Nat /\ attempts'[c.row] = attempts[c.row] + 1
          BY <5>1, <3>6
        <5>3. QED
          BY <5>1, <5>2
      <4>3. \A v \in Runs : \A c \in Holds(v)' : c.attempt <= attempts'[c.row]
        BY <3>2, <3>5, <4>1, <4>2 DEF ClaimInv, ClaimsCounted
      <4>4. \A c \in accepted' : c.attempt <= attempts'[c.row]
        BY <2>2, <4>1 DEF ClaimInv, ClaimsCounted, TypeOK
      <4>5. QED
        BY <4>3, <4>4 DEF ClaimsCounted
    <3>9. ClaimsExclusive'
      BY <3>2, <3>3, <3>4, <3>5, <3>7 DEF ClaimInv, ClaimsExclusive
    <3>10. OneSendPerClaim'
      BY <2>2, <3>1, <3>4, <3>7 DEF ClaimInv, OneSendPerClaim, TypeOK
    <3>11. QED
      BY <3>8, <3>9, <3>10 DEF ClaimInv
  <2>5. QED
    BY <2>3, <2>4
<1>2. ASSUME NEW w \in Runs, SendOk(w) \/ SendThrows(w) PROVE ClaimInv'
  <2>1. PICK c \in batch[w] :
          /\ current' = [current EXCEPT ![w] = c]
          /\ batch' = [batch EXCEPT ![w] = @ \ {c}]
          /\ accepted' \in {accepted, accepted \cup {c}}
          /\ attempts' = attempts
    BY <1>2 DEF SendOk, SendThrows, rowVars
  <2>2. \A v \in Runs : Holds(v)' \subseteq Holds(v)
    BY <2>1 DEF Holds, TypeOK
  <2>3. \A v \in Runs : batch'[v] \subseteq batch[v] /\ c \notin batch'[v]
    BY <2>1 DEF ClaimInv, ClaimsExclusive, Holds, TypeOK
  <2>4. c \in Holds(w)
    BY DEF Holds, TypeOK
  <2>5. QED
    BY <2>1, <2>2, <2>3, <2>4
       DEF ClaimInv, ClaimsCounted, ClaimsExclusive, OneSendPerClaim
<1>3. ASSUME NEW w \in Runs, MarkSent(w) \/ DeadLetter(w) \/ RecordRetry(w)
      PROVE  ClaimInv'
  BY <1>3, AdvanceLetsGo, LetGoClaims DEF MarkSent, DeadLetter, RecordRetry, rowVars
<1>4. ASSUME NEW w \in Runs, Abort(w) PROVE ClaimInv'
  BY <1>4, StopLetsGo, LetGoClaims DEF Abort, rowVars
<1>5. CASE \/ \E u \in Users, r \in Rows : Register(u, r)
           \/ \E q \in Requests, u \in Users : LookUp(q, u)
           \/ \E q \in Requests, r \in Rows : Enqueue(q, r)
           \/ \E u \in Users : DeleteAccount(u)
           \/ \E w \in Runs : Start(w) \/ MarkSentThrows(w)
           \/ Tick
           \/ UNCHANGED vars
  BY <1>0, <1>5
     DEF Register, Insert, LookUp, Enqueue, DeleteAccount, Start, MarkSentThrows, Tick,
         rowVars, runVars, vars
<1>6. QED
  BY <1>1, <1>2, <1>3, <1>4, <1>5 DEF Next

\* No two runs ever hold the same claim, and a claim is sent at most once.
THEOREM ClaimsAreExclusive == Spec => [](ClaimsExclusive /\ OneSendPerClaim)
<1>1. Init => ClaimInv
  BY DEF Init, ClaimInv, ClaimsCounted, ClaimsExclusive, OneSendPerClaim, Holds
<1>2. ClaimInv => ClaimsExclusive /\ OneSendPerClaim
  BY DEF ClaimInv
<1>3. QED
  BY <1>1, <1>2, TypeInit, TypeStep, ClaimStep, PTL DEF Spec

-----------------------------------------------------------------------------
(* Outcomes: what "sent" and "failed" may be relied on to mean.            *)

\* A run about to mark a row sent has had its message accepted.
OutcomeInv ==
    /\ \A w \in Runs : phase[w] = "marking" => current[w] \in accepted
    /\ SentWasAccepted
    /\ DeadLetterExhausted

\* A step that neither records an outcome nor begins to mark keeps the outcomes.
LEMMA NoOutcome ==
    ASSUME OutcomeInv, TypeOK, accepted \subseteq accepted',
           \A r \in Rows : status'[r] \in {"sent", "failed"} => status'[r] = status[r],
           \A r \in Rows : attempts'[r] \in Nat /\ attempts[r] <= attempts'[r],
           \A w \in Runs : phase'[w] = "marking" =>
                            phase[w] = "marking" /\ current'[w] = current[w]
    PROVE  OutcomeInv'
<1>1. \A w \in Runs : phase'[w] = "marking" => current'[w] \in accepted'
  BY DEF OutcomeInv
<1>2. SentWasAccepted'
  BY DEF OutcomeInv, SentWasAccepted
<1>3. DeadLetterExhausted'
  <2>1. ASSUME NEW r \in Rows, status'[r] = "failed" PROVE attempts'[r] >= MaxAttempts
    <3>1. attempts[r] >= MaxAttempts /\ attempts[r] \in Nat
      BY <2>1 DEF OutcomeInv, DeadLetterExhausted, TypeOK
    <3>2. QED
      BY <3>1, BoundsAssumption
  <2>2. QED
    BY <2>1 DEF DeadLetterExhausted
<1>4. QED
  BY <1>1, <1>2, <1>3 DEF OutcomeInv

\* Advance and Stop never bring a run to the marking phase.
LEMMA AdvanceMarksNothing ==
    ASSUME TypeOK, NEW w \in Runs, Advance(w) \/ Stop(w)
    PROVE  \A v \in Runs : phase'[v] = "marking" =>
                             phase[v] = "marking" /\ current'[v] = current[v]
BY DEF TypeOK, Advance, Stop

\* Every step keeps what the outcomes say true.
LEMMA OutcomeStep ==
    TypeOK /\ PhaseInv /\ ClaimInv /\ OutcomeInv /\ [Next]_vars => OutcomeInv'
<1> SUFFICES ASSUME TypeOK, PhaseInv, ClaimInv, OutcomeInv, [Next]_vars
             PROVE  OutcomeInv'
  OBVIOUS
<1>0. \A r \in Rows : attempts[r] \in Nat /\ attempts[r] <= attempts[r]
  BY DEF TypeOK
<1>1. ASSUME \/ \E u \in Users, r \in Rows : Register(u, r)
             \/ \E q \in Requests, u \in Users : LookUp(q, u)
             \/ \E q \in Requests, r \in Rows : Enqueue(q, r)
             \/ \E u \in Users : DeleteAccount(u)
      PROVE  OutcomeInv'
  BY <1>0, <1>1, NoOutcome
     DEF TypeOK, Register, Insert, LookUp, Enqueue, DeleteAccount, rowVars, runVars
<1>2. ASSUME NEW w \in Runs, Start(w) PROVE OutcomeInv'
  BY <1>0, <1>2, NoOutcome DEF TypeOK, Start, rowVars
<1>3. ASSUME NEW w \in Runs, ClaimDue(w) PROVE OutcomeInv'
  <2>1. \A r \in Rows : attempts'[r] \in Nat /\ attempts[r] <= attempts'[r]
    BY <1>3 DEF ClaimDue, CountAttempt, TypeOK
  <2>2. \A v \in Runs : phase'[v] = "marking" =>
                          phase[v] = "marking" /\ current'[v] = current[v]
    BY <1>3, AdvanceMarksNothing DEF ClaimDue, TypeOK
  <2>3. status' = status /\ accepted' = accepted
    BY <1>3 DEF ClaimDue
  <2>4. QED
    BY <2>1, <2>2, <2>3, NoOutcome
<1>4. ASSUME NEW w \in Runs, SendOk(w) PROVE OutcomeInv'
  <2>1. \A v \in Runs : phase'[v] = "marking" => current'[v] \in accepted'
    BY <1>4 DEF SendOk, OutcomeInv, TypeOK
  <2>2. accepted \subseteq accepted' /\ status' = status /\ attempts' = attempts
    BY <1>4 DEF SendOk, rowVars
  <2>3. QED
    BY <2>1, <2>2 DEF OutcomeInv, SentWasAccepted, DeadLetterExhausted
<1>5. ASSUME NEW w \in Runs, SendThrows(w) PROVE OutcomeInv'
  BY <1>0, <1>5, NoOutcome DEF SendThrows, rowVars, TypeOK
<1>6. ASSUME NEW w \in Runs, MarkSent(w) PROVE OutcomeInv'
  <2>1. current[w] \in accepted
    BY <1>6 DEF MarkSent, OutcomeInv
  <2>2. \A r \in Rows : \/ status'[r] = status[r]
                        \/ r = current[w].row /\ status'[r] = "sent"
    BY <1>6 DEF MarkSent, SetStatus, TypeOK
  <2>3. accepted' = accepted /\ attempts' = attempts
    BY <1>6 DEF MarkSent
  <2>4. \A v \in Runs : phase'[v] = "marking" =>
                          phase[v] = "marking" /\ current'[v] = current[v]
    BY <1>6, AdvanceMarksNothing DEF MarkSent
  <2>5. QED
    BY <2>1, <2>2, <2>3, <2>4 DEF OutcomeInv, SentWasAccepted, DeadLetterExhausted
<1>7. ASSUME NEW w \in Runs, MarkSentThrows(w) \/ Abort(w) PROVE OutcomeInv'
  BY <1>0, <1>7, NoOutcome, AdvanceMarksNothing
     DEF MarkSentThrows, Abort, rowVars, TypeOK
<1>8. ASSUME NEW w \in Runs, DeadLetter(w) PROVE OutcomeInv'
  <2>1. current[w] \in Holds(w) /\ current[w] \in Claim
    BY <1>8 DEF DeadLetter, PhaseInv, Holds, TypeOK
  <2>2. attempts[current[w].row] >= MaxAttempts
    <3>1. current[w].attempt <= attempts[current[w].row]
      BY <2>1 DEF ClaimInv, ClaimsCounted
    <3>2. current[w].attempt \in Nat /\ attempts[current[w].row] \in Nat
      BY <2>1 DEF Claim, TypeOK
    <3>3. current[w].attempt >= MaxAttempts
      BY <1>8 DEF DeadLetter, Exhausted
    <3>4. QED
      BY <3>1, <3>2, <3>3, BoundsAssumption
  <2>3. \A r \in Rows : \/ status'[r] = status[r]
                        \/ r = current[w].row /\ status'[r] = "failed"
    BY <1>8 DEF DeadLetter, SetStatus, TypeOK
  <2>4. accepted' = accepted /\ attempts' = attempts
    BY <1>8 DEF DeadLetter
  <2>5. \A v \in Runs : phase'[v] = "marking" =>
                          phase[v] = "marking" /\ current'[v] = current[v]
    BY <1>8, AdvanceMarksNothing DEF DeadLetter
  <2>6. QED
    BY <2>2, <2>3, <2>4, <2>5 DEF OutcomeInv, SentWasAccepted, DeadLetterExhausted
<1>9. ASSUME NEW w \in Runs, RecordRetry(w) PROVE OutcomeInv'
  BY <1>0, <1>9, NoOutcome, AdvanceMarksNothing DEF RecordRetry, rowVars, TypeOK
<1>10. CASE Tick \/ UNCHANGED vars
  BY <1>0, <1>10, NoOutcome DEF Tick, vars, rowVars, runVars, TypeOK
<1>11. QED
  BY <1>1, <1>2, <1>3, <1>4, <1>5, <1>6, <1>7, <1>8, <1>9, <1>10 DEF Next

\* The conjunction the outcome theorems rest on.
SafetyInv == TypeOK /\ PhaseInv /\ ClaimInv /\ OutcomeInv

\* The type invariant, the phases, the claims and the outcomes hold together in every
\* behaviour: the claims, the sends and the marks of a drain keep each other's promises.
THEOREM SafetyInductive == Spec => []SafetyInv
<1>1. Init => SafetyInv
  BY TypeInit, NamesAssumption
     DEF Init, SafetyInv, PhaseInv, ClaimInv, ClaimsCounted, ClaimsExclusive, OneSendPerClaim,
         Holds, OutcomeInv, SentWasAccepted, DeadLetterExhausted
<1>2. SafetyInv /\ [Next]_vars => SafetyInv'
  BY TypeStep, PhaseStep, ClaimStep, OutcomeStep DEF SafetyInv
<1>3. QED
  BY <1>1, <1>2, PTL DEF Spec

\* A row recorded as sent was accepted by the provider, and a row is
\* dead-lettered only after MaxAttempts claims.
THEOREM OutcomesAreEarned == Spec => [](SentWasAccepted /\ DeadLetterExhausted)
<1>1. SafetyInv => SentWasAccepted /\ DeadLetterExhausted
  BY DEF SafetyInv, OutcomeInv
<1>2. QED
  BY <1>1, SafetyInductive, PTL

-----------------------------------------------------------------------------
(* The lease: how two runs can come to hold one row.                       *)

\* A run's claim is covered by next_attempt_at until the run has been at it for
\* the shortest backoff; an overtaken claim is at least that old.
LeaseInv ==
    \A w \in Runs : \A c \in Holds(w) :
        \/ age[w] >= Lease
        \/ /\ c.attempt = attempts[c.row]
           /\ age[w] + dueIn[c.row] >= Lease

\* A step that only lets go of claims and moves no clock keeps the leases.
LEMMA LetGoLease ==
    ASSUME LeaseInv, attempts' = attempts, dueIn' = dueIn,
           \A v \in Runs : Holds(v)' \subseteq Holds(v),
           \A v \in Runs : Holds(v)' # {} => age'[v] = age[v]
    PROVE  LeaseInv'
BY DEF LeaseInv

\* Every step keeps a held claim its row's newest attempt for as long as its lease runs.
LEMMA LeaseStep ==
    TypeOK /\ PhaseInv /\ ClaimInv /\ LeaseInv /\ [Next]_vars => LeaseInv'
<1> SUFFICES ASSUME TypeOK, PhaseInv, ClaimInv, LeaseInv, [Next]_vars
             PROVE  LeaseInv'
  OBVIOUS
<1>0. ASSUME UNCHANGED <<attempts, dueIn, age, batch, current>> PROVE LeaseInv'
  <2>1. \A v \in Runs : Holds(v)' = Holds(v)
    BY <1>0 DEF Holds
  <2>2. QED
    BY <1>0, <2>1, LetGoLease
<1>1. ASSUME NEW w \in Runs, ClaimDue(w) PROVE LeaseInv'
  <2>1. PICK B \in SUBSET Due :
          /\ attempts' = [r \in Rows |-> IF r \in B THEN attempts[r] + 1 ELSE attempts[r]]
          /\ dueIn' = [r \in Rows |-> IF r \in B THEN Backoff(attempts[r]) ELSE dueIn[r]]
          /\ \/ B = {} /\ Stop(w)
             \/ /\ batch' = [batch EXCEPT ![w] =
                               {[row |-> r, attempt |-> attempts[r] + 1] : r \in B}]
                /\ age' = [age EXCEPT ![w] = 0]
                /\ UNCHANGED current
    BY <1>1 DEF ClaimDue, CountAttempt
  <2>2. CASE B = {} /\ Stop(w)
    <3>1. attempts' = attempts /\ dueIn' = dueIn
      BY <2>1, <2>2 DEF TypeOK
    <3>2. QED
      BY <2>2, <3>1, StopLetsGo, LetGoLease
  <2>3. CASE ~(B = {} /\ Stop(w))
    <3>1. phase[w] = "claiming"
      BY <1>1 DEF ClaimDue
    <3>2. Holds(w)' = {[row |-> r, attempt |-> attempts[r] + 1] : r \in B}
      BY <2>1, <2>3, <3>1 DEF Holds, PhaseInv, TypeOK
    <3>3. \A r \in B : r \in Rows /\ dueIn[r] = 0
      BY DEF Due
    <3>4. ASSUME NEW c \in Holds(w)'
          PROVE  c.attempt = attempts'[c.row] /\ age'[w] + dueIn'[c.row] >= Lease
      <4>1. PICK r \in B : c = [row |-> r, attempt |-> attempts[r] + 1]
        BY <3>2
      <4>2. attempts'[r] = attempts[r] + 1 /\ dueIn'[r] = Backoff(attempts[r]) /\ age'[w] = 0
        BY <2>1, <2>3, <3>3 DEF TypeOK
      <4>3. Backoff(attempts[r]) \in 0..Cap /\ Lease \in 0..Cap /\ Backoff(attempts[r]) >= Lease
        BY <3>3, BackoffRange DEF TypeOK
      <4>4. QED
        BY <4>1, <4>2, <4>3, BoundsAssumption
    <3>5. ASSUME NEW v \in Runs, v # w, NEW c \in Holds(v)'
          PROVE  \/ age'[v] >= Lease
                 \/ c.attempt = attempts'[c.row] /\ age'[v] + dueIn'[c.row] >= Lease
      <4>1. c \in Holds(v) /\ age'[v] = age[v]
        BY <2>1, <2>3, <3>5 DEF Holds, TypeOK
      <4>2. c.row \in Rows
        BY <4>1 DEF Holds, TypeOK, Claim
      <4>3. CASE c.row \in B
        <5>1. dueIn[c.row] = 0 /\ age[v] \in Int
          BY <3>3, <4>3 DEF TypeOK
        <5>2. age[v] >= Lease
          BY <4>1, <5>1 DEF LeaseInv
        <5>3. QED
          BY <4>1, <5>2
      <4>4. CASE c.row \notin B
        BY <2>1, <4>1, <4>2, <4>4 DEF LeaseInv
      <4>5. QED
        BY <4>3, <4>4
    <3>6. QED
      BY <3>4, <3>5 DEF LeaseInv
  <2>4. QED
    BY <2>2, <2>3
<1>2. ASSUME NEW w \in Runs, SendOk(w) \/ SendThrows(w) PROVE LeaseInv'
  <2>1. attempts' = attempts /\ dueIn' = dueIn /\ age' = age
    BY <1>2 DEF SendOk, SendThrows, rowVars
  <2>2. \A v \in Runs : Holds(v)' \subseteq Holds(v)
    BY <1>2 DEF SendOk, SendThrows, Holds, TypeOK
  <2>3. QED
    BY <2>1, <2>2, LetGoLease
<1>3. ASSUME NEW w \in Runs, MarkSent(w) \/ DeadLetter(w) \/ RecordRetry(w)
      PROVE  LeaseInv'
  BY <1>3, AdvanceLetsGo, LetGoLease DEF MarkSent, DeadLetter, RecordRetry, rowVars
<1>4. ASSUME NEW w \in Runs, Abort(w) PROVE LeaseInv'
  BY <1>4, StopLetsGo, LetGoLease DEF Abort, rowVars
<1>5. ASSUME Tick PROVE LeaseInv'
  <2> SUFFICES ASSUME NEW w \in Runs, NEW c \in Holds(w)
               PROVE  \/ age'[w] >= Lease
                      \/ c.attempt = attempts[c.row] /\ age'[w] + dueIn'[c.row] >= Lease
    BY <1>5 DEF LeaseInv, Holds, Tick
  <2>1. /\ age[w] \in Int /\ Lease \in Int
        /\ c.row \in Rows /\ dueIn[c.row] \in Nat
    BY LeaseType, BoundsAssumption DEF Holds, TypeOK, Claim
  <2>2. Holding(w)
    BY DEF Holding, Holds, PhaseInv, TypeOK, Phase
  <2>3. age'[w] = IF age[w] < Lease THEN age[w] + 1 ELSE age[w]
    BY <1>5, <2>2 DEF Tick
  <2>4. dueIn'[c.row] = IF dueIn[c.row] > 0 THEN dueIn[c.row] - 1 ELSE 0
    BY <1>5, <2>1 DEF Tick
  <2>5. \/ age[w] >= Lease
        \/ c.attempt = attempts[c.row] /\ age[w] + dueIn[c.row] >= Lease
    BY DEF LeaseInv
  <2>6. QED
    BY <2>1, <2>3, <2>4, <2>5
<1>6. CASE \/ \E u \in Users, r \in Rows : Register(u, r)
           \/ \E q \in Requests, u \in Users : LookUp(q, u)
           \/ \E q \in Requests, r \in Rows : Enqueue(q, r)
           \/ \E u \in Users : DeleteAccount(u)
           \/ \E w \in Runs : Start(w) \/ MarkSentThrows(w)
           \/ UNCHANGED vars
  BY <1>0, <1>6
     DEF Register, Insert, LookUp, Enqueue, DeleteAccount, Start, MarkSentThrows,
         rowVars, runVars, vars
<1>7. QED
  BY <1>1, <1>2, <1>3, <1>4, <1>5, <1>6 DEF Next

\* Two runs hold one row only when the earlier has outlived the first backoff.
THEOREM OverlapIsSlow == Spec => []OverlapNeedsSlowRun
<1>1. Init => LeaseInv
  BY DEF Init, LeaseInv, Holds
<1>2. SafetyInv /\ LeaseInv /\ [Next]_vars => LeaseInv'
  BY LeaseStep DEF SafetyInv
<1>3. SafetyInv /\ LeaseInv => OverlapNeedsSlowRun
  <2> SUFFICES ASSUME SafetyInv, LeaseInv, NEW w \in Runs, NEW v \in Runs,
                      NEW c \in Holds(w), NEW d \in Holds(v),
                      c.row = d.row, c.attempt < d.attempt
               PROVE  age[w] >= Lease
    BY DEF OverlapNeedsSlowRun
  <2>1. c \in Claim /\ d \in Claim
    BY DEF SafetyInv, TypeOK, Holds
  <2>2. d.attempt <= attempts[c.row]
    BY DEF SafetyInv, ClaimInv, ClaimsCounted
  <2>3. c.attempt \in Nat /\ d.attempt \in Nat /\ attempts[c.row] \in Nat
    BY <2>1 DEF Claim, SafetyInv, TypeOK
  <2>4. c.attempt # attempts[c.row]
    BY <2>2, <2>3
  <2>5. QED
    BY <2>4 DEF LeaseInv
<1>4. QED
  BY <1>1, <1>2, <1>3, SafetyInductive, PTL DEF Spec

\* A settled row never becomes pending again and a deleted row stays deleted.
THEOREM SettledStays == Spec => SettledForGood
<1>1. SafetyInv /\ [Next]_vars =>
        [\A r \in Rows :
          /\ status[r] \in {"sent", "failed"} => status'[r] \in {"sent", "failed", "deleted"}
          /\ status[r] = "deleted" => status'[r] = "deleted"]_vars
  <2> SUFFICES ASSUME SafetyInv, Next
               PROVE  \A r \in Rows :
          /\ status[r] \in {"sent", "failed"} => status'[r] \in {"sent", "failed", "deleted"}
          /\ status[r] = "deleted" => status'[r] = "deleted"
    OBVIOUS
  <2>1. TypeOK
    BY DEF SafetyInv
  <2>2. CASE UNCHANGED status
    BY <2>2
  <2>3. CASE \E u \in Users, r \in Rows : Register(u, r)
    BY <2>1, <2>3 DEF Register, Insert, TypeOK
  <2>4. CASE \E q \in Requests, r \in Rows : Enqueue(q, r)
    BY <2>1, <2>4 DEF Enqueue, Insert, TypeOK
  <2>5. CASE \E u \in Users : DeleteAccount(u)
    BY <2>1, <2>5 DEF DeleteAccount, TypeOK
  <2>6. CASE \E w \in Runs : MarkSent(w) \/ DeadLetter(w)
    BY <2>1, <2>6 DEF MarkSent, DeadLetter, SetStatus, TypeOK
  <2>7. CASE \/ \E q \in Requests, u \in Users : LookUp(q, u)
             \/ \E w \in Runs : \/ Start(w) \/ ClaimDue(w) \/ SendOk(w) \/ SendThrows(w)
                               \/ MarkSentThrows(w) \/ RecordRetry(w) \/ Abort(w)
             \/ Tick
    BY <2>2, <2>7 DEF LookUp, Start, ClaimDue, SendOk, SendThrows, MarkSentThrows,
                      RecordRetry, Abort, Tick, rowVars
  <2>8. QED
    BY <2>3, <2>4, <2>5, <2>6, <2>7 DEF Next
<1>2. QED
  BY <1>1, SafetyInductive, PTL DEF Spec, SettledForGood

-----------------------------------------------------------------------------
(* The corollaries the runs' invariants name, and the refinement.          *)

\* No claim that waits in a batch has been sent, so the provider gets at most
\* one message for each counted attempt.
THEOREM OneSend == Spec => []OneSendPerClaim
<1>1. SafetyInv => OneSendPerClaim
  BY DEF SafetyInv, ClaimInv
<1>2. QED
  BY <1>1, SafetyInductive, PTL

\* Only a row whose MaxAttempts attempts have all been claimed is dead-lettered.
THEOREM FailedIsExhausted == Spec => []DeadLetterExhausted
<1>1. SafetyInv => DeadLetterExhausted
  BY DEF SafetyInv, OutcomeInv
<1>2. QED
  BY <1>1, SafetyInductive, PTL

\* Nothing has been tried of a row that was never inserted.
EnteredInv == \A r \in Rows : status[r] = "absent" => attempts[r] = 0

\* Every step keeps a row without attempts until it is inserted.
LEMMA EnteredStep == SafetyInv /\ EnteredInv /\ [Next]_vars => EnteredInv'
<1> SUFFICES ASSUME SafetyInv, EnteredInv, [Next]_vars PROVE EnteredInv'
  OBVIOUS
<1>0. TypeOK
  BY DEF SafetyInv
<1>1. \A r \in Rows : status'[r] = "absent" => status[r] = "absent"
  BY <1>0 DEF Next, Register, Insert, LookUp, Enqueue, DeleteAccount, Start, ClaimDue, SendOk,
     SendThrows, MarkSent, MarkSentThrows, DeadLetter, RecordRetry, Abort, Tick, SetStatus,
     rowVars, vars, TypeOK
<1>2. \A r \in Rows : status[r] = "absent" => attempts'[r] = attempts[r]
  <2>1. CASE attempts' = attempts
    BY <2>1
  <2>2. CASE \E w \in Runs : ClaimDue(w)
    BY <1>0, <2>2 DEF ClaimDue, CountAttempt, Due, TypeOK
  <2>3. QED
    BY <2>1, <2>2 DEF Next, Register, Insert, LookUp, Enqueue, DeleteAccount, Start, SendOk,
       SendThrows, MarkSent, MarkSentThrows, DeadLetter, RecordRetry, Abort, Tick, rowVars, vars
<1>3. QED
  BY <1>1, <1>2 DEF EnteredInv

\* The refinement mapping, by name.
Queued == [r \in Rows |-> IF status[r] = "pending" THEN "queued" ELSE status[r]]
Taken == {c.row : c \in accepted}

\* A claim that is held was counted as an attempt on a row that exists.
LEMMA HeldIsTried ==
    ASSUME SafetyInv, EnteredInv, NEW w \in Runs, NEW c \in Holds(w)
    PROVE  /\ c.row \in Rows /\ attempts[c.row] > 0
           /\ status[c.row] # "absent"
<1>1. c.attempt \in Nat \ {0} /\ c.row \in Rows
  BY DEF SafetyInv, TypeOK, Holds, Claim
<1>2. c.attempt <= attempts[c.row] /\ attempts[c.row] \in Nat
  BY <1>1 DEF SafetyInv, ClaimInv, ClaimsCounted, TypeOK
<1>3. QED
  BY <1>1, <1>2 DEF EnteredInv

\* Every step of the outbox is a step of Delivery or changes nothing it sees.
LEMMA DeliveryStep ==
    SafetyInv /\ EnteredInv /\ [Next]_vars => [Mail!Next]_<<Queued, attempts, Taken>>
<1> SUFFICES ASSUME SafetyInv, EnteredInv, [Next]_vars
             PROVE  Mail!Next \/ UNCHANGED <<Queued, attempts, Taken>>
  OBVIOUS
<1> USE DEF Queued, Taken
<1>0. TypeOK /\ PhaseInv /\ OutcomeInv
  BY DEF SafetyInv
<1>a. ASSUME UNCHANGED <<status, attempts, accepted>>
      PROVE  UNCHANGED <<Queued, attempts, Taken>>
  BY <1>a
<1>b. ASSUME NEW m \in Rows, Mail!Queue(m) \/ Mail!Deliver(m) \/ Mail!Confirm(m) \/ Mail!GiveUp(m)
      PROVE  Mail!Next
  BY <1>b, Zenon DEF Mail!Next
<1>c. ASSUME NEW M \in SUBSET Rows, Mail!Try(M) \/ Mail!Delete(M) PROVE Mail!Next
  BY <1>c, Zenon DEF Mail!Next
<1>1. ASSUME NEW u \in Users, NEW r \in Rows, Insert(r, u), UNCHANGED accepted PROVE Mail!Queue(r)
  BY <1>0, <1>1 DEF Insert, Mail!Queue, Mail!Becomes, TypeOK
<1>2. ASSUME NEW u \in Users, DeleteAccount(u) PROVE Mail!Next
  <2>2. PICK Gone \in SUBSET Rows : Gone = {r \in Rows : status[r] # "absent" /\ owner[r] = u}
    OBVIOUS
  <2>1. Mail!Delete(Gone)
    BY <1>0, <1>2, <2>2 DEF DeleteAccount, Mail!Delete, TypeOK
  <2>3. QED
    BY <2>1, <2>2, <1>c, Zenon
<1>3. ASSUME NEW w \in Runs, ClaimDue(w) PROVE Mail!Next
  <2>1. PICK B \in SUBSET Due : attempts' = CountAttempt(B) /\ UNCHANGED <<status, accepted>>
    BY <1>3 DEF ClaimDue
  <2>2. B \in SUBSET Rows /\ \A r \in B : status[r] = "pending"
    BY <2>1 DEF Due
  <2>3. Mail!Try(B)
    BY <2>1, <2>2 DEF Mail!Try, CountAttempt
  <2>4. QED
    BY <2>2, <2>3, <1>c, Zenon
<1>4. ASSUME NEW w \in Runs, SendOk(w) \/ SendThrows(w)
      PROVE  Mail!Next \/ UNCHANGED <<Queued, attempts, Taken>>
  <2>1. PICK c \in batch[w] : accepted' \in {accepted, accepted \cup {c}}
    BY <1>4 DEF SendOk, SendThrows
  <2>2. UNCHANGED <<status, attempts>>
    BY <1>4 DEF SendOk, SendThrows, rowVars
  <2>3. c \in Holds(w)
    BY DEF Holds
  <2>4. c.row \in Rows /\ attempts[c.row] > 0
    BY <2>3, HeldIsTried
  <2>5. CASE accepted' = accepted
    BY <2>2, <2>5
  <2>6. CASE accepted' = accepted \cup {c}
    <3>1. Taken' = Taken \cup {c.row}
      BY <2>6
    <3>2. Mail!Deliver(c.row)
      BY <2>2, <2>4, <3>1 DEF Mail!Deliver
    <3>3. QED
      BY <2>4, <3>2, <1>b, Zenon
  <2>7. QED
    BY <2>1, <2>5, <2>6
<1>5. ASSUME NEW w \in Runs, MarkSent(w) \/ DeadLetter(w)
      PROVE  Mail!Next \/ UNCHANGED <<Queued, attempts, Taken>>
  <2>1. current[w] \in Holds(w)
    BY <1>0, <1>5 DEF MarkSent, DeadLetter, PhaseInv, Holds
  <2>2. PICK r \in Rows : r = current[w].row /\ status[r] # "absent"
    BY <2>1, HeldIsTried
  <2>3. UNCHANGED <<attempts, accepted>>
    BY <1>5 DEF MarkSent, DeadLetter
  <2>4. CASE status[r] = "deleted"
    <3>1. status' = status
      BY <1>0, <1>5, <2>2, <2>4 DEF MarkSent, DeadLetter, SetStatus, TypeOK
    <3>2. QED
      BY <2>3, <3>1
  <2>5. CASE status[r] # "deleted" /\ MarkSent(w)
    <3>1. Queued' = [Queued EXCEPT ![r] = "sent"]
      BY <1>0, <2>2, <2>5 DEF MarkSent, SetStatus, TypeOK
    <3>2. r \in Taken
      BY <1>0, <2>2, <2>5 DEF MarkSent, OutcomeInv
    <3>3. Queued[r] \in {"queued", "sent", "failed"}
      BY <1>0, <2>2, <2>5 DEF TypeOK, RowStatus
    <3>4. Mail!Confirm(r)
      BY <2>3, <3>1, <3>2, <3>3 DEF Mail!Confirm, Mail!Present, Mail!Becomes
    <3>5. QED
      BY <2>2, <3>4, <1>b, Zenon
  <2>6. CASE status[r] # "deleted" /\ DeadLetter(w)
    <3>1. Queued' = [Queued EXCEPT ![r] = "failed"]
      BY <1>0, <2>2, <2>6 DEF DeadLetter, SetStatus, TypeOK
    <3>2. attempts[r] >= MaxAttempts
      <4>1. current[w].attempt <= attempts[r]
        BY <2>1, <2>2 DEF SafetyInv, ClaimInv, ClaimsCounted
      <4>2. current[w].attempt \in Nat /\ attempts[r] \in Nat
        BY <1>0, <2>1, <2>2 DEF Claim, TypeOK, Holds
      <4>3. current[w].attempt >= MaxAttempts
        BY <2>6 DEF DeadLetter, Exhausted
      <4>4. QED
        BY <4>1, <4>2, <4>3, BoundsAssumption
    <3>3. Queued[r] \in {"queued", "sent", "failed"}
      BY <1>0, <2>2, <2>6 DEF TypeOK, RowStatus
    <3>4. Mail!GiveUp(r)
      BY <2>3, <3>1, <3>2, <3>3 DEF Mail!GiveUp, Mail!Present, Mail!Becomes
    <3>5. QED
      BY <2>2, <3>4, <1>b, Zenon
  <2>7. QED
    BY <1>5, <2>4, <2>5, <2>6
<1>6. CASE \/ \E q \in Requests, u \in Users : LookUp(q, u)
           \/ \E w \in Runs : \/ Start(w) \/ MarkSentThrows(w) \/ RecordRetry(w) \/ Abort(w)
           \/ Tick
           \/ UNCHANGED vars
  BY <1>a, <1>6 DEF LookUp, Start, MarkSentThrows, RecordRetry, Abort, Tick, rowVars, vars
<1>7. CASE \E u \in Users, r \in Rows : Register(u, r)
  BY <1>1, <1>7, <1>b, Zenon DEF Register
<1>8. CASE \E q \in Requests, r \in Rows : Enqueue(q, r)
  <2>1. PICK q \in Requests, r \in Rows : Enqueue(q, r)
    BY <1>8
  <2>2. lookedUp[q] \in Users
    BY <1>0, <2>1 DEF Enqueue, TypeOK
  <2>3. QED
    BY <1>1, <1>b, <2>1, <2>2, Zenon DEF Enqueue
<1>9. QED
  BY <1>2, <1>3, <1>4, <1>5, <1>6, <1>7, <1>8 DEF Next

\* The outbox, with every overlap, crash, lost reply and deletion it allows,
\* implements at-least-once delivery with a budget of MaxAttempts.
THEOREM OutboxDelivers == Spec => Delivers
<1>1. Init => Mail!Init /\ EnteredInv
  BY DEF Init, Mail!Init, EnteredInv
<1>2. SafetyInv /\ EnteredInv /\ [Next]_vars => [Mail!Next]_<<Queued, attempts, Taken>>
  BY DeliveryStep
<1>3. <<Queued, attempts, Taken>> = Mail!mailVars
  BY DEF Queued, Taken, Mail!mailVars
<1>4. SafetyInv /\ EnteredInv /\ [Next]_vars => [Mail!Next]_(Mail!mailVars)
  BY <1>2, <1>3 DEF Queued, Taken, Mail!mailVars
<1>5. QED
  BY <1>1, <1>4, SafetyInductive, EnteredStep, PTL DEF Spec, Delivers, Mail!Spec

=============================================================================
