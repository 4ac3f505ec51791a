------------------------------- MODULE Outbox -------------------------------
(***************************************************************************)
(* The transactional email outbox: the API commits a row with the change   *)
(* that asked for the email, and overlapping runs of the worker job claim, *)
(* send and record the rows.                                               *)
(*                                                                         *)
(* Rows are named by their created_at rank, so r < s says that r is older. *)
(* Time is relative: dueIn[r] is what is left of next_attempt_at - now().  *)
(***************************************************************************)
EXTENDS Integers, FiniteSets

CONSTANTS
    Rows,           \* the email_outbox rows that may ever be inserted
    Users,          \* account ids; an id is never used again
    Requests,       \* resend / forgot-password handlers in flight
    Runs,           \* worker processes that may be alive at once
    NoUser, NoClaim,
    MaxAttempts,    \* EMAIL_MAX_ATTEMPTS
    Limit,          \* EMAIL_BATCH_SIZE
    Base, Cap,      \* EMAIL_BACKOFF_BASE_SECONDS, EMAIL_BACKOFF_CAP_SECONDS
    MaxIterations,  \* OutboxDrainService.MAX_ITERATIONS
    MaxFaults       \* bound: crashes and failed status writes in a behaviour

\* What claimDue returns for one row: the row and the attempts it now has.
Claim == [row : Rows, attempt : Nat \ {0}]

ASSUME RowsAssumption == Rows \subseteq Nat
ASSUME NamesAssumption == NoUser \notin Users /\ NoClaim \notin Claim
ASSUME BoundsAssumption ==
    /\ MaxAttempts \in Nat \ {0}
    /\ Limit \in Nat \ {0}
    /\ Base \in Nat \ {0} /\ Cap \in Nat \ {0}
    /\ MaxIterations \in Nat \ {0}
    /\ MaxFaults \in Nat

VARIABLES
    account,        \* users row: "new", "live" or "gone"
    lookedUp,       \* the user a request read before its transaction
    status, attempts, dueIn, owner,     \* email_outbox columns
    phase,          \* where a run's drain() stands
    batch,          \* rows of claimDue's result still to be sent
    current,        \* the row whose send has returned
    iteration,      \* drain()'s loop counter
    age,            \* ghost: time since the run's claim, saturating at Lease
    accepted,       \* ghost: claims whose message the provider accepted
    faults

rowVars == <<status, attempts, dueIn, owner>>
runVars == <<phase, batch, current, iteration, age>>
userVars == <<account, lookedUp>>
vars == <<userVars, rowVars, runVars, accepted, faults>>

RowStatus == {"absent", "pending", "sent", "failed", "deleted"}
Phase == {"idle", "claiming", "sending", "marking", "failing"}

Init ==
    /\ account = [u \in Users |-> "new"]
    /\ lookedUp = [q \in Requests |-> NoUser]
    /\ status = [r \in Rows |-> "absent"]
    /\ attempts = [r \in Rows |-> 0]
    /\ dueIn = [r \in Rows |-> 0]
    /\ owner = [r \in Rows |-> NoUser]
    /\ phase = [w \in Runs |-> "idle"]
    /\ batch = [w \in Runs |-> {}]
    /\ current = [w \in Runs |-> NoClaim]
    /\ iteration = [w \in Runs |-> 0]
    /\ age = [w \in Runs |-> 0]
    /\ accepted = {}
    /\ faults = 0

-----------------------------------------------------------------------------
(* The API: rows appear and disappear with the account they are about.     *)

\* INSERT INTO email_outbox: pending, no attempts, next_attempt_at NULL.
Insert(r, u) ==
    /\ status[r] = "absent"
    /\ status' = [status EXCEPT ![r] = "pending"]
    /\ owner' = [owner EXCEPT ![r] = u]
    /\ UNCHANGED <<attempts, dueIn>>

\* register: user and verification row commit together.
Register(u, r) ==
    /\ account[u] = "new"
    /\ account' = [account EXCEPT ![u] = "live"]
    /\ Insert(r, u)
    /\ UNCHANGED <<lookedUp, runVars, accepted, faults>>

\* resendVerification / requestPasswordReset: find the user ...
LookUp(q, u) ==
    /\ lookedUp[q] = NoUser
    /\ account[u] = "live"
    /\ lookedUp' = [lookedUp EXCEPT ![q] = u]
    /\ UNCHANGED <<account, rowVars, runVars, accepted, faults>>

\* ... and later, in a transaction that does not look again, rotate its token
\* (no row, no error) and enqueue.
Enqueue(q, r) ==
    /\ lookedUp[q] # NoUser
    /\ Insert(r, lookedUp[q])
    /\ lookedUp' = [lookedUp EXCEPT ![q] = NoUser]
    /\ UNCHANGED <<account, runVars, accepted, faults>>

\* deleteAccount: the user's outbox rows and the user, in one transaction.
DeleteAccount(u) ==
    /\ account[u] = "live"
    /\ account' = [account EXCEPT ![u] = "gone"]
    /\ status' = [r \in Rows |-> IF status[r] # "absent" /\ owner[r] = u
                                 THEN "deleted" ELSE status[r]]
    /\ UNCHANGED <<lookedUp, attempts, dueIn, owner, runVars, accepted, faults>>

-----------------------------------------------------------------------------
(* The worker: OutboxDrainService.drain().                                 *)

\* Deviation (no cap): caught by TypeOK.
UncappedBackoff(n) == Base * 2^n

\* make_interval(secs => LEAST(base * power(2, attempts), cap))
Backoff(n) == LET delay == Base * 2^n IN IF delay <= Cap THEN delay ELSE Cap

\* The shortest time for which a claim keeps other runs off the row.
Lease == Backoff(0)

\* Deviation (the schedule is not read): caught by OverlapNeedsSlowRun.
DueRegardless == {r \in Rows : status[r] = "pending"}

\* Deviation (exhausted rows are no longer claimed, so one whose last run
\* crashed is stranded): caught by PendingResolves.
DueBelowMax == {r \in Rows : status[r] = "pending" /\ dueIn[r] = 0 /\ attempts[r] < MaxAttempts}

\* status = 'pending' AND (next_attempt_at IS NULL OR next_attempt_at <= now())
Due == {r \in Rows : status[r] = "pending" /\ dueIn[r] = 0}

\* Rows another run is writing: FOR UPDATE SKIP LOCKED may pass over them.
LockedByOthers(w) ==
    {current[v].row : v \in {v \in Runs \ {w} : phase[v] \in {"marking", "failing"}}}

\* ORDER BY created_at LIMIT
IsOldest(B, rows) ==
    /\ B \subseteq rows
    /\ \A r \in B, s \in rows \ B : r < s
    /\ \/ B = rows /\ Cardinality(B) <= Limit
       \/ Cardinality(B) = Limit

Start(w) ==
    /\ phase[w] = "idle"
    /\ phase' = [phase EXCEPT ![w] = "claiming"]
    /\ iteration' = [iteration EXCEPT ![w] = 0]
    /\ UNCHANGED <<userVars, rowVars, batch, current, age, accepted, faults>>

\* The process is done with drain(), or dead.
Stop(w) ==
    /\ phase' = [phase EXCEPT ![w] = "idle"]
    /\ batch' = [batch EXCEPT ![w] = {}]
    /\ current' = [current EXCEPT ![w] = NoClaim]
    /\ iteration' = [iteration EXCEPT ![w] = 0]
    /\ age' = [age EXCEPT ![w] = 0]

\* Deviation (attempts are not counted on the claim): caught by ClaimsExclusive
\* and OneSendPerClaim.
CountNothing(B) == attempts

\* SET attempts = attempts + 1
CountAttempt(B) == [r \in Rows |-> IF r \in B THEN attempts[r] + 1 ELSE attempts[r]]

\* claimDue is one UPDATE: the attempt is counted and the next one scheduled
\* before anything is sent. An empty result ends the loop.
ClaimDue(w) ==
    /\ phase[w] = "claiming"
    /\ \E skipped \in SUBSET LockedByOthers(w) : \E B \in SUBSET (Due \ skipped) :
        /\ IsOldest(B, Due \ skipped)
        /\ attempts' = CountAttempt(B)
        /\ dueIn' = [r \in Rows |-> IF r \in B THEN Backoff(attempts[r]) ELSE dueIn[r]]
        /\ \/ /\ B = {}
              /\ Stop(w)
           \/ /\ B # {}
              /\ phase' = [phase EXCEPT ![w] = "sending"]
              /\ batch' = [batch EXCEPT ![w] =
                             {[row |-> r, attempt |-> attempts[r] + 1] : r \in B}]
              /\ age' = [age EXCEPT ![w] = 0]
              /\ UNCHANGED <<current, iteration>>
    /\ UNCHANGED <<userVars, status, owner, accepted, faults>>

\* render + EmailPort.send return; the provider has the message.
SendOk(w) ==
    /\ phase[w] = "sending"
    /\ \E c \in batch[w] :
        /\ current' = [current EXCEPT ![w] = c]
        /\ batch' = [batch EXCEPT ![w] = @ \ {c}]
        /\ accepted' = accepted \cup {c}
    /\ phase' = [phase EXCEPT ![w] = "marking"]
    /\ UNCHANGED <<userVars, rowVars, iteration, age, faults>>

\* render or send throws; a lost SMTP reply throws after the message is taken.
SendThrows(w) ==
    /\ phase[w] = "sending"
    /\ \E c \in batch[w] :
        /\ current' = [current EXCEPT ![w] = c]
        /\ batch' = [batch EXCEPT ![w] = @ \ {c}]
        /\ accepted' \in {accepted, accepted \cup {c}}
    /\ phase' = [phase EXCEPT ![w] = "failing"]
    /\ UNCHANGED <<userVars, rowVars, iteration, age, faults>>

\* The next row of the batch, else the next batch, else the end of drain().
Advance(w) ==
    \/ /\ batch[w] # {}
       /\ phase' = [phase EXCEPT ![w] = "sending"]
       /\ current' = [current EXCEPT ![w] = NoClaim]
       /\ UNCHANGED <<batch, iteration, age>>
    \/ /\ batch[w] = {} /\ iteration[w] + 1 < MaxIterations
       /\ phase' = [phase EXCEPT ![w] = "claiming"]
       /\ current' = [current EXCEPT ![w] = NoClaim]
       /\ iteration' = [iteration EXCEPT ![w] = @ + 1]
       /\ age' = [age EXCEPT ![w] = 0]
       /\ UNCHANGED batch
    \/ /\ batch[w] = {} /\ iteration[w] + 1 >= MaxIterations
       /\ Stop(w)

\* Deviation (an upsert brings a deleted row back): caught by Delivers.
UpsertStatus(r, s) == status' = [status EXCEPT ![r] = s]

\* UPDATE ... SET status WHERE id: whatever the status was; no row, no error.
SetStatus(r, s) ==
    status' = [status EXCEPT ![r] = IF @ = "deleted" THEN @ ELSE s]

MarkSent(w) ==
    /\ phase[w] = "marking"
    /\ SetStatus(current[w].row, "sent")
    /\ Advance(w)
    /\ UNCHANGED <<userVars, attempts, dueIn, owner, accepted, faults>>

\* A failed markSent is caught like a failed send, although the email is out.
MarkSentThrows(w) ==
    /\ phase[w] = "marking"
    /\ faults < MaxFaults
    /\ faults' = faults + 1
    /\ phase' = [phase EXCEPT ![w] = "failing"]
    /\ UNCHANGED <<userVars, rowVars, batch, current, iteration, age, accepted>>

\* Deviation (off by one): caught by Delivers.
ExhaustedEarly(c) == c.attempt + 1 >= MaxAttempts

\* row.attempts >= emailMaxAttempts: the attempts this run claimed, not the
\* attempts the row has by now.
Exhausted(c) == c.attempt >= MaxAttempts

\* markFailed once the claimed attempt reaches the maximum ...
DeadLetter(w) ==
    /\ phase[w] = "failing"
    /\ Exhausted(current[w])
    /\ SetStatus(current[w].row, "failed")
    /\ Advance(w)
    /\ UNCHANGED <<userVars, attempts, dueIn, owner, accepted, faults>>

\* ... else recordRetry, which leaves status and schedule alone.
RecordRetry(w) ==
    /\ phase[w] = "failing"
    /\ ~Exhausted(current[w])
    /\ Advance(w)
    /\ UNCHANGED <<userVars, rowVars, accepted, faults>>

\* A throw inside the catch block leaves drain(); a crash leaves it anywhere.
Abort(w) ==
    /\ phase[w] # "idle"
    /\ faults < MaxFaults
    /\ faults' = faults + 1
    /\ Stop(w)
    /\ UNCHANGED <<userVars, rowVars, accepted>>

Holding(w) == phase[w] \in {"sending", "marking", "failing"}

Tick ==
    /\ \/ \E r \in Rows : dueIn[r] > 0
       \/ \E w \in Runs : Holding(w) /\ age[w] < Lease
    /\ dueIn' = [r \in Rows |-> IF dueIn[r] > 0 THEN dueIn[r] - 1 ELSE 0]
    /\ age' = [w \in Runs |-> IF Holding(w) /\ age[w] < Lease THEN age[w] + 1 ELSE age[w]]
    /\ UNCHANGED <<userVars, status, attempts, owner, phase, batch, current,
                   iteration, accepted, faults>>

Record(w) == MarkSent(w) \/ DeadLetter(w) \/ RecordRetry(w)

Next ==
    \/ \E u \in Users, r \in Rows : Register(u, r)
    \/ \E q \in Requests, u \in Users : LookUp(q, u)
    \/ \E q \in Requests, r \in Rows : Enqueue(q, r)
    \/ \E u \in Users : DeleteAccount(u)
    \/ \E w \in Runs : Start(w)
    \/ \E w \in Runs : ClaimDue(w)
    \/ \E w \in Runs : SendOk(w)
    \/ \E w \in Runs : SendThrows(w)
    \/ \E w \in Runs : MarkSent(w)
    \/ \E w \in Runs : MarkSentThrows(w)
    \/ \E w \in Runs : DeadLetter(w)
    \/ \E w \in Runs : RecordRetry(w)
    \/ \E w \in Runs : Abort(w)
    \/ Tick

Spec == Init /\ [][Next]_vars

\* The scheduler keeps starting runs, awaited calls return (the SMTP client and
\* the database driver time out), and the database clock advances.
Fairness ==
    /\ WF_vars(Tick)
    /\ \A w \in Runs :
        /\ WF_vars(Start(w))
        /\ WF_vars(ClaimDue(w))
        /\ WF_vars(SendOk(w) \/ SendThrows(w))
        /\ WF_vars(Record(w))

FairSpec == Spec /\ Fairness

-----------------------------------------------------------------------------
(* Properties.                                                             *)

Holds(w) == batch[w] \cup ({current[w]} \ {NoClaim})

TypeOK ==
    /\ account \in [Users -> {"new", "live", "gone"}]
    /\ lookedUp \in [Requests -> Users \cup {NoUser}]
    /\ status \in [Rows -> RowStatus]
    /\ attempts \in [Rows -> Nat]
    /\ dueIn \in [Rows -> 0..Cap]
    /\ owner \in [Rows -> Users \cup {NoUser}]
    /\ phase \in [Runs -> Phase]
    /\ batch \in [Runs -> SUBSET Claim]
    /\ current \in [Runs -> Claim \cup {NoClaim}]
    /\ iteration \in [Runs -> 0..MaxIterations]
    /\ age \in [Runs -> 0..Lease]
    /\ accepted \subseteq Claim
    /\ faults \in 0..MaxFaults

\* A row recorded as sent is one the provider accepted, however runs overlap,
\* crash, or overwrite each other's outcome: markSent follows the send.
SentWasAccepted ==
    \A r \in Rows : status[r] = "sent" => \E c \in accepted : c.row = r

\* A row is dead-lettered only when all its attempts have been claimed, even
\* if the run that gives up is not the one that claimed last.
DeadLetterExhausted ==
    \A r \in Rows : status[r] = "failed" => attempts[r] >= MaxAttempts

\* No two runs ever hold the same claim, so nothing two runs do to a row is
\* done on the strength of one attempt: FOR UPDATE SKIP LOCKED in claimDue.
ClaimsExclusive ==
    \A w, v \in Runs : w # v => Holds(w) \cap Holds(v) = {}

\* A claim that waits in a batch has not been sent: with ClaimsExclusive, the
\* provider gets at most one message for each counted attempt.
OneSendPerClaim == \A w \in Runs : batch[w] \cap accepted = {}

\* Two runs hold the same row only when the earlier one has kept it for at
\* least the first backoff: next_attempt_at is the claim's lease.
OverlapNeedsSlowRun ==
    \A w, v \in Runs : \A c \in Holds(w), d \in Holds(v) :
        c.row = d.row /\ c.attempt < d.attempt => age[w] >= Lease

\* A settled row never becomes pending again, and a deleted row stays deleted:
\* no late recordRetry, markSent or markFailed puts a row back in the queue.
SettledForGood ==
    [][\A r \in Rows :
        /\ status[r] \in {"sent", "failed"} => status'[r] \in {"sent", "failed", "deleted"}
        /\ status[r] = "deleted" => status'[r] = "deleted"]_vars

\* The outbox implements at-least-once delivery with a budget of MaxAttempts:
\* overlapping, crashed and late runs do nothing to a row that Delivery forbids.
Mail == INSTANCE Delivery WITH
    Mails <- Rows,
    Enough <- MaxAttempts,
    state <- [r \in Rows |-> IF status[r] = "pending" THEN "queued" ELSE status[r]],
    tries <- attempts,
    delivered <- {c.row : c \in accepted}

Delivers == Mail!Spec

\* Every pending email is in the end sent, dead-lettered or deleted with its
\* account: a crash, a failed send or a capped loop never strands a row.
PendingResolves ==
    \A r \in Rows : status[r] = "pending" ~> status[r] \in {"sent", "failed", "deleted"}

\* FEAT-018 AC-9: after the account is deleted no outbox row of it survives. A
\* request that found the user before the deletion enqueues after it.
NoRowOutlivesAccount ==
    \A r \in Rows : status[r] \notin {"absent", "deleted"} => account[owner[r]] # "gone"
=============================================================================
