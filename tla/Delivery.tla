------------------------------ MODULE Delivery ------------------------------
(***************************************************************************)
(* What the outbox promises for each mail, whatever runs, overlaps, faults *)
(* and late outcomes there are: at-least-once delivery with a budget. A    *)
(* mail is confirmed only if it was delivered, given up only after Enough  *)
(* tries, never queued twice, and a deleted mail stays deleted.            *)
(***************************************************************************)
EXTENDS Naturals

CONSTANTS Mails, Enough

VARIABLES
    state,          \* of each mail: "absent", "queued", "sent", "failed", "deleted"
    tries,
    delivered       \* mails the provider has taken at least once

mailVars == <<state, tries, delivered>>

Init ==
    /\ state = [m \in Mails |-> "absent"]
    /\ tries = [m \in Mails |-> 0]
    /\ delivered = {}

Becomes(m, s) ==
    /\ state' = [state EXCEPT ![m] = s]
    /\ UNCHANGED <<tries, delivered>>

Queue(m) == state[m] = "absent" /\ Becomes(m, "queued")

\* Only a queued mail is tried, several at a time.
Try(M) ==
    /\ \A m \in M : state[m] = "queued"
    /\ tries' = [m \in Mails |-> IF m \in M THEN tries[m] + 1 ELSE tries[m]]
    /\ UNCHANGED <<state, delivered>>

\* A try may reach the provider late, after the mail was settled or deleted.
Deliver(m) ==
    /\ tries[m] > 0
    /\ delivered' = delivered \cup {m}
    /\ UNCHANGED <<state, tries>>

Present(m) == state[m] \in {"queued", "sent", "failed"}

Confirm(m) == m \in delivered /\ Present(m) /\ Becomes(m, "sent")

GiveUp(m) == tries[m] >= Enough /\ Present(m) /\ Becomes(m, "failed")

\* The owner's mails go together.
Delete(M) ==
    /\ \A m \in M : state[m] # "absent"
    /\ state' = [m \in Mails |-> IF m \in M THEN "deleted" ELSE state[m]]
    /\ UNCHANGED <<tries, delivered>>

Next ==
    \/ \E m \in Mails : Queue(m) \/ Deliver(m) \/ Confirm(m) \/ GiveUp(m)
    \/ \E M \in SUBSET Mails : Try(M) \/ Delete(M)

Spec == Init /\ [][Next]_mailVars
=============================================================================
