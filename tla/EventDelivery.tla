---------------------------- MODULE EventDelivery ----------------------------
(***************************************************************************)
(* What the outbox promises the parts that raise events, and the stream    *)
(* those that consume them, whatever leases, dispatchers and crashes lie   *)
(* between: an event that was committed is appended at least once before   *)
(* it counts as delivered, more than once only with a cause, and is given  *)
(* up only after MaxAttempts errors.  EventOutbox implements it.           *)
(***************************************************************************)
EXTENDS Naturals

CONSTANTS
    Events,        \* the events a unit of work may raise
    MaxAttempts    \* errors after which an event may be given up

VARIABLES
    status,    \* what the database says of each event
    entries,   \* stream entries since the event was (re)queued, 2 = many
    errors,    \* publish errors since then, up to MaxAttempts
    excused    \* a second entry would have a cause

vars == <<status, entries, errors, excused>>

Statuses == {"absent", "pending", "delivered", "abandoned"}

Init ==
    /\ status = [e \in Events |-> "absent"]
    /\ entries = [e \in Events |-> 0]
    /\ errors = [e \in Events |-> 0]
    /\ excused = [e \in Events |-> FALSE]

-----------------------------------------------------------------------------
\* A unit of work commits the event with the change it reports.
Accept(e) ==
    /\ status[e] = "absent"
    /\ status' = [status EXCEPT ![e] = "pending"]
    /\ UNCHANGED <<entries, errors, excused>>

More(n, limit) == IF n = limit THEN n ELSE n + 1

\* Only committed events reach the stream, and only once unless excused.
MayAppend(e) ==
    /\ status[e] # "absent"
    /\ entries[e] = 0 \/ excused[e]

Append(e) ==
    /\ MayAppend(e)
    /\ entries' = [entries EXCEPT ![e] = More(@, 2)]
    /\ UNCHANGED <<status, errors, excused>>

\* An error leaves open whether the entry was appended; if it was, the next
\* attempt appends a second one.
Fail(e) ==
    /\ errors' = [errors EXCEPT ![e] = More(@, MaxAttempts)]
    /\ \/ UNCHANGED <<entries, excused>>
       \/ /\ MayAppend(e)
          /\ entries' = [entries EXCEPT ![e] = More(@, 2)]
          /\ excused' = [excused EXCEPT ![e] = TRUE]
    /\ UNCHANGED status

Excuse(e) ==
    /\ excused' = [excused EXCEPT ![e] = TRUE]
    /\ UNCHANGED <<status, entries, errors>>

\* A batch of outcomes is recorded in one transaction.
Deliver(batch) ==
    /\ \A e \in batch : status[e] = "pending" /\ entries[e] > 0
    /\ status' = [e \in Events |-> IF e \in batch THEN "delivered" ELSE status[e]]
    /\ UNCHANGED <<entries, errors, excused>>

GiveUp(e) ==
    /\ status[e] = "pending"
    /\ errors[e] >= MaxAttempts
    /\ status' = [status EXCEPT ![e] = "abandoned"]
    /\ UNCHANGED <<entries, errors, excused>>

\* An operator, or the gap replay, starts the event afresh.
Reopen(e) ==
    /\ status[e] # "absent"
    /\ status' = [status EXCEPT ![e] = "pending"]
    /\ entries' = [entries EXCEPT ![e] = 0]
    /\ errors' = [errors EXCEPT ![e] = 0]
    /\ \E cause \in BOOLEAN : excused' = [excused EXCEPT ![e] = cause]

Next ==
    \/ \E e \in Events :
         \/ Accept(e) \/ Append(e) \/ Fail(e) \/ Excuse(e)
         \/ GiveUp(e) \/ Reopen(e)
    \/ \E batch \in SUBSET Events : Deliver(batch)

Spec == Init /\ [][Next]_vars
=============================================================================
