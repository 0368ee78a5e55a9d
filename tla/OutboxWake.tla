----------------------------- MODULE OutboxWake -----------------------------
(***************************************************************************)
(* How one dispatcher is woken: PostgreSQL LISTEN/NOTIFY over a dedicated  *)
(* connection, an asyncio.Event, and a fallback poll                       *)
(* (app/core/infrastructure/events/outbox_wake.py, the loop and the idle   *)
(* wait of outbox.py, the notification of db/uow.py).                      *)
(*                                                                         *)
(* A notification is a hint.  PostgreSQL drops it when nobody listens, the *)
(* connection can die with one in flight, and a row also becomes claimable *)
(* without one: when a lease or a back-off ends, or is re-queued.          *)
(* What happens to a claimed row is the subject of EventOutbox.  A memory  *)
(* pause or a database error only delays the next pass and touches none of *)
(* this state; passes that follow each other without waiting are one claim.*)
(***************************************************************************)
EXTENDS Naturals

CONSTANT Events

VARIABLES
    row,       \* "absent", "ready" (the claim query would return it), "claimed"
    pc,        \* the dispatcher within run() and _idle_wait()
    wake,      \* OutboxWakeListener.wake
    listener,  \* the dedicated connection
    inFlight,  \* a notification is on its way to the listener
    quiet      \* ready rows no notification or reconnect has announced

vars == <<row, pc, wake, listener, inFlight, quiet>>

\* "registered": LISTEN is in force, the wake of _serve not set yet.
\* "deaf": the socket is dead and the health check has not noticed.
Connections == {"down", "registered", "serving", "deaf"}

TypeOK ==
    /\ row \in [Events -> {"absent", "ready", "claimed"}]
    /\ pc \in {"claiming", "dispatching", "empty", "waiting", "woken"}
    /\ wake \in BOOLEAN
    /\ listener \in Connections
    /\ inFlight \in BOOLEAN
    /\ quiet \in SUBSET Events

Init ==
    /\ row = [e \in Events |-> "absent"]
    /\ pc = "claiming"
    /\ wake = FALSE
    /\ listener = "down"
    /\ inFlight = FALSE
    /\ quiet = {}

-----------------------------------------------------------------------------
\* Variants a plausible bug would give the definitions below.
BeginWait_ClearsTheWake ==
    /\ pc = "empty" /\ pc' = "waiting"
    /\ wake' = FALSE
    /\ UNCHANGED <<row, listener, inFlight, quiet>>

FallbackPoll_Never == FALSE /\ UNCHANGED vars

-----------------------------------------------------------------------------
Ready == {e \in Events : row[e] = "ready"}

Listening == listener \in {"registered", "serving"}

\* commit: the row and its NOTIFY become visible together.
Commit(e) ==
    /\ row[e] = "absent"
    /\ row' = [row EXCEPT ![e] = "ready"]
    /\ inFlight' = (inFlight \/ Listening)
    /\ quiet' = IF Listening THEN quiet ELSE quiet \cup {e}
    /\ UNCHANGED <<pc, wake, listener>>

\* Nothing notifies of a lease or a back-off that ended, of a replay or of a
\* re-queued window.
BecomeReady(e) ==
    /\ row[e] = "claimed"
    /\ row' = [row EXCEPT ![e] = "ready"]
    /\ quiet' = quiet \cup {e}
    /\ UNCHANGED <<pc, wake, listener, inFlight>>

\* A dispatcher of another process takes the row.
ClaimedElsewhere(e) ==
    /\ row[e] = "ready"
    /\ row' = [row EXCEPT ![e] = "claimed"]
    /\ quiet' = quiet \ {e}
    /\ UNCHANGED <<pc, wake, listener, inFlight>>

-----------------------------------------------------------------------------
ClaimBatch ==
    /\ pc = "claiming"
    /\ pc' = IF Ready = {} THEN "empty" ELSE "dispatching"
    /\ row' = [e \in Events |-> IF e \in Ready THEN "claimed" ELSE row[e]]
    /\ quiet' = {}
    /\ UNCHANGED <<wake, listener, inFlight>>

\* dispatched > 0: claim again without waiting.
FinishBatch ==
    /\ pc = "dispatching" /\ pc' = "claiming"
    /\ UNCHANGED <<row, wake, listener, inFlight, quiet>>

\* dispatched = 0.
BeginWait ==
    /\ pc = "empty" /\ pc' = "waiting"
    /\ UNCHANGED <<row, wake, listener, inFlight, quiet>>

Woken ==
    /\ pc = "waiting" /\ wake /\ pc' = "woken"
    /\ UNCHANGED <<row, wake, listener, inFlight, quiet>>

FallbackPoll ==
    /\ pc = "waiting" /\ pc' = "woken"
    /\ UNCHANGED <<row, wake, listener, inFlight, quiet>>

\* After the wait and before the claim.
ClearWake ==
    /\ pc = "woken" /\ pc' = "claiming"
    /\ wake' = FALSE
    /\ UNCHANGED <<row, listener, inFlight, quiet>>

-----------------------------------------------------------------------------
\* asyncpg.connect and add_listener.
Connect ==
    /\ listener = "down"
    /\ listener' = "registered"
    /\ UNCHANGED <<row, pc, wake, inFlight, quiet>>

\* _serve sets the wake once: nothing will announce the rows of the gap.
ServeConnection ==
    /\ listener = "registered"
    /\ listener' = "serving"
    /\ wake' = TRUE
    /\ quiet' = {}
    /\ UNCHANGED <<row, pc, inFlight>>

OnNotify ==
    /\ Listening /\ inFlight
    /\ inFlight' = FALSE
    /\ wake' = TRUE
    /\ UNCHANGED <<row, pc, listener, quiet>>

\* Once the connection is gone, whatever is ready is announced to nobody.
Disconnect ==
    /\ listener # "down"
    /\ listener' = "down"
    /\ inFlight' = FALSE
    /\ quiet' = Ready
    /\ UNCHANGED <<row, pc, wake>>

GoDeaf ==
    /\ Listening
    /\ listener' = "deaf"
    /\ inFlight' = FALSE
    /\ quiet' = Ready
    /\ UNCHANGED <<row, pc, wake>>

-----------------------------------------------------------------------------
Dispatch ==
    ClaimBatch \/ FinishBatch \/ BeginWait \/ Woken \/ FallbackPoll \/ ClearWake

Listen == Connect \/ ServeConnection \/ OnNotify \/ Disconnect \/ GoDeaf

Next ==
    \/ \E e \in Events : Commit(e) \/ BecomeReady(e) \/ ClaimedElsewhere(e)
    \/ Dispatch \/ Listen

Spec == Init /\ [][Next]_vars

\* The dispatcher's own loop goes on; nothing is assumed of the listener.
FairSpec == Spec /\ WF_vars(Dispatch)
-----------------------------------------------------------------------------
\* What makes NothingOverlooked inductive: a row that is ready although the
\* dispatcher found nothing was announced, and the announcement is still on
\* its way or has set the wake.
Announced ==
    /\ quiet \subseteq Ready
    /\ pc \in {"empty", "waiting"} /\ Ready \ quiet # {} => wake \/ inFlight

\* A dispatcher with a serving listener does not sleep on work it could have
\* been told of: no order of commit, notification, reconnect, wake and clear
\* loses a wake-up (_idle_wait, outbox.py:172-186; _serve, outbox_wake.py:172-179).
NothingOverlooked ==
    pc = "waiting" /\ ~wake /\ ~inFlight => Ready \subseteq quiet

\* With every notification lost, a ready row is still claimed: LISTEN only
\* makes the poll rare (outbox_wake.py:22-25).
EventuallyClaimed == \A e \in Events : row[e] = "ready" ~> row[e] = "claimed"
=============================================================================
