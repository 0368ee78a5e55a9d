---------------------------- MODULE EventOutbox ----------------------------
(***************************************************************************)
(* The transactional outbox and its dispatchers                            *)
(* (app/core/infrastructure/events/outbox.py, staged by db/uow.py).        *)
(*                                                                         *)
(* Every API and worker process runs one dispatcher.  A dispatcher claims  *)
(* a batch of unsettled rows under a lease, publishes them one after the   *)
(* other on the Redis stream, and records the outcomes in transactions of  *)
(* their own, so a lease can run out, a process can die and an operator    *)
(* can replay a row between any two of these steps.                        *)
(*                                                                         *)
(* Time is abstracted to what the guards read of it: `due` is              *)
(* available_at <= now, `live` is lease_until > now.  Events are numbered  *)
(* in the order of (occurred_at, id), the order of the claim query.        *)
(***************************************************************************)
EXTENDS Naturals, FiniteSets

CONSTANTS
    Events,            \* outbox rows, numbered in claim order
    Dispatchers,       \* processes; a restarted process is a new dispatcher
    NoOwner,           \* lease_owner IS NULL
    BatchSize,         \* OutboxDispatcher.batch_size
    MaxAttempts,       \* OutboxDispatcher.max_attempts
    MaxCrashes,        \* bound: processes that die
    MaxFaults,         \* bound: outcome transactions that fail
    MaxOverruns,       \* bound: leases that run out on a working dispatcher
    MaxReplays,        \* bound: operator replays
    MaxPauses,         \* bound: times Redis memory becomes critical
    SlowBus            \* TRUE: a batch may always outlast its lease

ASSUME EventsAssumption == Events \subseteq Nat /\ IsFiniteSet(Events)
ASSUME OwnerAssumption == NoOwner \notin Dispatchers
ASSUME SizesAssumption == BatchSize \in Nat \ {0} /\ MaxAttempts \in Nat \ {0}
ASSUME BoundsAssumption ==
    /\ MaxCrashes \in Nat /\ MaxFaults \in Nat /\ MaxOverruns \in Nat
    /\ MaxReplays \in Nat /\ MaxPauses \in Nat /\ SlowBus \in BOOLEAN

VARIABLES
    row,       \* domain_event_outbox
    disp,      \* each dispatcher's local state within dispatch_once
    pressure,  \* the stream guard's "memory critical" flag in Redis
    spent,     \* how much of each bound is used up
    sent,      \* stream entries appended since the row was (re)queued, 2 = many
    failures,  \* publish errors since the row was (re)queued, up to MaxAttempts
    disturbed  \* something that excuses a duplicate happened to the row

vars == <<row, disp, pressure, spent, sent, failures, disturbed>>

ghosts == <<sent, failures, disturbed>>

Rows == [stored: BOOLEAN, published: BOOLEAN, dead: BOOLEAN, due: BOOLEAN,
         attempts: Nat, owner: Dispatchers \cup {NoOwner}, live: BOOLEAN]

LocalStates == [pc: {"idle", "checked", "working", "crashed"},
                todo: SUBSET Events,      \* claimed, not yet published
                done: SUBSET Events,      \* `published`
                failed: SUBSET Events,    \* `failed`
                snap: [Events -> Nat]]    \* ClaimedEvent.attempts

Bounds == [crashes |-> MaxCrashes, faults |-> MaxFaults, pauses |-> MaxPauses,
           overruns |-> MaxOverruns, replays |-> MaxReplays]

TypeOK ==
    /\ row \in [Events -> Rows]
    /\ disp \in [Dispatchers -> LocalStates]
    /\ pressure \in BOOLEAN
    /\ spent \in [DOMAIN Bounds -> Nat]
    /\ sent \in [Events -> 0..2]
    /\ failures \in [Events -> 0..MaxAttempts]
    /\ disturbed \in [Events -> BOOLEAN]

-----------------------------------------------------------------------------
Absent == [stored |-> FALSE, published |-> FALSE, dead |-> FALSE, due |-> FALSE,
           attempts |-> 0, owner |-> NoOwner, live |-> FALSE]

Staged == [Absent EXCEPT !.stored = TRUE, !.due = TRUE]

AtRest(pc) == [pc |-> pc, todo |-> {}, done |-> {}, failed |-> {},
               snap |-> [e \in Events |-> 0]]

Init ==
    /\ row = [e \in Events |-> Absent]
    /\ disp = [d \in Dispatchers |-> AtRest("idle")]
    /\ pressure = FALSE
    /\ spent = [b \in DOMAIN Bounds |-> 0]
    /\ sent = [e \in Events |-> 0]
    /\ failures = [e \in Events |-> 0]
    /\ disturbed = [e \in Events |-> FALSE]

Spend(b) == spent[b] < Bounds[b] /\ spent' = [spent EXCEPT ![b] = @ + 1]

First(e, S) == e \in S /\ \A f \in S : e <= f

FirstOf(n, S) == {e \in S : Cardinality({f \in S : f < e}) < n}

Settled(e) == row[e].published \/ row[e].dead

-----------------------------------------------------------------------------
\* Variants a plausible bug would give the definitions below.
Claimable_IgnoresLease(e) == row[e].stored /\ ~Settled(e) /\ row[e].due

Failed_OneAttemptEarly(r, n) ==
    [r EXCEPT !.owner = NoOwner, !.live = FALSE, !.due = FALSE,
              !.attempts = n + 1, !.dead = n + 2 >= MaxAttempts]

Failed_KeepsAttempts(r, n) ==
    [r EXCEPT !.owner = NoOwner, !.live = FALSE, !.due = FALSE,
              !.dead = n + 1 >= MaxAttempts]

Erred_Swallowed(l, e) == [l EXCEPT !.todo = @ \ {e}, !.done = @ \cup {e}]

Requeued_RefundsOneAttempt(r) ==
    [r EXCEPT !.attempts = @ - 1, !.due = TRUE, !.owner = NoOwner, !.live = FALSE,
              !.published = FALSE, !.dead = FALSE]

-----------------------------------------------------------------------------
\* The WHERE clause of the claim query.
Claimable(e) ==
    /\ row[e].stored
    /\ ~Settled(e)
    /\ row[e].due
    /\ ~row[e].live

\* The fence of both outcome updates: lease_owner = self.owner.
Owns(d, e) == row[e].owner = d

Leased(r, d) == [r EXCEPT !.owner = d, !.live = TRUE]

Published(r) == [r EXCEPT !.published = TRUE, !.owner = NoOwner, !.live = FALSE]

Failed(r, n) ==
    LET f == [r EXCEPT !.owner = NoOwner, !.live = FALSE, !.due = FALSE,
                       !.attempts = n + 1]
    IN  IF n + 1 >= MaxAttempts THEN [f EXCEPT !.dead = TRUE] ELSE f

Requeued(r) ==
    [r EXCEPT !.attempts = 0, !.due = TRUE, !.owner = NoOwner, !.live = FALSE,
              !.published = FALSE, !.dead = FALSE]

\* The lists of dispatch_once, as the loop and the outcome updates move on.
Sent(l, e) == [l EXCEPT !.todo = @ \ {e}, !.done = @ \cup {e}]

Erred(l, e) == [l EXCEPT !.todo = @ \ {e}, !.failed = @ \cup {e}]

Acknowledged(l) == [l EXCEPT !.done = {}]

Recorded(l, e) == [l EXCEPT !.failed = @ \ {e}]

\* The dispatcher's state once `l` says what is left of its batch.
Resting(l) ==
    IF l.todo \cup l.done \cup l.failed = {} THEN AtRest("idle") ELSE l

-----------------------------------------------------------------------------
\* A domain write commits together with its outbox row.
Stage(e) ==
    /\ ~row[e].stored
    /\ row' = [row EXCEPT ![e] = Staged]
    /\ UNCHANGED <<disp, pressure, spent, ghosts>>

\* run(): the memory check that precedes every pass.
CheckPressure(d) ==
    /\ disp[d].pc = "idle"
    /\ ~pressure
    /\ disp' = [disp EXCEPT ![d].pc = "checked"]
    /\ UNCHANGED <<row, pressure, spent, ghosts>>

ClaimBatch(d) ==
    LET batch == FirstOf(BatchSize, {e \in Events : Claimable(e)}) IN
    /\ disp[d].pc = "checked"
    /\ row' = [e \in Events |-> IF e \in batch THEN Leased(row[e], d) ELSE row[e]]
    /\ disp' = [disp EXCEPT ![d] = Resting(
                  [pc |-> "working", todo |-> batch, done |-> {}, failed |-> {},
                   snap |-> [e \in Events |->
                               IF e \in batch THEN row[e].attempts ELSE 0]])]
    /\ UNCHANGED <<pressure, spent, ghosts>>

Appended(e) == sent' = [sent EXCEPT ![e] = IF @ = 2 THEN 2 ELSE @ + 1]

ErrorSeen(e) ==
    failures' = [failures EXCEPT ![e] = IF @ = MaxAttempts THEN @ ELSE @ + 1]

\* message_bus.publish returned within event_publish_timeout_seconds.
PublishOk(d, e) ==
    /\ First(e, disp[d].todo)
    /\ disp' = [disp EXCEPT ![d] = Sent(@, e)]
    /\ Appended(e)
    /\ UNCHANGED <<row, pressure, spent, failures, disturbed>>

\* It raised or timed out, before or after the XADD took effect.
PublishError(d, e) ==
    /\ First(e, disp[d].todo)
    /\ disp' = [disp EXCEPT ![d] = Erred(@, e)]
    /\ ErrorSeen(e)
    /\ \/ UNCHANGED <<sent, disturbed>>
       \/ Appended(e) /\ disturbed' = [disturbed EXCEPT ![e] = TRUE]
    /\ UNCHANGED <<row, pressure, spent>>

MarkPublishedMany(d) ==
    /\ disp[d].todo = {}
    /\ disp[d].done # {}
    /\ row' = [e \in Events |-> IF e \in disp[d].done /\ Owns(d, e)
                                THEN Published(row[e]) ELSE row[e]]
    /\ disp' = [disp EXCEPT ![d] = Resting(Acknowledged(@))]
    /\ UNCHANGED <<pressure, spent, ghosts>>

MarkFailed(d, e) ==
    /\ disp[d].todo = {} /\ disp[d].done = {}
    /\ First(e, disp[d].failed)
    /\ row' = [row EXCEPT ![e] =
                 IF Owns(d, e) THEN Failed(@, disp[d].snap[e]) ELSE @]
    /\ disp' = [disp EXCEPT ![d] = Resting(Recorded(@, e))]
    /\ UNCHANGED <<pressure, spent, ghosts>>

\* A database error leaves dispatch_once: the rest of the batch is forgotten.
\* It strikes where dispatch_once talks to PostgreSQL: at the claim (whose
\* commit may have taken effect) or at an outcome transaction.
DatabaseFault(d) ==
    /\ disp[d].pc = "working"
    /\ disp[d].todo = {} \/ disp[d].done \cup disp[d].failed = {}
    /\ Spend("faults")
    /\ disp' = [disp EXCEPT ![d] = AtRest("idle")]
    /\ UNCHANGED <<row, pressure, ghosts>>

\* The process dies, or is shut down: run() is cancelled wherever it is.
Crash(d) ==
    /\ disp[d].pc # "crashed"
    /\ Spend("crashes")
    /\ disp' = [disp EXCEPT ![d] = AtRest("crashed")]
    /\ UNCHANGED <<row, pressure, ghosts>>

Holds(d, e) == e \in disp[d].todo \cup disp[d].done \cup disp[d].failed

\* lease_until passes: on a dispatcher that is still busy with the row ...
LeaseOverrun(e) ==
    /\ row[e].live
    /\ \E d \in Dispatchers : row[e].owner = d /\ Holds(d, e)
    /\ IF SlowBus THEN UNCHANGED spent ELSE Spend("overruns")
    /\ row' = [row EXCEPT ![e].live = FALSE]
    /\ disturbed' = [disturbed EXCEPT ![e] = TRUE]
    /\ UNCHANGED <<disp, pressure, sent, failures>>

\* ... or on one that died or forgot it.
LeaseAbandoned(e) ==
    /\ row[e].live
    /\ ~\E d \in Dispatchers : row[e].owner = d /\ Holds(d, e)
    /\ row' = [row EXCEPT ![e].live = FALSE]
    /\ disturbed' = [disturbed EXCEPT ![e] = TRUE]
    /\ UNCHANGED <<disp, pressure, spent, sent, failures>>

\* available_at passes.
BecomeDue(e) ==
    /\ row[e].stored /\ ~row[e].due
    /\ row' = [row EXCEPT ![e].due = TRUE]
    /\ UNCHANGED <<disp, pressure, spent, ghosts>>

\* replay_outbox_event: unconditional on the row's state.  The gap replay's
\* requeue_outbox_window does the same to a published row.
ReplayOutboxEvent(e) ==
    /\ row[e].stored
    /\ Spend("replays")
    /\ row' = [row EXCEPT ![e] = Requeued(@)]
    /\ sent' = [sent EXCEPT ![e] = 0]
    /\ failures' = [failures EXCEPT ![e] = 0]
    /\ disturbed' = [disturbed EXCEPT ![e] =
                       \E d \in Dispatchers : e \in disp[d].todo]
    /\ UNCHANGED <<disp, pressure>>

PressureRises ==
    /\ ~pressure /\ Spend("pauses")
    /\ pressure' = TRUE
    /\ UNCHANGED <<row, disp, ghosts>>

PressureClears ==
    /\ pressure /\ pressure' = FALSE
    /\ UNCHANGED <<row, disp, spent, ghosts>>

-----------------------------------------------------------------------------
Dispatch(d) ==
    \/ CheckPressure(d) \/ ClaimBatch(d) \/ MarkPublishedMany(d)
    \/ \E e \in Events : PublishOk(d, e) \/ PublishError(d, e) \/ MarkFailed(d, e)

Next ==
    \/ \E d \in Dispatchers : Dispatch(d) \/ DatabaseFault(d) \/ Crash(d)
    \/ \E e \in Events : \/ Stage(e) \/ ReplayOutboxEvent(e)
                         \/ LeaseOverrun(e) \/ LeaseAbandoned(e) \/ BecomeDue(e)
    \/ PressureRises \/ PressureClears

Spec == Init /\ [][Next]_vars

\* A dispatcher keeps taking steps while its process lives; leases and
\* back-off delays end because time passes; the flag has a TTL in Redis.
Fairness ==
    /\ \A d \in Dispatchers : WF_vars(Dispatch(d))
    /\ \A e \in Events : WF_vars(BecomeDue(e)) /\ WF_vars(LeaseAbandoned(e))
    /\ WF_vars(PressureClears)

FairSpec == Spec /\ Fairness
-----------------------------------------------------------------------------
\* A row says "published" only if an entry was appended after the row was
\* last queued: a dispatcher that published before an operator's replay, or
\* whose lease went to another one, cannot settle the row (the lease_owner
\* fence of _mark_published_many, outbox.py:283-286).
PublishedWasSent == \A e \in Events : row[e].published => sent[e] > 0

\* Delivery is at least once, but a second entry always has a cause: a lease
\* that ran out, a publish that failed after its XADD, or a replay under a
\* dispatcher that still held the row.  Otherwise concurrent dispatchers never
\* publish a row twice (_claim_batch, outbox.py:188-209).
DuplicatesExplained == \A e \in Events : ~disturbed[e] => sent[e] <= 1

\* Attempts are publish errors that happened: no interleaving of stale
\* snapshots and leases dead-letters a row before max_attempts errors
\* (_mark_failed, outbox.py:296-321).
DeadLetterIsEarned ==
    \A e \in Events :
        /\ row[e].attempts <= failures[e]
        /\ row[e].dead => row[e].attempts >= MaxAttempts

\* What makes the three invariants above inductive: which dispatcher's local
\* state still agrees with the row it claimed.  A dispatcher that owns a row
\* read its current attempts, has really published what it calls published and
\* really failed what it calls failed; an undisturbed row has one holder only.
RowShape(e) ==
    /\ row[e].owner = NoOwner => ~row[e].live
    /\ row[e].owner # NoOwner => row[e].stored /\ ~Settled(e)
    /\ ~row[e].stored => ~Settled(e) /\ row[e].attempts = 0
    /\ row[e].attempts >= MaxAttempts => row[e].dead

HolderAgrees(d, e) ==
    row[e].owner = d =>
        /\ e \in disp[d].todo \cup disp[d].failed =>
                disp[d].snap[e] = row[e].attempts
        /\ e \in disp[d].done => sent[e] > 0
        /\ e \in disp[d].failed => disp[d].snap[e] < failures[e]

Undisturbed(e) ==
    ~disturbed[e] =>
        /\ ~Settled(e) /\ ~row[e].live => sent[e] = 0
        /\ \A d \in Dispatchers :
             /\ e \in disp[d].todo =>
                    row[e].owner = d /\ row[e].live /\ sent[e] = 0
             /\ e \in disp[d].failed /\ row[e].owner = d => sent[e] = 0

LocalShape(d) ==
    /\ disp[d].pc # "working" =>
            disp[d].todo = {} /\ disp[d].done = {} /\ disp[d].failed = {}
    /\ disp[d].todo \cap disp[d].failed = {}

HoldersAgree ==
    /\ \A e \in Events : RowShape(e) /\ Undisturbed(e)
    /\ \A d \in Dispatchers :
            LocalShape(d) /\ \A e \in Events : HolderAgrees(d, e)

IndInv == TypeOK /\ HoldersAgree /\ PublishedWasSent
                 /\ DuplicatesExplained /\ DeadLetterIsEarned

SameOutcome(e) ==
    /\ row'[e].published = row[e].published /\ row'[e].dead = row[e].dead
    /\ row'[e].attempts = row[e].attempts

\* Once a row is published or dead-lettered its outcome is final; only a
\* replay reopens it, whatever stale dispatchers still write.
OutcomeIsFinal ==
    [][\A e \in Events :
         Settled(e) => SameOutcome(e) \/ ReplayOutboxEvent(e)]_vars

\* The recorded attempts never go back, although _mark_failed writes the
\* snapshot taken at the claim plus one rather than incrementing the column.
AttemptsOnlyRise ==
    [][\A e \in Events :
         row'[e].attempts >= row[e].attempts \/ ReplayOutboxEvent(e)]_vars

\* The rows as EventDelivery sees them: leases, owners, due times, attempts and
\* the dispatchers' own state are hidden.
Status(e) ==
    IF row[e].published THEN "delivered"
    ELSE IF row[e].dead THEN "abandoned"
    ELSE IF row[e].stored THEN "pending" ELSE "absent"

Seen == [e \in Events |-> Status(e)]

Promise == INSTANCE EventDelivery WITH
    status <- Seen, entries <- sent, errors <- failures, excused <- disturbed

\* The dispatchers implement what the outbox promises: every step of theirs,
\* stale or not, is a step of EventDelivery or changes nothing it can see
\* (dispatch_once and the outcome transactions, outbox.py:231-334).
KeepsPromise == Promise!Spec

\* Every accepted event is in the end published or dead-lettered.
EventuallySettled == \A e \in Events : row[e].stored ~> Settled(e)
=============================================================================
