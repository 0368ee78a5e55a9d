----------------------------- MODULE EventInbox -----------------------------
(***************************************************************************)
(* The consuming side of the event transport: what becomes of one stream   *)
(* entry in every consumer group that reads the stream                     *)
(* (app/core/infrastructure/events/inbox.py, quarantine.py and             *)
(* stream_subscriber.py).                                                  *)
(*                                                                         *)
(* A lane is one subscriber of one process.  Each group has reading lanes  *)
(* (XREADGROUP, new entries) and reclaiming lanes (XAUTOCLAIM, pending     *)
(* entries that have been idle for MinIdle).  A delivery passes the        *)
(* handler deadline, claims the inbox row of (consumer, event_id), runs    *)
(* the handler and records the outcome in a second transaction.  What the  *)
(* middleware then sees decides the entry: a clean return acknowledges it, *)
(* an exception leaves it pending.                                         *)
(*                                                                         *)
(* Time advances by Tick.  Ages saturate where the guards stop telling     *)
(* them apart.  Two entries may carry the same event (the outbox delivers  *)
(* at least once): EventOf says which event an entry carries.              *)
(***************************************************************************)
EXTENDS Naturals, FiniteSets

CONSTANTS
    Groups,           \* consumer groups of the stream, one inbox consumer each
    Messages,         \* stream entries
    Malformed,        \* entries whose decoding fails before any handler runs
    EventIds,
    EventOf,          \* stable_event_id of an entry's payload
    Readers,          \* lanes that read new entries
    Reclaimers,       \* lanes that reclaim abandoned entries
    GroupOf,          \* the group of a lane
    None,             \* no entry
    MaxAttempts,      \* InboxConsumer.max_attempts
    MaxDeliveries,    \* MAX_DELIVERY_ATTEMPTS
    MinIdle,          \* redis_stream_min_idle_time_ms, in ticks
    AbandonAfter,     \* InboxConsumer.abandon_after, in ticks
    HandlerTimeout,   \* redis_stream_handler_timeout_seconds, in ticks
    MaxFaults         \* bound: lanes whose process dies, PostgreSQL or Redis
                      \* calls that raise

Lanes == Readers \cup Reclaimers

ASSUME EntriesAssumption ==
    /\ IsFiniteSet(Messages) /\ None \notin Messages /\ Malformed \subseteq Messages
    /\ EventOf \in [Messages -> EventIds]
ASSUME LanesAssumption ==
    /\ IsFiniteSet(Lanes) /\ Readers \cap Reclaimers = {}
    /\ GroupOf \in [Lanes -> Groups]
ASSUME LimitsAssumption ==
    /\ MaxAttempts \in Nat \ {0} /\ MaxDeliveries \in Nat \ {0}
    /\ MinIdle \in Nat \ {0} /\ AbandonAfter \in Nat \ {0}
    /\ HandlerTimeout \in Nat \ {0}
ASSUME BoundsAssumption == MaxFaults \in Nat

VARIABLES
    entry,      \* per group and entry: where it stands in the group, idle time
    row,        \* domain_event_inbox, per group and event
    lane,       \* each subscriber's local state within one delivery
    count,      \* lemma:stream-failure:<stream>:<message_id>
    spent,      \* how much of MaxFaults is used up
    runs,       \* handler runs that succeeded per group and event, 2 = many
    failures,   \* handler runs that failed, up to MaxAttempts
    takenOver,  \* groups and events whose claim was taken from an earlier run
    settled,    \* groups and events for which a settled outcome was recorded
    quarantined,\* groups and entries that were given up on
    errors,     \* failed deliveries of an entry, up to MaxDeliveries; an error
                \* that quarantine.py calls permanent counts for all of them
    own         \* the same within one group

ghosts == <<runs, failures, takenOver, settled, quarantined, errors, own>>

vars == <<entry, row, lane, count, spent, ghosts>>

Deliveries == Groups \X Messages
Consumptions == Groups \X EventIds

Final == {"COMPLETED", "TERMINAL", "DEAD_LETTER"}

Entries == [state: {"absent", "unread", "pending", "acked"}, idle: 0..MinIdle]

Rows == [status: {"ABSENT", "PROCESSING", "RETRYING"} \cup Final,
         attempts: 0..MaxAttempts, age: 0..AbandonAfter]

LaneStates ==
    [pc: {"idle", "delivered", "running", "finishing",
          "failing", "acking"},
     msg: Messages \cup {None},
     attempt: 0..MaxAttempts,                \* what _claim returned
     outcome: {"RETRYING"} \cup Final,       \* the status _finish will write
     permanent: BOOLEAN,                     \* is_permanent(error)
     ran: 0..HandlerTimeout]                 \* time under the handler deadline

TypeOK ==
    /\ entry \in [Deliveries -> Entries]
    /\ row \in [Consumptions -> Rows]
    /\ lane \in [Lanes -> LaneStates]
    /\ count \in [Messages -> 0..MaxDeliveries]
    /\ spent \in 0..MaxFaults
    /\ runs \in [Consumptions -> 0..2]
    /\ failures \in [Consumptions -> 0..MaxAttempts]
    /\ takenOver \in SUBSET Consumptions
    /\ settled \in SUBSET Consumptions
    /\ quarantined \in SUBSET Deliveries
    /\ errors \in [Messages -> 0..MaxDeliveries]
    /\ own \in [Deliveries -> 0..MaxDeliveries]

-----------------------------------------------------------------------------
Resting == [pc |-> "idle", msg |-> None, attempt |-> 0, outcome |-> "RETRYING",
            permanent |-> FALSE, ran |-> 0]

Init ==
    /\ entry = [d \in Deliveries |-> [state |-> "absent", idle |-> 0]]
    /\ row = [c \in Consumptions |->
                [status |-> "ABSENT", attempts |-> 0, age |-> 0]]
    /\ lane = [l \in Lanes |-> Resting]
    /\ count = [m \in Messages |-> 0]
    /\ spent = 0
    /\ runs = [c \in Consumptions |-> 0]
    /\ failures = [c \in Consumptions |-> 0]
    /\ takenOver = {} /\ settled = {} /\ quarantined = {}
    /\ errors = [m \in Messages |-> 0]
    /\ own = [d \in Deliveries |-> 0]

UpTo(limit, n) == IF n < limit THEN n + 1 ELSE limit

Strike == spent < MaxFaults /\ spent' = spent + 1

\* The (stream, group) entry and the (consumer, event_id) row of a delivery.
DeliveryOf(l) == <<GroupOf[l], lane[l].msg>>
ConsumptionOf(l) == <<GroupOf[l], EventOf[lane[l].msg]>>

\* The lane goes on to `pc`; all it still needs to know is the entry.
Proceed(l, pc) ==
    lane' = [lane EXCEPT ![l] = [Resting EXCEPT !.pc = pc, !.msg = lane[l].msg]]

\* The delivery ends: the middleware above leaves the entry pending.
Release(l) == lane' = [lane EXCEPT ![l] = Resting]

Worse(n, permanent) == IF permanent THEN MaxDeliveries ELSE UpTo(MaxDeliveries, n)

\* An exception leaves the handler or the inbox.
ErrorSeen(l, permanent) ==
    /\ errors' = [errors EXCEPT ![lane[l].msg] = Worse(@, permanent)]
    /\ own' = [own EXCEPT ![DeliveryOf(l)] = Worse(@, permanent)]

Raise(l, permanent) ==
    /\ lane' = [lane EXCEPT ![l] = [Resting EXCEPT !.pc = "failing",
                                     !.msg = lane[l].msg, !.permanent = permanent]]
    /\ ErrorSeen(l, permanent)

-----------------------------------------------------------------------------
\* message_bus.publish: every declared group exists before the XADD.
Append(m) ==
    /\ \A g \in Groups : entry[<<g, m>>].state = "absent"
    /\ entry' = [d \in Deliveries |->
                   IF d[2] = m THEN [entry[d] EXCEPT !.state = "unread"] ELSE entry[d]]
    /\ UNCHANGED <<row, lane, count, spent, ghosts>>

Deliver(l, m) ==
    /\ lane[l].pc = "idle"
    /\ entry' = [entry EXCEPT ![<<GroupOf[l], m>>] = [state |-> "pending", idle |-> 0]]
    /\ lane' = [lane EXCEPT ![l] = [Resting EXCEPT !.pc = "delivered", !.msg = m]]
    /\ UNCHANGED <<row, count, spent, ghosts>>

\* XREADGROUP with ">": the entry enters the group's pending-entries list.
Read(l, m) ==
    /\ l \in Readers
    /\ entry[<<GroupOf[l], m>>].state = "unread"
    /\ Deliver(l, m)

\* XAUTOCLAIM resets the idle time and delivers the entry again.
Reclaim(l, m) ==
    /\ l \in Reclaimers
    /\ entry[<<GroupOf[l], m>>].state = "pending"
    /\ entry[<<GroupOf[l], m>>].idle = MinIdle
    /\ Deliver(l, m)

-----------------------------------------------------------------------------
\* Variants a plausible bug would give the definitions below.
InFlight_Never(c) == FALSE

ClaimHeld_RefreshesTheClaim(l) ==
    /\ lane[l].pc = "delivered" /\ lane[l].msg \notin Malformed
    /\ row[ConsumptionOf(l)].status = "PROCESSING"
    /\ row[ConsumptionOf(l)].age < AbandonAfter
    /\ row' = [row EXCEPT ![ConsumptionOf(l)].age = 0]
    /\ Release(l)
    /\ UNCHANGED <<entry, count, spent, ghosts>>

OutcomeOfFailure_OneLate(l) ==
    IF lane[l].attempt > MaxAttempts THEN "DEAD_LETTER" ELSE "RETRYING"

OutcomeOfFailure_OneEarly(l) ==
    IF lane[l].attempt + 1 >= MaxAttempts THEN "DEAD_LETTER" ELSE "RETRYING"

FinishFails_IsSwallowed(l) ==
    /\ lane[l].pc = "finishing"
    /\ IF lane[l].ran = HandlerTimeout THEN UNCHANGED spent ELSE Strike
    /\ Proceed(l, "acking")
    /\ UNCHANGED <<entry, row, count, ghosts>>

-----------------------------------------------------------------------------
\* Another run holds the row, as far as its age tells.
InFlight(c) == row[c].status = "PROCESSING" /\ row[c].age < AbandonAfter

Claimed(r) == [r EXCEPT !.status = "PROCESSING", !.age = 0]

ClaimRow(c) ==
    /\ row' = [row EXCEPT ![c] = Claimed(@)]
    /\ takenOver' = IF row[c].status = "PROCESSING" /\ row[c].age = AbandonAfter
                    THEN takenOver \cup {c} ELSE takenOver

Claiming(l) == lane[l].pc = "delivered" /\ lane[l].msg \notin Malformed

\* _claim returned an attempt number.
ClaimRuns(l) ==
    LET c == ConsumptionOf(l) IN
    /\ Claiming(l)
    /\ row[c].status \notin Final /\ ~InFlight(c)
    /\ ClaimRow(c)
    /\ lane' = [lane EXCEPT ![l].pc = "running", ![l].attempt = row[c].attempts + 1]
    /\ UNCHANGED <<entry, count, spent,
                   runs, failures, settled, quarantined, errors, own>>

\* ALREADY_SETTLED: a clean return, the middleware acknowledges.
ClaimSettled(l) ==
    /\ Claiming(l)
    /\ row[ConsumptionOf(l)].status \in Final
    /\ Proceed(l, "acking")
    /\ UNCHANGED <<entry, row, count, spent, ghosts>>

\* IN_FLIGHT_ELSEWHERE: NackMessage, which is not counted as a failure.
ClaimHeld(l) ==
    /\ Claiming(l)
    /\ InFlight(ConsumptionOf(l))
    /\ Release(l)
    /\ UNCHANGED <<entry, row, count, spent, ghosts>>

\* The claim's transaction raises, its commit having taken effect or not.
ClaimFails(l) ==
    LET c == ConsumptionOf(l) IN
    /\ Claiming(l)
    /\ Strike
    /\ Raise(l, FALSE)
    /\ \/ UNCHANGED <<row, takenOver>>
       \/ row[c].status \notin Final /\ ~InFlight(c) /\ ClaimRow(c)
    /\ UNCHANGED <<entry, count, runs, failures, settled, quarantined>>

\* The body does not decode: the handler, and so the inbox, never sees it.
DecodeFails(l) ==
    /\ lane[l].pc = "delivered" /\ lane[l].msg \in Malformed
    /\ Raise(l, TRUE)
    /\ UNCHANGED <<entry, row, count, spent,
                   runs, failures, takenOver, settled, quarantined>>

-----------------------------------------------------------------------------
Finishing(l, outcome) ==
    lane' = [lane EXCEPT ![l].pc = "finishing", ![l].outcome = outcome]

HandlerSucceeds(l) ==
    /\ lane[l].pc = "running"
    /\ Finishing(l, "COMPLETED")
    /\ runs' = [runs EXCEPT ![ConsumptionOf(l)] = UpTo(2, @)]
    /\ UNCHANGED <<entry, row, count, spent,
                   failures, takenOver, settled, quarantined, errors, own>>

\* A ValidationError, or a DomainError other than 503: recorded as TERMINAL.
HandlerRejects(l) ==
    /\ lane[l].pc = "running"
    /\ Finishing(l, "TERMINAL")
    /\ UNCHANGED <<entry, row, count, spent, ghosts>>

\* _retry_or_dead_letter.
OutcomeOfFailure(l) ==
    IF lane[l].attempt >= MaxAttempts THEN "DEAD_LETTER" ELSE "RETRYING"

\* Any other exception.
HandlerFails(l) ==
    /\ lane[l].pc = "running"
    /\ Finishing(l, OutcomeOfFailure(l))
    /\ failures' = [failures EXCEPT ![ConsumptionOf(l)] = UpTo(MaxAttempts, @)]
    /\ UNCHANGED <<entry, row, count, spent,
                   runs, takenOver, settled, quarantined, errors, own>>

\* asyncio.timeout cancels the handler.  process() lets a real cancellation
\* through, so the attempt is not counted and the row stays PROCESSING.
HandlerTimesOut(l) ==
    /\ lane[l].pc = "running" /\ lane[l].ran = HandlerTimeout
    /\ Raise(l, FALSE)
    /\ UNCHANGED <<entry, row, count, spent,
                   runs, failures, takenOver, settled, quarantined>>

\* The row as _finish leaves it: whatever its status was, and whoever holds it.
Recorded(r, l) ==
    [r EXCEPT !.status = lane[l].outcome, !.age = 0,
              !.attempts = IF lane[l].outcome \in {"RETRYING", "DEAD_LETTER"}
                           THEN lane[l].attempt ELSE @]

Record(l) ==
    /\ row' = [row EXCEPT ![ConsumptionOf(l)] = Recorded(@, l)]
    /\ settled' = IF lane[l].outcome \in Final
                  THEN settled \cup {ConsumptionOf(l)} ELSE settled

\* A failure that will be retried is raised again after it was recorded: it may
\* be one that quarantine.py calls permanent, a JSONDecodeError for instance.
Finish(l) ==
    /\ lane[l].pc = "finishing"
    /\ Record(l)
    /\ IF lane[l].outcome \in Final
       THEN Proceed(l, "acking") /\ UNCHANGED <<errors, own>>
       ELSE \E permanent \in BOOLEAN : Raise(l, permanent)
    /\ UNCHANGED <<entry, count, spent, runs, failures, takenOver, quarantined>>

\* Its transaction raises, or the deadline strikes while it runs.  The error
\* being recorded may be the context by which is_permanent judges the new one.
FinishFails(l) ==
    /\ lane[l].pc = "finishing"
    /\ IF lane[l].ran = HandlerTimeout THEN UNCHANGED spent ELSE Strike
    /\ \E permanent \in BOOLEAN :
          Raise(l, permanent) /\ (permanent => lane[l].outcome # "COMPLETED")
    /\ Record(l) \/ UNCHANGED <<row, settled>>
    /\ UNCHANGED <<entry, count, runs, failures, takenOver, quarantined>>

-----------------------------------------------------------------------------
\* _quarantine: the write to the dead-letter stream is best effort, what
\* follows is a clean return.
GiveUp(l) == Proceed(l, "acking") /\ quarantined' = quarantined \cup {DeliveryOf(l)}

\* _fail: a permanent error is not counted.
QuarantinePermanent(l) ==
    /\ lane[l].pc = "failing" /\ lane[l].permanent
    /\ GiveUp(l)
    /\ UNCHANGED <<entry, row, count, spent,
                   runs, failures, takenOver, settled, errors, own>>

\* _record_failure: one counter per entry, for all groups together.
CountFailure(l) ==
    LET m == lane[l].msg IN
    /\ lane[l].pc = "failing" /\ ~lane[l].permanent
    /\ count' = [count EXCEPT ![m] = UpTo(MaxDeliveries, @)]
    /\ IF count'[m] >= MaxDeliveries THEN GiveUp(l)
       ELSE Release(l) /\ UNCHANGED quarantined
    /\ UNCHANGED <<entry, row, spent,
                   runs, failures, takenOver, settled, errors, own>>

\* Redis is not reachable: the count is lost and the entry stays pending.
CounterUnavailable(l) ==
    /\ lane[l].pc = "failing" /\ ~lane[l].permanent
    /\ Strike
    /\ Release(l)
    /\ UNCHANGED <<entry, row, count, ghosts>>

\* XACK: the only thing that takes an entry off the pending-entries list.
Ack(l) ==
    /\ lane[l].pc = "acking"
    /\ entry' = [entry EXCEPT ![DeliveryOf(l)] = [state |-> "acked", idle |-> 0]]
    /\ Release(l)
    /\ UNCHANGED <<row, count, spent, ghosts>>

AckFails(l) ==
    /\ lane[l].pc = "acking"
    /\ Strike
    /\ Release(l)
    /\ UNCHANGED <<entry, row, count, ghosts>>

\* The process dies; a new one takes its place with the same lanes.
Crash(l) ==
    /\ lane[l].pc # "idle"
    /\ Strike
    /\ Release(l)
    /\ UNCHANGED <<entry, row, count, ghosts>>

Tick ==
    /\ entry' = [d \in Deliveries |->
                   IF entry[d].state = "pending"
                   THEN [entry[d] EXCEPT !.idle = UpTo(MinIdle, @)] ELSE entry[d]]
    /\ row' = [c \in Consumptions |->
                 IF row[c].status = "PROCESSING"
                 THEN [row[c] EXCEPT !.age = UpTo(AbandonAfter, @)] ELSE row[c]]
    /\ lane' = [l \in Lanes |->
                  IF lane[l].pc \in {"running", "finishing"}
                  THEN [lane[l] EXCEPT !.ran = UpTo(HandlerTimeout, @)] ELSE lane[l]]
    /\ UNCHANGED <<count, spent, ghosts>>

-----------------------------------------------------------------------------
RunDelivery(l) ==
    \/ ClaimRuns(l) \/ ClaimSettled(l) \/ ClaimHeld(l) \/ DecodeFails(l)
    \/ HandlerSucceeds(l) \/ HandlerRejects(l) \/ HandlerFails(l)
    \/ HandlerTimesOut(l)
    \/ Finish(l) \/ QuarantinePermanent(l) \/ CountFailure(l) \/ Ack(l)

Fault(l) ==
    \/ ClaimFails(l) \/ FinishFails(l) \/ CounterUnavailable(l) \/ AckFails(l)
    \/ Crash(l)

Next ==
    \/ \E m \in Messages : Append(m)
    \/ \E l \in Lanes, m \in Messages : Read(l, m) \/ Reclaim(l, m)
    \/ \E l \in Lanes : RunDelivery(l) \/ Fault(l)
    \/ Tick

Spec == Init /\ [][Next]_vars

\* Lanes keep reading and a delivery keeps moving: its handler answers or the
\* deadline ends it.  Time passes.
Fairness ==
    /\ \A l \in Lanes : WF_vars(RunDelivery(l))
    /\ \A l \in Readers : WF_vars(\E m \in Messages : Read(l, m))
    /\ \A l \in Reclaimers, m \in Messages : SF_vars(Reclaim(l, m))
    /\ WF_vars(Tick)

FairSpec == Spec /\ Fairness
-----------------------------------------------------------------------------
Consumption(d) == <<d[1], EventOf[d[2]]>>

Running(l) == lane[l].pc \in {"running", "finishing"}

\* An entry leaves the pending-entries list only once somebody recorded a
\* final outcome for its event or the entry was given up on: no interleaving
\* of a dying worker, a held claim and a redelivery drops it
\* (ClaimOutcome.IN_FLIGHT_ELSEWHERE, inbox.py:202-218).
NothingDropped ==
    \A d \in Deliveries :
        entry[d].state = "acked" => Consumption(d) \in settled \/ d \in quarantined

\* Two lanes run a handler for the same event and group only when the later
\* one took over a claim that was AbandonAfter old, and only then does a handler
\* succeed twice for one event: redelivery, duplicate entries and reclaiming
\* never overlap otherwise (_claim, inbox.py:342-354).
RunsExclusively ==
    /\ \A k, l \in Lanes :
          k # l /\ Running(k) /\ Running(l) /\ ConsumptionOf(k) = ConsumptionOf(l)
              => ConsumptionOf(l) \in takenOver
    /\ \A c \in Consumptions : runs[c] > 1 => c \in takenOver

\* The inbox dead-letters an event only after max_attempts handler failures,
\* although attempts are counted from the snapshot the claim returned
\* (_retry_or_dead_letter, inbox.py:370-380).
DeadLetterIsEarned ==
    \A c \in Consumptions :
        /\ row[c].attempts <= failures[c]
        /\ row[c].status = "DEAD_LETTER" => failures[c] >= MaxAttempts

\* An entry is quarantined only for a permanent error or after
\* MAX_DELIVERY_ATTEMPTS errors; deliveries handed back because the claim is
\* held are not among them (consume_scope, quarantine.py:158-169).
QuarantineIsEarned ==
    \A d \in quarantined : errors[d[2]] >= MaxDeliveries

\* Both ways of giving up, by the inbox's count and by the stream's, are earned.
GivingUpIsEarned == DeadLetterIsEarned /\ QuarantineIsEarned

\* The same with the errors of the group that gives up: what quarantine.py
\* says of a message.
QuarantineIsEarnedByGroup ==
    \A d \in quarantined : own[d] >= MaxDeliveries

\* A final status stays: inbox.py:61-63 says that redelivering a settled event
\* "would only find the same answer".
SettledIsFinal ==
    [][\A c \in Consumptions :
         row[c].status \in Final => row'[c].status = row[c].status]_vars

\* An acknowledged entry has its outcome in the inbox.
AckedHasOutcome ==
    \A d \in Deliveries : entry[d].state = "acked" => Consumption(d) \in settled

\* Every entry a group was given is in the end acknowledged, which it then stays:
\* held claims age out, hanging handlers are ended, failing ones are given up on.
EventuallyAcked ==
    []<>(\A d \in Deliveries : entry[d].state \in {"absent", "acked"})
=============================================================================
