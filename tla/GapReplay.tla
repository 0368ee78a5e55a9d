----------------------------- MODULE GapReplay -----------------------------
(***************************************************************************)
(* What the memory budget takes from a consumer group and how it is given  *)
(* back: stream_budget.py trims a stream, gap_replay.py records the window *)
(* a group lost and re-queues its outbox rows, stream_guard.py runs both   *)
(* in every worker process.  One stream and one group, as gaps are kept    *)
(* per stream and group.                                                   *)
(*                                                                         *)
(* A stream id is its entry's place in the log, and time is counted in     *)
(* entries ever appended, so ids, published_at, and the three fields of a  *)
(* gap are on one clock, as their milliseconds are in the code.  Each call *)
(* to Redis or PostgreSQL that another process can come between is a step. *)
(***************************************************************************)
EXTENDS Naturals, Sequences, FiniteSets

CONSTANTS
    Events,      \* rows of domain_event_outbox of this stream, in the order of creation
    Guards,      \* guard loops: one in every worker
    None,        \* no gap recorded
    Batch,       \* redis_stream_gap_replay_batch_size
    Skew,        \* _CLOCK_SKEW_MS
    MaxAppends,  \* bound on entries ever appended
    MaxTrims,    \* bound on passes that find the budget exceeded, and other trims
    MaxFaults    \* bound on guard steps that fail and guards that die

ASSUME EventsAssumption == Events \subseteq Nat
ASSUME BatchAssumption == Batch \in Nat \ {0}
ASSUME SkewAssumption == Skew \in Nat \ {0}
ASSUME NoneAssumption == None \notin [after : Nat, until : Nat, recorded : Nat]
ASSUME BoundsAssumption == MaxAppends \in Nat /\ MaxTrims \in Nat /\ MaxFaults \in Nat

VARIABLES
    log,       \* every entry ever appended, [1..now -> Events]
    first,     \* the first id still in the stream, now + 1 when it is empty
    pos,       \* the group's last-delivered-id
    pending,   \* the group's delivered, unacknowledged ids
    handled,   \* events whose inbox row is COMPLETED
    active,    \* a reader of the group read something within the stall seconds
    row,       \* published_at of each row, 0 for NULL
    unmarked,  \* appended ids whose rows are not marked published yet
    gap,       \* the gap record of the group: after, until, recorded
    guard,     \* per guard: pc, what its pass has read, the rows it has locked,
               \* and whether another's last batch was short for them
    lapses,    \* history: how a loss may have escaped the record
    trims, faults

vars == <<log, first, pos, pending, handled, active, row, unmarked, gap, guard, lapses,
          trims, faults>>
groupVars  == <<pos, pending, handled, active>>
outboxVars == <<log, row, unmarked>>

now == Len(log)

PCs == {"idle", "over", "consumed", "trimmed", "enforced",
        "replaying", "requeueing", "deleting"}
Lapses == {"read on", "overtaken", "marked late", "rolled back"}
Times == 0 .. MaxAppends + 1
Gaps == [after : Times, until : Times, recorded : Times]
Surveys == [last : Times, pos : Times, oldest : Times, room : BOOLEAN]
NoSurvey == [last |-> 0, pos |-> 0, oldest |-> 0, room |-> FALSE]
Passes == [pc : PCs, seen : Surveys, gap : Gaps \cup {None}, batch : SUBSET Events,
           passed : BOOLEAN]

TypeOK ==
    /\ log \in Seq(Events) /\ now <= MaxAppends
    /\ first \in 1 .. now + 1 /\ pos \in 0 .. now
    /\ pending \subseteq 1 .. pos /\ unmarked \subseteq 1 .. now
    /\ handled \subseteq Events /\ active \in BOOLEAN
    /\ row \in [Events -> 0 .. now]
    /\ gap \in Gaps \cup {None}
    /\ gap # None => gap.after <= gap.until /\ gap.recorded <= now
    /\ guard \in [Guards -> Passes]
    /\ lapses \subseteq Lapses
    /\ trims \in 0 .. MaxTrims /\ faults \in 0 .. MaxFaults

Resting == [pc |-> "idle", seen |-> NoSurvey, gap |-> None, batch |-> {}, passed |-> FALSE]

Init ==
    /\ log = << >> /\ first = 1
    /\ pos = 0 /\ pending = {} /\ handled = {} /\ active = FALSE
    /\ row = [e \in Events |-> 0] /\ unmarked = {}
    /\ gap = None
    /\ guard = [g \in Guards |-> Resting]
    /\ lapses = {} /\ trims = 0 /\ faults = 0

Least(a, b) == IF a < b THEN a ELSE b
Most(a, b) == IF a < b THEN b ELSE a
LeastOf(S) == CHOOSE i \in S : \A j \in S : i <= j

(* ---- The outbox dispatcher --------------------------------------------- *)

(* An unpublished row is appended, new rows in order.  Marking a batch, and   *)
(* a pass of a guard up to its trim, take less than Skew, which is what     *)
(* _CLOCK_SKEW_MS says of the former.                                       *)
Timely ==
    /\ \A i \in unmarked : now - i < Skew
    /\ \A g \in Guards :
          guard[g].pc \in {"over", "consumed"} => now - guard[g].seen.last < Skew

Publish(e) ==
    /\ row[e] = 0 /\ ~\E i \in unmarked : log[i] = e
    /\ \A older \in Events : older < e => \E i \in 1 .. now : log[i] = older
    /\ now < MaxAppends /\ Timely /\ lapses = {}
    /\ log' = Append(log, e)
    /\ unmarked' = unmarked \cup {now + 1}
    /\ UNCHANGED <<first, groupVars, row, gap, guard, lapses, trims, faults>>

MarkPublished(i) ==
    /\ i \in unmarked
    /\ row' = [row EXCEPT ![log[i]] = now]
    /\ unmarked' = unmarked \ {i}
    /\ UNCHANGED <<log, first, groupVars, gap, guard, lapses, trims, faults>>

(* ---- The consumer group -------------------------------------------------- *)

(* The record, or a guard about to write it, has the span of ids in it.      *)
Spans(r, from, to) == r # None /\ r.after <= from /\ to <= r.until
Recorded(from, to) ==
    \/ Spans(gap, from, to)
    \/ \E g \in Guards : guard[g].pc = "trimmed" /\ Spans(guard[g].gap, from, to)

(* Reading hands out the next surviving entry; what was trimmed before it    *)
(* is then no longer visible in the group's lag.                            *)
Read ==
    LET next == Most(pos + 1, first)
    IN  /\ next <= now
        /\ pos' = next
        /\ pending' = pending \cup {next} /\ active' = TRUE
        /\ lapses' = lapses \cup (IF pos + 1 < first /\ ~Recorded(pos, first)
                                  THEN {"read on"} ELSE {})
        /\ UNCHANGED <<outboxVars, first, handled, gap, guard, trims, faults>>

Handle(i) ==
    /\ i \in pending
    /\ pending' = pending \ {i}
    /\ handled' = handled \cup {log[i]}
    /\ UNCHANGED <<outboxVars, first, pos, active, gap, guard, lapses, trims, faults>>

(* XAUTOCLAIM drops a pending id whose entry is no longer in the stream.     *)
ReclaimTrimmed(i) ==
    /\ i \in pending /\ i < first
    /\ pending' = pending \ {i}
    /\ lapses' = lapses \cup (IF Recorded(i - 1, first) THEN {} ELSE {"read on"})
    /\ UNCHANGED <<outboxVars, first, pos, handled, active, gap, guard, trims, faults>>

(* redis_stream_stall_seconds pass without a read, which is time for all that *)
(* is at hand: there is nothing to read, to finish or to mark.              *)
FallsSilent ==
    /\ Most(pos + 1, first) > now /\ pending = {} /\ unmarked = {}
    /\ active /\ active' = FALSE
    /\ UNCHANGED <<outboxVars, first, pos, pending, handled, gap, guard, lapses, trims,
                   faults>>

(* A trim takes an entry whose row is not marked yet: the mark may come after *)
(* the gap is recorded, and then falls outside the window.                  *)
Unmarked(kept) ==
    IF \E i \in unmarked : i < kept /\ log[i] \notin handled THEN {"marked late"} ELSE {}

(* An append at the hard ceiling, or an operator, trims and records nothing. *)
TrimElsewhere ==
    /\ trims < MaxTrims
    /\ trims' = trims + 1
    /\ \E kept \in first + 1 .. now + 1 : first' = kept /\ lapses' = lapses \cup Unmarked(kept)
    /\ UNCHANGED <<outboxVars, groupVars, gap, guard, faults>>

(* ---- Variants a plausible bug would give the definitions below ---------- *)

Widened_ClockAhead(after, until) == [after |-> after, until |-> until, recorded |-> now + 1]

Watermark_ReadPosition(seen) == seen.pos

Window_Exact(r) == {t \in 1 .. now : r.after < t /\ t < r.until /\ t <= r.recorded}

ReplayOver_Always(count) == TRUE

(* ---- A pass of the guard --------------------------------------------------- *)

(* A step that makes no call is taken with the one before it.                *)
At(g, pc) == guard[g].pc = pc
Goto(g, pc, seen, lost) ==
    guard' = [guard EXCEPT ![g] =
                [Resting EXCEPT !.pc = pc, !.seen = seen, !.gap = lost]]
EndPass(g) == guard' = [guard EXCEPT ![g] = Resting]

(* _needed_after: just before the oldest entry the group still needs. *)
NeededAfter(seen) == IF seen.oldest = 0 THEN seen.pos ELSE Least(seen.pos, seen.oldest - 1)

(* observed_gaps: a lag longer than the stream, or a pending id before it,   *)
(* proves a loss whoever caused it.                                         *)
LossSeen(seen) ==
    \/ seen.last - seen.pos > seen.last + 1 - first
    \/ seen.oldest # 0 /\ seen.oldest < first

(* consumed_watermark: the oldest delivery not acknowledged, or the position. *)
Watermark(seen) == IF seen.oldest = 0 THEN seen.pos ELSE seen.oldest

(* A group that had no room at the survey is left for a later pass.          *)
ReplayPhase(g, seen) ==
    IF seen.room THEN Goto(g, "enforced", NoSurvey, None) ELSE EndPass(g)

(* enforce_stream_budget: within budget, or over it and with entries to drop *)
(* that every group has read, or with none.                                 *)
BudgetPhase(g, seen) ==
    \/ trims' = trims /\ ReplayPhase(g, seen)
    \/ /\ trims < MaxTrims /\ trims' = trims + 1
       /\ Goto(g, IF first <= Watermark(seen) THEN "over" ELSE "consumed", seen, None)

(* The merge of _RECORD_GAP_LUA: a second trim widens the first's window.    *)
Widened(after, until) ==
    IF gap = None THEN [after |-> after, until |-> until, recorded |-> now]
    ELSE [after    |-> Least(gap.after, after),
          until    |-> Most(gap.until, until),
          recorded |-> IF after < gap.after \/ gap.until < until THEN now ELSE gap.recorded]

(* _group_can_take_more: the group has less than a batch of backlog, and its *)
(* readers are not silent and have read before.                             *)
Room == active /\ now - pos < Batch

(* read_stream_states, and the record of what is certainly lost, which is    *)
(* later only by a few reads.  A behaviour is followed to its first lapse.  *)
Survey(g) ==
    /\ At(g, "idle") /\ lapses = {}
    /\ LET seen == [last |-> now, pos |-> pos, room |-> Room,
                    oldest |-> IF pending = {} THEN 0 ELSE LeastOf(pending)]
       IN  /\ gap' = IF LossSeen(seen) THEN Widened(NeededAfter(seen), first) ELSE gap
           /\ BudgetPhase(g, seen)
    /\ UNCHANGED <<outboxVars, first, groupVars, lapses, faults>>

(* _trim_consumed: XTRIM MINID keeps the watermark itself, and being         *)
(* approximate may keep more.                                               *)
TrimConsumed(g) ==
    /\ At(g, "over")
    /\ \E kept \in first .. Most(first, Watermark(guard[g].seen)) : first' = kept
    /\ \/ Goto(g, "consumed", guard[g].seen, None)
       \/ ReplayPhase(g, guard[g].seen)
    /\ UNCHANGED <<outboxVars, groupVars, gap, lapses, trims, faults>>

(* _trim_unread, still over budget: the length kept was worked out from the  *)
(* survey.  The loss is computed against the survey's group, and against    *)
(* the survey's last id when the stream came out empty.                     *)
Lost(seen, kept) ==
    LET bound == IF kept <= now THEN kept ELSE seen.last + 1
    IN  IF NeededAfter(seen) + 1 < bound
        THEN [after |-> NeededAfter(seen), until |-> bound, recorded |-> now] ELSE None

TrimUnread(g) ==
    /\ At(g, "consumed")
    /\ \E kept \in first .. now + 1 :
          LET lost == Lost(guard[g].seen, kept)
          IN  /\ first' = kept /\ lapses' = lapses \cup Unmarked(kept)
              /\ IF lost = None THEN ReplayPhase(g, guard[g].seen)
                 ELSE Goto(g, "trimmed", [NoSurvey EXCEPT !.room = guard[g].seen.room], lost)
    /\ UNCHANGED <<outboxVars, groupVars, gap, trims, faults>>

(* _enforce_budget records what its trims took. *)
RecordTrimmed(g) ==
    /\ At(g, "trimmed")
    /\ gap' = Widened(guard[g].gap.after, guard[g].gap.until)
    /\ ReplayPhase(g, guard[g].seen)
    /\ UNCHANGED <<outboxVars, first, groupVars, lapses, trims, faults>>

(* recorded_gaps. *)
ReadGap(g) ==
    /\ At(g, "enforced")
    /\ IF gap = None THEN EndPass(g) ELSE Goto(g, "replaying", NoSurvey, gap)
    /\ UNCHANGED <<outboxVars, first, groupVars, gap, lapses, trims, faults>>

(* replay_window, and the batches requeue_outbox_window takes from rows: the *)
(* oldest come first, and a batch that is short takes all of them.          *)
Window(r) == {t \in 1 .. now : r.after <= t + Skew /\ t <= Least(r.until + Skew, r.recorded)}
InWindow(r) == {e \in Events : row[e] \in Window(r)}
Batches(S) ==
    {b \in SUBSET S :
        /\ Cardinality(b) = Least(Batch, Cardinality(S))
        /\ \A e \in b, later \in S \ b : row[e] <= row[later]}
ReplayOver(count) == count < Batch

(* FOR UPDATE SKIP LOCKED: rows another guard's transaction holds are passed *)
(* over, and a batch may be short for that.  With no row the transaction is *)
(* over at once.                                                            *)
SelectWindow(g) ==
    /\ At(g, "replaying")
    /\ LET rows == InWindow(guard[g].gap)
           locked == UNION {guard[h].batch : h \in Guards}
       IN  \E b \in Batches(rows \ locked) :
               guard' = [h \in Guards |->
                   IF h = g
                   THEN [Resting EXCEPT !.pc = IF b = {} THEN "deleting" ELSE "requeueing",
                                        !.gap = guard[g].gap, !.batch = b]
                   ELSE [guard[h] EXCEPT
                            !.passed = @ \/ (ReplayOver(Cardinality(b))
                                              /\ guard[h].batch \cap rows # {})]]
    /\ UNCHANGED <<outboxVars, first, groupVars, gap, lapses, trims, faults>>

(* The batch is re-queued at the commit; a short one was the last.           *)
RequeueWindow(g) ==
    /\ At(g, "requeueing")
    /\ row' = [e \in Events |-> IF e \in guard[g].batch THEN 0 ELSE row[e]]
    /\ IF ReplayOver(Cardinality(guard[g].batch))
       THEN Goto(g, "deleting", NoSurvey, guard[g].gap)
       ELSE EndPass(g)
    /\ UNCHANGED <<log, unmarked, first, groupVars, gap, lapses, trims, faults>>

(* The key is deleted, whatever it holds by now. *)
DeleteGap(g) ==
    /\ At(g, "deleting")
    /\ gap' = None
    /\ lapses' = lapses \cup (IF gap \in {None, guard[g].gap} THEN {} ELSE {"overtaken"})
    /\ EndPass(g)
    /\ UNCHANGED <<outboxVars, first, groupVars, trims, faults>>

(* A trim that is not recorded, after the group went on. *)
Unrecorded(g) ==
    IF /\ At(g, "trimmed")
       /\ \E i \in 1 .. pos \ pending : guard[g].gap.after < i /\ log[i] \notin handled
    THEN {"read on"} ELSE {}

(* A batch that is rolled back after another guard took its own for the last. *)
RolledBack(g) == IF guard[g].passed THEN {"rolled back"} ELSE {}

(* A failing Redis call costs a step its effect, and a worker that dies the  *)
(* rest of the pass: record_gap reports and goes on, a trim that fails is   *)
(* skipped, a batch that cannot be committed is rolled back, a gap replayed *)
(* but not deleted is replayed again.  A pass cut short elsewhere has done  *)
(* nothing yet.                                                             *)
StepFails(g) ==
    /\ guard[g].pc \in {"over", "trimmed", "requeueing", "deleting"} /\ faults < MaxFaults
    /\ faults' = faults + 1
    /\ CASE At(g, "over")    -> Goto(g, "consumed", guard[g].seen, None)
         [] At(g, "trimmed") -> ReplayPhase(g, guard[g].seen)
         [] OTHER            -> EndPass(g)
    /\ lapses' = lapses \cup Unrecorded(g) \cup RolledBack(g)
    /\ UNCHANGED <<outboxVars, first, groupVars, gap, trims>>

Crash(g) ==
    /\ guard[g].pc \in {"over", "trimmed", "requeueing", "deleting"} /\ faults < MaxFaults
    /\ faults' = faults + 1
    /\ EndPass(g)
    /\ lapses' = lapses \cup Unrecorded(g) \cup RolledBack(g)
    /\ UNCHANGED <<outboxVars, first, groupVars, gap, trims>>

Pass(g) ==
    \/ Survey(g)
    \/ TrimConsumed(g) \/ TrimUnread(g) \/ RecordTrimmed(g)
    \/ ReadGap(g) \/ SelectWindow(g) \/ RequeueWindow(g) \/ DeleteGap(g)

Dispatch == (\E e \in Events : Publish(e)) \/ (\E i \in 1 .. now : MarkPublished(i))
Consume ==
    \/ Read
    \/ \E i \in 1 .. now : Handle(i)
    \/ \E i \in 1 .. now : ReclaimTrimmed(i)

Next ==
    \/ Dispatch
    \/ Consume
    \/ FallsSilent
    \/ TrimElsewhere
    \/ \E g \in Guards : Pass(g) \/ StepFails(g) \/ Crash(g)

Spec == Init /\ [][Next]_vars

(* Dispatcher, consumers and the guard loops keep running; between two passes *)
(* the first two come to rest.                                              *)
Fairness ==
    /\ WF_vars(Dispatch \/ Consume)
    /\ \A g \in Guards : WF_vars(Pass(g))

FairSpec == Spec /\ Fairness

(* ---- Properties ---------------------------------------------------------- *)

(* An event the group has yet to handle is where it will be found.           *)
Unpublished(e) == row[e] = 0 /\ ~\E i \in unmarked : log[i] = e
OfGroup(e) == \E i \in 1 .. now : log[i] = e /\ (pos < i \/ i \in pending)
AboutToRecord(e) ==
    \E g \in Guards, i \in 1 .. now :
        /\ At(g, "trimmed")
        /\ log[i] = e /\ guard[g].gap.after < i /\ i < guard[g].gap.until + Skew
AboutToRequeue(e) == \E g \in Guards : e \in guard[g].batch
Kept(e) ==
    \/ e \in handled \/ Unpublished(e) \/ OfGroup(e)
    \/ AboutToRecord(e) \/ AboutToRequeue(e)
    \/ gap # None /\ e \in InWindow(gap)

(* "Never misses one" (gap_replay.py:46-49).  *)
NothingForgotten == \A e \in Events : Kept(e)

(* What a trim takes from the group stays within the reach of a replay until *)
(* it is handled, unless the group read on before the loss was recorded,    *)
(* another guard's record was deleted with the one replayed, a lost entry's *)
(* row was not marked published yet when it was trimmed, or a guard's batch *)
(* was rolled back after another had taken a shorter one for the last.      *)
LossIsRecoverable == lapses = {} => NothingForgotten

(* "Never misses one" of a window that two guards replay: a batch that is     *)
(* rolled back is replayed by another, which passed over its locked rows.   *)
RolledBackIsReplayed == lapses \subseteq {"rolled back"} => NothingForgotten

(* Phase 1 of a trim costs nobody anything, though its watermark was read    *)
(* before other guards trimmed and the group went on: an entry that was     *)
(* delivered and failed is still there for its second try.                  *)
ConsumedTrimIsFree ==
    [][(\E g \in Guards : At(g, "over") /\ guard'[g] # guard[g])
           => \A i \in first .. first' - 1 : i <= pos /\ i \notin pending]_vars

(* The bound on appends holds back a row. *)
OutOfBound == now = MaxAppends /\ \E e \in Events : Unpublished(e)

(* The trim left nothing to read, nothing is to be published, and the group   *)
(* has a lag of a batch or readers that were silent too long: only other     *)
(* traffic lets the group read, which opens the gate of its replay.         *)
Starved ==
    /\ Most(pos + 1, first) > now /\ \A e \in Events : row[e] # 0
    /\ Batch <= now - pos \/ ~active

(* The group handles every event, trimmed ones from their replay.            *)
EventuallyHandled == <>(handled = Events \/ lapses # {} \/ OutOfBound \/ Starved)

(* "This module re-publishes that window from the outbox once the group is   *)
(* reading again" (gap_replay.py:7), and a group that lost all it had to    *)
(* read is no exception.                                                    *)
HandledWithoutTraffic == <>(handled = Events \/ lapses # {} \/ OutOfBound)

=============================================================================
