---------------------------- MODULE ScheduleRuns ----------------------------
(***************************************************************************)
(* The run ledger of one schedule: a fire is claimed, its target launched, *)
(* the target's outcome recorded and counted by the breaker, and a sweep   *)
(* repairs what the events left wrong (app/modules/schedule/repositories/  *)
(* schedule_run_repository.py, services/run_outcome_service.py and         *)
(* run_recovery_service.py; workflow/services/schedule_start_service.py).  *)
(*                                                                         *)
(* row is what is committed.  A worker stages its change of one row under  *)
(* the row's lock; start_run commits the claim together with the target.   *)
(* Every age the code compares (60 s, 5 min, the re-inspection interval)   *)
(* is one notion here: a row becomes stale some time after it was written. *)
(***************************************************************************)
EXTENDS Naturals, FiniteSets

CONSTANTS
    Occurrences,   \* the source events of the schedule
    Workers,       \* jobs, outcome consumers, the sweep
    OneShot,       \* BOOLEAN: a schedule that fires once
    MaxAttempts,
    Threshold,     \* schedule_max_consecutive_failures
    MaxFaults,     \* launches that raise, workers that die, reports lost
    MaxLost,       \* fires whose job raises before it commits anything
    MaxByHand      \* times somebody pauses, reactivates, retries or replies

\* A redrive is a row of its own that refers to the first.
Rows == Occurrences \X {"first", "redrive"}

ASSUME SetsAssumption ==
    IsFiniteSet(Occurrences) /\ Occurrences # {} /\ IsFiniteSet(Workers)
ASSUME LimitsAssumption ==
    /\ OneShot \in BOOLEAN /\ MaxAttempts \in Nat \ {0} /\ Threshold \in Nat \ {0}
    /\ MaxFaults \in Nat /\ MaxLost \in Nat /\ MaxByHand \in Nat

VARIABLES
    active,     \* schedules.is_active
    streak,     \* schedules.consecutive_failures
    row,        \* the ledger
    stale,      \* rows old enough to be claimed again or swept
    target,     \* the workflow run or conversation behind target_run_id
    fired,      \* occurrences that came due
    fire,       \* a ScheduleFired or its job is on its way
    report,     \* the target's terminal event is on its way
    worker,
    clock,      \* orders completed_at
    forgiven,   \* history: the failures recorded when it was last reactivated
    started,    \* history: targets launched for a row
    skipped,    \* history: rows whose last fire met a paused schedule
    ends,       \* history: what each target ended with, and when
    faults, lost, byHand

vars == <<active, streak, row, stale, target, fired, fire, report, worker, clock,
          forgiven, started, skipped, ends, faults, lost, byHand>>

Outcomes == {"COMPLETED", "TARGET_FAILED", "CANCELLED"}
Statuses == {"absent", "RECEIVED", "PROCESSING", "DISPATCHED", "FAILED", "DEAD_LETTERED"}
Row == [status : Statuses, outcome : Outcomes \cup {"none"}, attempts : 0..MaxAttempts,
        completed : Nat]
Absent == [status |-> "absent", outcome |-> "none", attempts |-> 0, completed |-> 0]
AtRest == [at |-> "idle", row |-> CHOOSE r \in Rows : TRUE, staged |-> Absent, cause |-> "none"]

TypeOK ==
    /\ active \in BOOLEAN /\ streak \in Nat
    /\ row \in [Rows -> Row] /\ stale \in SUBSET Rows
    /\ target \in [Rows -> [status : {"none", "running"} \cup Outcomes, at : 0..clock]]
    /\ fired \in SUBSET Occurrences /\ fire \in SUBSET Rows /\ report \in SUBSET Rows
    /\ worker \in [Workers -> [at : {"idle", "claimed", "launched", "settling"}, row : Rows,
                               staged : Row, cause : {"none", "fire", "report", "sweep"}]]
    /\ clock \in Nat /\ forgiven \in SUBSET Rows /\ started \in [Rows -> Nat]
    /\ skipped \in SUBSET Rows /\ ends \in [Rows -> SUBSET (Outcomes \X Nat)]
    /\ faults \in 0..MaxFaults /\ lost \in 0..MaxLost /\ byHand \in 0..MaxByHand

Init ==
    /\ active = TRUE /\ streak = 0
    /\ row = [r \in Rows |-> Absent] /\ stale = {}
    /\ target = [r \in Rows |-> [status |-> "none", at |-> 0]]
    /\ fired = {} /\ fire = {} /\ report = {}
    /\ worker = [w \in Workers |-> AtRest]
    /\ clock = 0 /\ forgiven = {} /\ started = [r \in Rows |-> 0]
    /\ skipped = {} /\ ends = [r \in Rows |-> {}] /\ faults = 0 /\ lost = 0 /\ byHand = 0

bounds == <<faults, lost, byHand>>
schedule == <<active, streak, forgiven>>
history == <<started, skipped, ends>>

-----------------------------------------------------------------------------
IsIdle(w) == worker[w].at = "idle"
Unlocked(r) == \A w \in Workers : worker[w].at \in {"claimed", "settling"} => worker[w].row # r
Turns(w, at, r, staged, cause) ==
    worker' = [worker EXCEPT ![w] = [at |-> at, row |-> r, staged |-> staged, cause |-> cause]]
Rests(w) == worker' = [worker EXCEPT ![w] = AtRest]
Writes(r, new) == row' = [row EXCEPT ![r] = new] /\ stale' = stale \ {r}
Faulty == faults < MaxFaults /\ faults' = faults + 1 /\ UNCHANGED <<lost, byHand>>

\* consecutive_terminal_failures: FAILED rows are passed over.
IsFailure(e) == IF e.outcome = "none" THEN e.status = "DEAD_LETTERED" ELSE e.outcome = "TARGET_FAILED"
IsSuccess(e) == e.outcome \in {"COMPLETED", "CANCELLED"}
Streak(ledger) ==
    Cardinality({r \in Rows :
        /\ IsFailure(ledger[r])
        /\ \A s \in Rows : IsSuccess(ledger[s]) => ledger[s].completed < ledger[r].completed})

\* A terminal change is staged, and committed with the recount it triggers.
Settles(w, r, new, cause) == Turns(w, "settling", r, new, cause)
DeadLettered(e) == [e EXCEPT !.status = "DEAD_LETTERED", !.completed = clock + 1]

-----------------------------------------------------------------------------
\* Variants a plausible bug would give the definitions below.
Reserved_NewIdPerClaim(r) == target[r].status = "running"

Concluded_AlwaysCompleted(e, r) ==
    [e EXCEPT !.outcome = "COMPLETED", !.completed = target[r].at]

Recount_AddsOne(ledger) ==
    /\ streak' = streak + Cardinality({r \in Rows : IsFailure(ledger[r]) /\ ~IsFailure(row[r])})
    /\ active' = (active /\ streak' < Threshold)

GivenUp_OneLate(e) == e.attempts > MaxAttempts

Redeliver_RowOnly(r) ==
    /\ target[r].status = "none" /\ row[r].attempts < MaxAttempts
    /\ Writes(r, [row[r] EXCEPT !.status = "RECEIVED", !.completed = 0])
    /\ UNCHANGED <<worker, fire, clock>>

Swept_NotFailed(r) ==
    active /\ row[r].outcome = "none" /\ r \in stale
    /\ row[r].status \in {"PROCESSING", "DISPATCHED"}

-----------------------------------------------------------------------------
\* The poller, a webhook or a row change; a one-shot retires as it is claimed.
Fire(o) ==
    /\ active /\ o \notin fired
    /\ fired' = fired \cup {o} /\ fire' = fire \cup {<<o, "first">>}
    /\ active' = ~OneShot
    /\ UNCHANGED <<streak, row, stale, target, report, worker, clock, forgiven, history, bounds>>

\* The attempts of a row are spent.
GivenUp(e) == e.attempts >= MaxAttempts

\* _accept_inactive_one_time_fire knows the id of the cron fire only.
Accepts(r) == active \/ (OneShot /\ r[2] = "first")

Claimable(r) ==
    /\ row[r].outcome = "none"
    /\ \/ row[r].status \in {"absent", "RECEIVED", "FAILED"}
       \/ row[r].status = "PROCESSING" /\ r \in stale

Attempted(e) == [e EXCEPT !.status = "PROCESSING", !.attempts = @ + 1, !.completed = 0]

\* handle_schedule_fired up to the claim, which is not committed yet.
Claim(w, r) ==
    /\ IsIdle(w) /\ r \in fire /\ Unlocked(r)
    /\ fire' = fire \ {r}
    /\ skipped' = IF Accepts(r) THEN skipped \ {r} ELSE skipped \cup {r}
    /\ IF ~Accepts(r) \/ ~Claimable(r) THEN UNCHANGED <<worker, clock>>
       ELSE IF GivenUp(row[r])
            THEN Settles(w, r, DeadLettered(row[r]), "fire") /\ clock' = clock + 1
            ELSE Turns(w, "claimed", r, Attempted(row[r]), "fire") /\ UNCHANGED clock
    /\ UNCHANGED <<schedule, row, stale, target, fired, report, started, ends, bounds>>

\* Whether start_run finds a run under the reserved id and returns it.
Reserved(r) == target[r].status # "none"

\* start_run commits; for an agent mark_dispatched follows in the same breath.
Launch(w) ==
    /\ worker[w].at = "claimed"
    /\ LET r == worker[w].row IN
           /\ Writes(r, worker[w].staged)
           /\ IF Reserved(r) THEN UNCHANGED <<target, started>>
              ELSE /\ target' = [target EXCEPT ![r] = [status |-> "running", at |-> 0]]
                   /\ started' = [started EXCEPT ![r] = @ + 1]
           /\ Turns(w, "launched", r, Absent, "fire")
    /\ UNCHANGED <<schedule, fired, fire, report, clock, skipped, ends, bounds>>

\* mark_dispatched, then record_fire commits.
MarkDispatched(w) ==
    /\ worker[w].at = "launched" /\ Unlocked(worker[w].row)
    /\ LET r == worker[w].row IN
           IF row[r].status = "PROCESSING"
           THEN Writes(r, [row[r] EXCEPT !.status = "DISPATCHED"])
           ELSE UNCHANGED <<row, stale>>
    /\ Rests(w)
    /\ UNCHANGED <<schedule, target, fired, fire, report, clock, history, bounds>>

\* The target could not be started, or something raised after it was.
FailWith(w, r, e) ==
    IF e.outcome # "none" \/ e.status # "PROCESSING"
    THEN Rests(w) /\ UNCHANGED <<row, stale, clock>>
    ELSE IF GivenUp(e)
         THEN /\ Settles(w, r, DeadLettered(e), "fire")
              /\ clock' = clock + 1 /\ UNCHANGED <<row, stale>>
         ELSE /\ Writes(r, [e EXCEPT !.status = "FAILED"])
              /\ Rests(w) /\ UNCHANGED clock

MarkFailed(w) ==
    /\ \/ worker[w].at = "claimed" /\ FailWith(w, worker[w].row, worker[w].staged)
       \/ /\ worker[w].at = "launched" /\ Unlocked(worker[w].row)
          /\ FailWith(w, worker[w].row, row[worker[w].row])
    /\ Faulty
    /\ UNCHANGED <<schedule, target, fired, fire, report, history>>

-----------------------------------------------------------------------------
\* set_consecutive_failures and deactivate_if_active, under the schedule's lock.
Recount(ledger) ==
    /\ streak' = Streak(ledger)
    /\ active' = (active /\ Streak(ledger) < Threshold)

CommitSettled(w) ==
    /\ worker[w].at = "settling"
    /\ Writes(worker[w].row, worker[w].staged)
    /\ Recount(row')
    /\ Rests(w)
    /\ UNCHANGED <<forgiven, target, fired, fire, report, clock, history, bounds>>

\* The process dies: what was staged is gone, the queue and the stream deliver
\* the job or the event again, and the sweep comes round.
Crash(w) ==
    /\ ~IsIdle(w) /\ Faulty
    /\ fire' = IF worker[w].cause = "fire" THEN fire \cup {worker[w].row} ELSE fire
    /\ report' = IF worker[w].cause = "report" THEN report \cup {worker[w].row} ELSE report
    /\ Rests(w)
    /\ UNCHANGED <<schedule, row, stale, target, fired, clock, history>>

\* The target comes to a final status, and an event says that it ended.
TargetEnds(r) ==
    /\ target[r].status = "running"
    /\ \E outcome \in Outcomes :
           /\ target' = [target EXCEPT ![r] = [status |-> outcome, at |-> clock + 1]]
           /\ ends' = [ends EXCEPT ![r] = @ \cup {<<outcome, clock + 1>>}]
    /\ clock' = clock + 1
    /\ report' = report \cup {r}
    /\ UNCHANGED <<schedule, row, stale, fired, fire, worker, started, skipped, bounds>>

\* A reply gives a conversation that had ended a run of its own; it ends again.  A
\* workflow run ends once: nobody replies to it.
TargetRunsAgain(r) ==
    /\ target[r].status \in Outcomes
    /\ byHand < MaxByHand /\ byHand' = byHand + 1
    /\ target' = [target EXCEPT ![r] = [status |-> "running", at |-> 0]]
    /\ UNCHANGED <<schedule, row, stale, fired, fire, report, worker, clock, history,
                   faults, lost>>

Concluded(e, r) == [e EXCEPT !.outcome = target[r].status, !.completed = target[r].at]

\* transition_target_outcome looks at these statuses only.
Reportable(r) == row[r].outcome = "none" /\ row[r].status \in {"PROCESSING", "DISPATCHED"}

\* record_target_outcome, with what the target shows when its event is handled: a
\* conversation that runs again is not interesting.  (Events of several ends of one
\* target are one event: each of them reads the target, and the first to be recorded
\* is the only one.)
Report(w, r) ==
    /\ IsIdle(w) /\ r \in report /\ Unlocked(r)
    /\ report' = report \ {r}
    /\ IF target[r].status \in Outcomes /\ Reportable(r)
       THEN Settles(w, r, Concluded(row[r], r), "report")
       ELSE UNCHANGED worker
    /\ UNCHANGED <<schedule, row, stale, target, fired, fire, clock, history, bounds>>

LoseReport(r) ==
    /\ r \in report /\ Faulty
    /\ report' = report \ {r}
    /\ UNCHANGED <<schedule, row, stale, target, fired, fire, worker, clock, history>>

\* The job raises before its first commit, and the queue does not retry it.
LoseFire(r) ==
    /\ r \in fire /\ lost < MaxLost
    /\ lost' = lost + 1
    /\ fire' = fire \ {r}
    /\ UNCHANGED <<schedule, row, stale, target, fired, report, worker, clock, history, faults, byHand>>

\* The same fire is published or delivered once more.
DuplicateFire(r) ==
    /\ r[1] \in fired /\ row[r].status # "absent" /\ r \notin fire /\ Faulty
    /\ fire' = fire \cup {r}
    /\ UNCHANGED <<schedule, row, stale, target, fired, report, worker, clock, history>>

Age(r) ==
    /\ r \notin stale /\ row[r].status # "absent"
    /\ stale' = stale \cup {r}
    /\ UNCHANGED <<schedule, row, target, fired, fire, report, worker, clock, history, bounds>>

-----------------------------------------------------------------------------
\* _claim_due_rows.
Swept(r) ==
    /\ active /\ row[r].outcome = "none" /\ r \in stale
    /\ row[r].status \in {"PROCESSING", "FAILED", "DISPATCHED"}

\* _repair_in_flight; inspecting a row that is in order makes it wait its turn.
RepairInFlight(r) ==
    /\ target[r].status = "running"
    /\ Writes(r, [row[r] EXCEPT !.status = "DISPATCHED", !.completed = 0])
    /\ UNCHANGED <<worker, fire, clock>>

SettleAgainstTarget(w, r) ==
    /\ target[r].status \in Outcomes
    /\ Settles(w, r, Concluded([row[r] EXCEPT !.status = "DISPATCHED"], r), "sweep")
    /\ UNCHANGED <<row, stale, fire, clock>>

\* _abandon_reason: the attempts are spent, or the moment is long past.
Abandon(w, r) ==
    /\ target[r].status = "none"
    /\ Settles(w, r, DeadLettered(row[r]), "sweep")
    /\ clock' = clock + 1
    /\ UNCHANGED <<row, stale, fire>>

Redeliver(r) ==
    /\ target[r].status = "none" /\ ~GivenUp(row[r])
    /\ Writes(r, [row[r] EXCEPT !.status = "RECEIVED", !.completed = 0])
    /\ fire' = fire \cup {r}
    /\ UNCHANGED <<worker, clock>>

Sweep(w, r) ==
    /\ IsIdle(w) /\ Swept(r) /\ Unlocked(r)
    /\ \/ RepairInFlight(r) \/ SettleAgainstTarget(w, r)
       \/ Abandon(w, r) \/ Redeliver(r)
    /\ UNCHANGED <<schedule, target, fired, report, history, bounds>>

Retryable(e) == IsFailure(e) \/ (e.outcome = "none" /\ e.status = "FAILED")

\* retry_schedule_run.
Redrive(o) ==
    LET r == <<o, "redrive">> IN
    /\ row[r] = Absent /\ Retryable(row[<<o, "first">>]) /\ Unlocked(<<o, "first">>)
    /\ byHand < MaxByHand /\ byHand' = byHand + 1
    /\ Writes(r, [Absent EXCEPT !.status = "RECEIVED"])
    /\ fire' = fire \cup {r}
    /\ UNCHANGED <<schedule, target, fired, report, worker, clock, history, faults, lost>>

\* update_schedule with is_active; reactivation resets the column.
Toggle ==
    /\ ~OneShot /\ byHand < MaxByHand
    /\ byHand' = byHand + 1
    /\ active' = ~active
    /\ IF active THEN UNCHANGED <<streak, forgiven>>
       ELSE streak' = 0 /\ forgiven' = {r \in Rows : IsFailure(row[r])}
    /\ UNCHANGED <<row, stale, target, fired, fire, report, worker, clock, history, faults, lost>>

-----------------------------------------------------------------------------
Next ==
    \/ \E o \in Occurrences : Fire(o) \/ Redrive(o)
    \/ \E w \in Workers, r \in Rows : Claim(w, r) \/ Report(w, r) \/ Sweep(w, r)
    \/ \E w \in Workers : \/ Launch(w) \/ MarkDispatched(w) \/ MarkFailed(w)
                          \/ CommitSettled(w) \/ Crash(w)
    \/ \E r \in Rows : \/ TargetEnds(r) \/ TargetRunsAgain(r) \/ LoseReport(r)
                       \/ LoseFire(r) \/ DuplicateFire(r) \/ Age(r)
    \/ Toggle

Spec == Init /\ [][Next]_vars

\* Workers finish what they began, deliveries arrive, the sweep comes round.
Fairness ==
    /\ \A w \in Workers : WF_vars(Launch(w) \/ MarkDispatched(w) \/ CommitSettled(w))
    /\ SF_vars(\E w \in Workers, r \in Rows : Claim(w, r))
    /\ SF_vars(\E w \in Workers, r \in Rows : Report(w, r))
    /\ SF_vars(\E w \in Workers, r \in Rows : Sweep(w, r))
    /\ WF_vars(\E r \in Rows : Age(r)) /\ WF_vars(\E r \in Rows : TargetEnds(r))

FairSpec == Spec /\ Fairness

-----------------------------------------------------------------------------
\* However often a fire is delivered, retried or swept, and whoever dies in
\* between, its target is launched once ("the system shall do the work once
\* for a given trigger", PS-SCHED-020): the claim reserves the target's id.
StartedOnce == \A r \in Rows : started[r] <= 1

\* The ledger never says of a target what the target did not do: what it records
\* is one end of the target, its outcome with its time, although the launch, the
\* outcome event and the sweep reach the row in any order and a reply may have the
\* target running again between the end, its event and the commit.
OutcomeIsTruth ==
    \A r \in Rows : row[r].outcome # "none" =>
        <<row[r].outcome, row[r].completed>> \in ends[r]

\* Unless a reactivation forgave failures, the column counts what the ledger shows,
\* and a schedule at its threshold is off: outcomes committed by different workers at
\* once are all counted (run_outcome_service.py, _apply_breaker).
BreakerTracksLedger ==
    forgiven = {} => /\ streak = Streak(row)
                     /\ active => streak < Threshold

\* A row nobody has reported on is still in somebody's hands: a fire that may
\* claim it, a worker that holds it, or a status the sweep selects.  None is
\* stranded, as long as no fire is lost and none comes while the schedule is
\* paused (the sweep re-arms a row as RECEIVED, a status it does not select again).
NoneStranded ==
    \A r \in Rows :
        lost = 0 /\ r \notin skipped /\ row[r].status = "RECEIVED"
            => r \in fire \/ \E w \in Workers : worker[w].at # "idle" /\ worker[w].row = r

\* A fire that reached the ledger is in the end reported on or given up on,
\* however the launch, the report and the process fail ("the safety net",
\* recover_schedule_runs), unless the schedule is off, a fire came while it was,
\* or a fire the stream had accepted is lost.
Concludes(r) == row[r].outcome # "none" \/ row[r].status = "DEAD_LETTERED"
EveryFireConcludes ==
    <>[](active /\ lost = 0 =>
            \A r \in Rows : row[r].status # "absent" /\ r \notin skipped => Concludes(r))

\* "Reactivating a schedule clears its circuit-breaker failure streak so a
\* re-enabled schedule starts fresh" (schedule_service.py): the breaker trips
\* only on failures recorded after it.
FreshAfterReactivation ==
    [][active /\ ~active' /\ row' # row
        => Cardinality({r \in Rows \ forgiven : IsFailure(row'[r])}) >= Threshold]_vars

\* "If a firing fails for a reason that might pass, then the system shall retry
\* it" (PS-SCHED-022).
FailedIsRetried ==
    \A r \in Rows : row[r].status = "FAILED" ~> row[r].status # "FAILED"

\* "When a person retries a failed firing by hand, the system shall run it
\* again" (PS-SCHED-022).
HandRetryRuns ==
    \A o \in Occurrences :
        row[<<o, "redrive">>].status = "RECEIVED" ~> row[<<o, "redrive">>].status # "RECEIVED"

\* The outcome of a fire is that of the run it started, not of a later reply:
\* nothing says so, "a conversation outlives the runs inside it"
\* (target_outcome_consumer.py).
FirstEndCounts ==
    \A r \in Rows : row[r].outcome # "none" =>
        \A end \in ends[r] : row[r].completed <= end[2]

=============================================================================
