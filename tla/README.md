# Verification of the Lemma platform

TLA+ specifications of Lemma, the TLC runs that check them on small instances,
and TLAPS proofs of the properties that must hold for every instance. Paths are
relative to the repository unless they name a module of this directory;
`events/` abbreviates `lemma-backend/app/core/infrastructure/events/`.

1. [The system](#the-system)  2. [Plan](#plan)  3. [Modules](#modules)
4. [Runs](#runs)  5. [Fairness](#fairness)  6. [Proofs](#proofs)
7. [Where code and documentation disagree](#where-code-and-documentation-disagree)
8. [Limits](#limits)

## The system

Lemma is a FastAPI backend (API and worker processes of one code base), a set of
TypeScript clients, a CLI and SDKs, and Rust desktop programs that run agents
and a local copy of the stack. ARCHITECTURE.md ("How work moves") describes the
spine all backend modules share: a state change and its domain events commit in
one PostgreSQL transaction, dispatchers move the events to Redis Streams, and
consumer groups handle each event at least once behind a durable inbox.

### Event transport

| Part | State | Operations | Correct when |
|---|---|---|---|
| Unit of work (`core/infrastructure/db/uow.py`) | pending events, callbacks | commit, rollback | events become visible exactly with the state change |
| Outbox and dispatcher (`events/outbox.py`) | `domain_event_outbox`; per process the claimed batch and what was published or failed of it; the stream guard's pressure flag | claim, publish, mark published, mark failed, replay, pause | no event is lost; a duplicate has a cause; dead letters are earned; outcomes are final; everything settles |
| Wake listener (`events/outbox_wake.py`) | a LISTEN connection, an `asyncio.Event` | connect, serve, notify, disconnect | no lost wake-up; without notifications the poll still finds the work |
| Stream subscribers (`events/stream_subscriber.py`) | consumer groups, their pending-entries lists | read new, reclaim idle, ensure groups | entries stay pending until they are acknowledged |
| Inbox (`events/inbox.py`) | `domain_event_inbox` per (consumer, event) | claim, run handler, finish, retry or dead-letter | one run at a time, no run after success, nothing acknowledged that still has to be done |
| Quarantine (`events/quarantine.py`) | failure counter per entry, dead-letter stream | handler deadline, count, give up, acknowledge | given up only if it cannot succeed or failed often enough |
| Stream guard, budget, gap replay, group reaper (`events/stream_*.py`, `gap_replay.py`, `group_reaper.py`) | stream lengths, gap records, claims of groups, pressure flag | trim, record a gap, re-queue a window, destroy an abandoned group | what a trim takes from a reader is replayed; no live group is destroyed |
| Retention (`events/retention.py`) | both tables | delete settled rows | nothing unsettled is deleted |

Interactions: `commit` inserts the row and issues the NOTIFY in one transaction;
the dispatcher's claim is the only delivery channel, the wake only says when to
look; `publish` ensures the groups and appends; FastStream hands an entry to a
lane and acknowledges it when the middleware stack returns cleanly; quarantine
sits inside the acknowledgement and around the inbox, the inbox around the
handler.

Hard behaviour: every step is a transaction or network call of its own, so
leases can expire, processes die, a publish or a commit take effect without an
answer, and operators replay rows, between any two of them. Handlers may hang
for longer than the time after which their claim counts as abandoned.

### Jobs and modules on top of the transport

* **Background jobs** (`core/infrastructure/jobs/`): streaq queues with lanes,
  deterministic job ids, heartbeats per job, a watchdog that ends a process
  whose lane died. Every module below hands work to them and repairs with a
  cron what the queue or the events lose.
* **Schedules** (`modules/schedule/`): the `schedule_runs` ledger (claim,
  dispatch, target outcome), the breaker that counts failures, a recovery sweep.
  Correct when a fire is worked once, the ledger tells what the target did, and
  no row is stranded. Hard: outcomes that overtake the dispatch, redelivery,
  processes that die between launch and record.
* **Functions** (`modules/function/`, the function server of `sandbox_runtime/`):
  one row per run; dispatch, callback, cancel, republish and deadline sweep race
  for it. Correct when user code begins once, one terminal event leaves the run,
  and a run ends whatever is lost.
* **Workflows** (`modules/workflow/`): a run suspends on waits (a person, a
  timer, a function, an agent) and is woken by completion jobs, leased timers, a
  sweep. Correct when each step is resumed once with its own result, a live run
  has one live wait, and a lost wake is recovered.
* **Agents** (`modules/agent/`): a conversation, its messages, and the runs that
  answer them; a message may join the active run, a run may pause on a question,
  be stopped, die, be swept. Correct when one run is active at a time, the
  conversation shows it, and no message is left unanswered without a reason.
* **Surfaces** (`modules/agent_surfaces/`), **workspaces**
  (`modules/workspace/`), **usage**, **datastore, pods, pod bundles, connectors,
  apps, identity, icons, analytics, web login**: translation, provisioning
  through external providers, receipts, and request and response over
  PostgreSQL, object storage or a third party.

### Programs outside the backend

The desktop agent host (journal and link to the backend), `locald` (process
ledger and supervision of the local stack), the virtual-machine runtime, the
Tauri shell, the platform crates, the frontend, CLI, SDKs, self-hosting stack,
bundle library, harness, skills and scripts. Apart
from the first two they are interfaces, wrappers or generated code.

PROJECT.json lists every component with its status and every hazard at the line
where it bites.

## Plan

The order followed what depends on it most: the transport first (outbox, wake,
inbox, then the guard that trims streams and replays what a trim took), then the
modules whose correctness rests on it (workflow runs and their waits, schedule
runs, function runs, agent turns). Each module models one protocol around one row
or one conversation, because the code locks or fences per row; what another
component does to it appears as an action with the guard that component has.

What composes what:

    EventDelivery  <== EventOutbox  ---- EventOutboxProofs
    (abstract)         OutboxWake   ---- OutboxWakeProofs
                       EventInbox   ---- EventInboxProofs
                       GapReplay    ---- GapReplayProofs
                         (outbox rows, stream, group, guards)
                       WorkflowRuns ---- WorkflowRunsProofs
                       WaitSweep    ----/
                         (one run; the waits of all runs)
                       ScheduleRuns ---- ScheduleRunsProofs
                       FunctionRun  ---- FunctionRunProofs
                         (dispatchers, queue, sandbox, callback, cron)
                       AgentTurns   ---- AgentTurnsProofs

Every safety and action property of the passing runs is proved. Left to do: the
outbox, stream and inbox composed as one pipeline; retention and the reaper of
consumer groups on top of it; the sandbox life cycle and the agent host's journal.

## Modules

### EventOutbox

One row per event: `stored`, `published`, `dead`, `due` (`available_at <= now`),
`attempts`, `owner`, `live` (`lease_until > now`). One record per dispatcher: `todo`
is the rest of the batch, `done` and `failed` are the lists `published` and
`failed` of `dispatch_once`, `snap` the `attempts` each `ClaimedEvent` was read
with. Events are numbered in claim order, so `LIMIT batch_size` takes the
smallest.

| Action | Code |
|---|---|
| `Stage` | `SqlAlchemyUnitOfWork.commit` |
| `CheckPressure`, `ClaimBatch` | one pass of `run`: `_paused_for_memory`, `_claim_batch` |
| `PublishOk`, `PublishError` | `_publish_to_bus`; an error may come after the XADD took effect |
| `MarkPublishedMany`, `MarkFailed` | the two fenced updates |
| `DatabaseFault` | an exception that leaves `dispatch_once`, wherever it talks to PostgreSQL |
| `Crash` | the process dies or is cancelled; a restarted process is a new dispatcher because `owner` is random |
| `LeaseOverrun`, `LeaseAbandoned`, `BecomeDue` | time passes `lease_until`, `available_at` |
| `ReplayOutboxEvent` | `replay_outbox_event`; on a published row also `requeue_outbox_window` |
| `PressureRises`, `PressureClears` | `update_memory_pressure` |

History variables: `sent` (entries appended since the row was queued, 0, 1,
many), `failures` (publish errors since then), `disturbed` (a lease ended, a
publish was ambiguous, or a replay met a dispatcher that still had the row to
publish). `disturbed` is what a duplicate is allowed to be explained by.

### OutboxWake

The dispatcher as a loop (`claiming`, `dispatching`, `empty`, `waiting`,
`woken`), the `wake` event, the connection (`down`, `registered`, `serving`,
`deaf`) and one bit for notifications in flight, which PostgreSQL merges and
drops when nobody listens. `quiet` records the ready rows nobody was told about:
rows that became ready without a commit (a lease or back-off that ended, a
replay) or while no connection could carry the hint.

### EventInbox

A *lane* is one subscriber of one process, reading (`XREADGROUP >`) or
reclaiming (`XAUTOCLAIM`). State: per group and entry, whether it is unread,
pending (and how long idle) or acknowledged; per group and event, the inbox row
with `attempts` and the age of `last_received_at`; per lane, where its delivery
stands; the failure counter per entry. The stack of one delivery is

    acknowledgement (FastStream)  Ack, AckFails
      quarantine + deadline       HandlerTimesOut, DecodeFails, CountFailure,
                                  QuarantinePermanent, CounterUnavailable
        inbox                     ClaimRuns, ClaimSettled, ClaimHeld, ClaimFails,
                                  Finish, FinishFails
          handler                 HandlerSucceeds, HandlerRejects, HandlerFails

and each transaction is one action, so another lane, a crash or a tick of the
clock fits between any two. `EventOf` lets two entries carry one event, which is
what an outbox that publishes twice produces. `IN_FLIGHT_ELSEWHERE` releases the
lane without counting, `ALREADY_SETTLED` goes on to the acknowledgement. A
failed attempt that may be retried is recorded *and* raised, so it is counted
twice over: by `attempts` in the row and by the counter of the entry.

External behaviour, taken from how the code uses it: an entry read by a group
is pending until XACK; XAUTOCLAIM takes entries idle for `min_idle_time` and
resets the idle time; FastStream acknowledges after a clean return and does
nothing for an entry whose delivery raised.

### EventDelivery

`EventDelivery` is what the outbox promises whoever raises or consumes events:
per event a status (`absent`, `pending`, `delivered`, `abandoned`), the entries
appended, the errors, and whether a second entry is excused. No lease, batch or
dispatcher appears in it. `EventOutbox.Promise` instantiates it with a refinement
mapping (`Status`, `Seen`), the run `outbox` checks `KeepsPromise == Promise!Spec`
on the implementation, and `EventOutboxProofs` proves it.

### GapReplay

One stream, one group, and the guard loop of several workers. An id is an
entry's place in the log and time is counted in entries ever appended, so ids,
`published_at` and the fields of a gap record are on one clock, with `_CLOCK_SKEW_MS`
as `Skew`. A pass of a guard is `Survey`, `TrimConsumed`, `TrimUnread`,
`RecordTrimmed` (the trim, then the record of what a group lost), `ReadGap`,
`SelectWindow`, `RequeueWindow`, `DeleteGap`; another guard, a dispatcher or a
consumer may come between any two. `requeue_outbox_window` is two steps, the select
FOR UPDATE SKIP LOCKED and the commit: in between the rows are locked, another
guard's batch passes over them and may be short for that alone, and a failure or a
death rolls the batch back. `ReplayPhase` is the gate `_group_can_take_more`: the
group had less than a batch of backlog and readers that were not silent (`active`,
which `Read` sets and `FallsSilent` clears). A group falls silent in the model only
with nothing at hand: silence with work at hand ends with the next read and only
puts a replay off, as a pass that comes later does. `TrimElsewhere` is the MAXLEN of an
append. `lapses` is a history variable that names how a loss may have escaped the
record; behaviours are followed up to the first lapse.

### WorkflowRuns and WaitSweep

`WorkflowRuns` is one run with the suspensions it meets (`Flow`), the rows of its
waits, the work behind them, and jobs that read a wait, queue for the run's lock,
and act on what they read. Resume, timer, sweep, failure and cancellation are the
paths of `engine.py`, `wait_failure.py`, `run_resume_service.py` and
`due_wait_claimer.py`; dispatching a function commits in a transaction of its own
while the run's is open. History: whose result each step got, how often its
function was dispatched, how many terminal events left the run.

`WaitSweep` is the sweep over the waits of all runs in periods of its cron: what
its batch selects, what it expires and what it reconciles. In both modules a function
run may end by being cancelled, which the sweep reads as RUNNING (`hidden`, and the
result `cancelled`): its completion event fails the run, and when that is lost the
wait is left to its ceiling. A function run that no longer exists is no such case,
the sweep fails its wait (run_resume_service.py:411).

### ScheduleRuns

The ledger rows of one schedule (a first fire and its redrive by hand), the
target behind each, the fire and the report on their way, and workers that stage
a row's change before they commit it. `Claim`, `Launch`, `MarkDispatched`, `Report`,
`Sweep`, the breaker's recount and reactivation are translated from
`schedule_run_repository.py`, `schedule_start_service.py`,
`run_outcome_service.py` and `run_recovery_service.py`. Every age the code compares
is one notion, `stale`. `TargetEnds` brings a target to a final status;
`TargetRunsAgain` is the reply to a conversation that had ended, which gives it another
run, so that a report may find a target that is running again or has ended
differently. History: `ends` collects every end of a target with its time, `started`
counts the launches of a row's target, `skipped` holds the rows whose fire came while
the schedule was paused and was dropped.

### FunctionRun

One run: its row, dispatchers (API requests or workers) step by step from
`resolved` to `delivered`, the queue with its deterministic task id, the
invocation, the user code, the callback, the cancel request and the cron. Time
is the age of the run in the thresholds the code compares it with (`YOUNG`,
`STRANDED`, `EXPIRED`, `GRACE_OVER`). The last of these is one threshold for two
constants of the code, the sandbox's callback grace (runner.py:31) and the sweep's
(runtime_policy.py:3), so whether they agree is no question this module can ask.
`ends` collects the terminal events.

### AgentTurns

One conversation. `status` is `agent_runs.status` per run, `conv` the
conversation's; `msg` the person's messages with the run they were sent to and the
run that claimed them; `asked` and `decided` the open and answered questions; `job`
what the queue knows of `agent-run:<id>`; `events` what the agent stream still has
to deliver. A run may end by a pausing call or by a final answer that names the
conversation's status itself; `waits` says what a WAITING conversation waits for: an
answer to a `call`, the person's next `words`, or nothing any more (`late`).

| Action | Code |
|---|---|
| `Join`, `Send` | `TurnCoordinator.start`, with and without an active run |
| `StopRun`, `StopPause` | `stop_conversation`, with and without an active run |
| `Decide`, `Resume` | `resolve_user_approval_internal`, then `start_resume_run_if_ready` |
| `JobStarts`, `Steer`, `Ask`, `Ends` | `AgentRunnerService.execute`, the steering capability, the event pump |
| `BeginFinish`, `Finish`, `FinishFails` | `finish_agent_run`: the SELECT, the write with its event, the swallowed failure |
| `HandleStarted`, `HandleStop`, `HandleCompleted`, `FollowUp`, `FollowUpFails` | `_process_agent_control_event` and the follow-up for queued messages |
| `WorkerDies`, `Sweep`, `SweepErrs` | job liveness and `reconcile_orphaned_agent_runs`, and its false alarm |

`finish_agent_run` reads the run's row without a lock and writes it at the
commit, so a finish is a record in `finishes` in between, with what it `saw`. A
worker, the stop handler and the sweep may each have one.

## Runs

| Run | Shows | Instance | States |
|---|---|---|---|
| `outbox` | types, explained duplicates, earned dead letters, `KeepsPromise` (refinement) and `EventuallySettled`, all faults at once | 1 row, 2 dispatchers, 2 attempts; 1 crash, 1 fault, 2 overruns, 2 replays, 1 pause | 165,726 |
| `outbox_wake` | no notification is lost; the poll finds what none announced | 2 rows, unbounded disconnections | 724 |
| `inbox` | nothing dropped, exclusive runs, earned dead letters and quarantines, everything acknowledged in the end | a good and a malformed entry, a reading and a reclaiming lane, 1 fault of any kind, handlers that fail, hang, overrun | 293,186 |
| `inbox_late_finish` | counterexample: a settled row changes | 1 entry | |
| `gap_replay` | what a trim took stays recoverable and is handled; trimming consumed entries is free | 2 events, 2 guards, batch of 1, 3 appends, 1 trim, 1 fault | 624,246 |
| `workflow_runs` | one live wait, own output, one dispatch, one terminal event, every run ends | a chain of suspensions, 2 jobs, the sweep, 1 crash | 310,198 |
| `workflow_stale_sweep` | counterexample: the sweep overwrites an answered wait | the same without crash | |
| `wait_sweep` | no wait overstays its ceiling, lost wakes are recovered, unless a full batch of waits at least as old passed it over | 4 waits of 3 kinds, batch of 2 | 2,545,964 |
| `schedule_runs` | started once, outcomes true, nothing stranded, the breaker counts the ledger, every fire concludes | 1 occurrence and its redrive, 2 workers, 2 attempts, 2 faults, 1 lost fire, 1 act by hand (a pause, a reactivation, a retry or a reply) | 358,901 |
| `schedule_reactivated` | counterexample: reactivation does not clear the streak | 3 occurrences | |
| `function_run` | started once, ended once, completed only if run, every run ends | 2 dispatchers, 1 crash | 309,188 |
| `agent_turns` | one active run, no stranded conversation, every message read or excused, the lost resume apart | 2 messages, 1 stop, 1 question, 1 mishap, 3 runs at most | 1,703,123 |

A larger check is not listed because of its size: the invariants of `schedule_runs`
with `MaxByHand = 2` (6,274,180 states), where a person pauses, retries, resumes and
replies.

The other configurations in this directory are counterexamples described below;
`tlc -config X.cfg M` shows each.

Why these bounds are enough. Two of whatever competes (dispatchers, lanes, jobs,
guards, workers) is the smallest number that does; a third adds no guard, since
every guard compares a row with one owner, one age or one lock. Attempt limits of
2 have a retry and a give-up; the shipped values (10 attempts, 12 deliveries,
batches of 100) repeat them. Ages saturate at the limit the guards compare with;
in `inbox` the claim ages out two ticks after the entry becomes idle, so that a
hand-back which refreshed it would keep it alive for ever. One outbox row is
enough for `outbox` because the safety properties are proved for any rows and
batch size. In `agent_turns` three runs are never exceeded: two messages and one
question start no more. `FunctionRun` follows one run because every transition
locks that row alone. Each bound on the environment is a constant of its own
(`MaxCrashes`, `MaxFaults`, `MaxOverruns`, `MaxReplays`, `MaxPauses`, `MaxAppends`,
`MaxTrims`, `MaxLost`, `MaxByHand`, `MaxStops`, `MaxMishaps`). Symmetry is used in
`wait_sweep` only (two timers of one kind, no liveness).

`CHECK_DEADLOCK FALSE` stands where a system really comes to rest: a run that
ended, a conversation with nothing to answer, a stream with its last append.

Each property has a variant of a mapped definition, kept ahead of the actions of
its module, that breaks it: a claim that ignores leases, a failure swallowed, a
hand-back that refreshes the claim, off-by-ones in the attempt limits, a wake
cleared before the wait, a poll that is removed, a retry after a lost invocation,
a sweep without its order, a recount that adds one, a window without its skew, a
check for active runs that forgets STOP_REQUESTED, a follow-up for successful
runs only.

## Fairness

* `EventOutbox.Fairness`: a dispatcher that lives keeps running its loop (`run`
  catches every exception and sleeps a bounded time); `available_at` and
  `lease_until` are reached because time passes; the pressure flag has a TTL.
  Publishing may fail for ever, which is why attempts are bounded. Not assumed:
  that a batch fits its lease; `outbox` bounds the overruns,
  `EventOutbox_slow_bus.cfg` shows what happens without.
* `OutboxWake.FairSpec`: only the dispatcher's loop, with its timed wait. Nothing
  is assumed of the listener or of PostgreSQL.
* `EventInbox.Fairness`: a lane moves its delivery on (the handler answers or the
  deadline ends it), reading lanes poll, time passes. `Reclaim` is strongly fair:
  an entry is reclaimable only until another lane takes it, and XAUTOCLAIM scans
  the list with a cursor, so an entry that becomes idle again and again is
  reached. That lanes stay alive is the lane watchdog's job
  (`core/infrastructure/jobs/lane_watchdog.py`), which ends a process with a dead
  reader so that its supervisor restarts it.
* `GapReplay.Fairness`: dispatcher and consumer as one, and each guard's pass.
* `WorkflowRuns.Fairness`: workers that hold a run proceed, the cron comes round,
  time reaches ceilings. Completions, timers and people are not fair: the sweep
  must do without.
* `ScheduleRuns.Fairness`: workers finish what they began; fires, reports and the
  sweep are strongly fair, each being enabled only while the row is free of the
  others; targets end. Losses are bounded.
* `FunctionRun.Fairness`: time and the cron, nothing else. Dispatchers, queue,
  sandbox and callback may stop anywhere.
* `AgentTurns.FairSpec`: weak fairness of `Progress` as a whole: queued jobs run,
  harnesses end, the sweep runs, events are handled, finishes commit. Behaviours
  within the bounds are finite, so it says no more than that the backend does not
  stand still. The person owes nothing; nor does a run take a message by steering.

## Proofs

| Module | Theorem | States |
|---|---|---|
| `EventOutboxProofs` | `TypeCorrect`, `NoIdleDuplicates`, `DeadLettersAreEarned` | the invariants of `outbox` |
| | `LocalStateAgrees`, `NothingIsLost`, `OutcomesAreFinal`, `AttemptsNeverFall` | `HoldersAgree`, `PublishedWasSent`, `OutcomeIsFinal`, `AttemptsOnlyRise` of `EventOutbox` |
| | `OutboxKeepsPromise` | `Spec => KeepsPromise`: the outbox implements `EventDelivery` |
| `OutboxWakeProofs` | `NoLostWakeUp` | `NothingOverlooked` |
| `EventInboxProofs` | `TypeCorrect`, `NoEntryIsDropped`, `HandlersRunAlone`, `GivingUpNeedsFailures` | all invariants of `inbox` |
| `FunctionRunProofs` | `TypeCorrect`, `CodeBeginsOnce`, `OneEndingPerRun`, `CompletedMeansRan` | `TypeOK`, `StartedOnce`, `EndedOnce`, `CompletedRan` |
| `AgentTurnsProofs` | `TypeCorrect`, `OneRunAtATime`, `NoConversationStranded` | `TypeOK`, `OneActiveRun`, `NoneStranded` |
| `ScheduleRunsProofs` | `TypeCorrectness`, `TargetsStartOnce`, `LedgerTellsTheTruth`, `BreakerCountsTheLedger`, `NoRowIsStranded` | `TypeOK`, `StartedOnce`, `OutcomeIsTruth`, `BreakerTracksLedger`, `NoneStranded` |
| `WorkflowRunsProofs` | `TypeCorrectness`, `RunsEndOnce`, `FunctionsRunOnce`, `LiveRunsHaveTheirWait`, `StepsKeepTheirOutput` | `TypeOK`, `EndedOnce`, `DispatchedOnce`, `OneLiveWait`, `OwnOutput` of `WorkflowRuns` |
| | `NoWaitOverstays`, `LostWakesAreRecovered` | `NoneOverstays`, `LostWakeIsRecovered` of `WaitSweep` |
| `GapReplayProofs` | `TypeCorrectness`, `LossesAreRecoverable`, `ConsumedTrimsAreFree` | `TypeOK`, `LossIsRecoverable`, `ConsumedTrimIsFree` |

**Outbox.** For any set of numbered events, any dispatchers, batch size, attempt
limit and bounds. Assumptions: the events are a finite set of numbers, `NoOwner` is
no dispatcher, sizes are positive. None of the invariants is inductive: each
speaks of a row, while the step that could break it is an update from a
dispatcher's memory of the row. The strengthening `HoldersAgree` says when that
memory can be trusted. If the row's `lease_owner` is still the dispatcher, then
the attempts it remembers are current, what it lists as done has been appended
and what it lists as failed has failed. That is the meaning of the `lease_owner`
fence: claims and replays change the owner, so a stale memory never passes it. For
undisturbed rows it adds that the holder is unique and has not sent the row yet.
`IndInv` is the conjunction; the proof goes through it action by action. The
action properties follow from `IndInv` in one step.

**Refinement.** Each step of the dispatchers is a step of `EventDelivery` or a
stutter: staging accepts, a publish appends, an error fails and may append, a
fenced update delivers or abandons, a lease that ends excuses, a replay requeues;
claims, pauses and crashes are stutters. Two facts come from `IndInv` (a row
marked published was sent; a row dead-lettered has failed often enough) and one
from an invariant of its own, `HeldIsCommitted`: what a dispatcher holds was staged.
What the promise says of entries and outcomes is therefore checked by
`KeepsPromise` alone in the run.

**Wake.** For any set of rows. The strengthening `Announced` says that whenever the
dispatcher has found nothing and a ready row was announced, the announcement is in
flight or has set the wake. It holds because the wake is cleared before the claim:
clearing it is followed by a claim that takes everything announced so far.

**Inbox.** For any groups, entries, events, finitely many lanes, and any limits and
number of faults. The inductive invariant has one part per property, each resting on
`Typed`. `NothingDropped` needs `OutcomesRecorded`: a lane on its way to the XACK
has an excuse, and a final row was recorded. `RunsExclusively` needs, for an event
whose claim nobody took over (`Untroubled`), that the lane which runs it holds the
row, and that once a handler succeeded the row is final or still held by the lane that
brings the success to it: whoever claims it then takes it over. The inbox half of
`GivingUpIsEarned` needs `AttemptsAreFailures`, because attempts are counted from
the snapshot the claim returned; the quarantine half needs `CountedOnce`: the
counter and the lanes that have still to count make at most the errors there were,
a counting argument over the set of those lanes. That `_finish` is not fenced does
no harm to these four: they hold although a settled row can change.

**Function runs.** For any dispatchers and any number of deaths. `StartedOnce` needs
`OneSender`: whoever won `start_execution` and has still to send the request is
unique, exists only once the row has left PENDING, and sends to a sandbox that has
nothing of this run. `CompletedRan` needs `ResultsAreReal`: a result exists only
where user code began, callbacks and answers only where there is a result. The row
itself is handled once for all actions: `RowKept` says that a transition leaves it
with a status and the events that tell it, and one lemma per transition
(`Finishing`, `FinishingWithoutResult`, `Completing`) shows it.

**Agent turns.** For any messages, number of runs and bounds. `OneActiveRun` and
`NoneStranded` are inductive only with the types of the finishes in flight: a
finish writes the outcome it derives from the status it *saw*, and the conversation
from either. `Known` says that jobs, finishes and events are about runs that were
created, so what a finish saw is an active or a terminal status, never "no such
run". Then a commit can only end a run (never revive one), and shows a terminal or
waiting conversation unless another run is active; and a run starts only under
the lock with no active one. TLC checked `IndInv` on the instance of `agent_turns`
first.

**Schedule runs.** For any occurrences, workers, attempt limit, threshold and
faults. `OutcomeIsTruth` and `StartedOnce` speak of a row and its target, while a
worker writes what it *staged*. `LedgerAgrees` ties the row to the target (a status
before the launch means a target never started, one launch at most, an outcome is
one of the target's ends: the target itself may have gone on since). `WorkersStand` ties each worker to its row: at most one holds a row's
lock (`claim` and the outcome update lock the row until they commit), a claimed row
is one the breaker passes over, whoever is past the launch has a target that
started, and what is staged as the outcome is one of the target's ends. The breaker is counted
again from the ledger at each settlement, under the lock of the schedule; that the
recount and the column agree in between needs the lemmas about `Streak`: a change to
rows the breaker passes over leaves it, and settling one row makes the recount of
the new ledger the new streak. `NoneStranded` is inductive with the rest because
only `Claim`, which notes a drop in `skipped`, and `LoseFire`, which counts it, take
a fire from a RECEIVED row without putting a worker on it.

**Workflow runs.** For any flow, jobs and number of crashes. `IndInv` says that the
lock and the moving worker are one, and counts terminal events and dispatches.
`EndedOnce` and `DispatchedOnce` follow for every flow; the second needs to know that
a suspension *ahead* of the run was dispatched only by transactions that died. What a
step records needs more: a resume compares the node of the wait it read with the
node the run stands at, so the worker's wait is the run's only if no node occurs
twice in the flow. `LiveRunsHaveTheirWait` and `StepsKeepTheirOutput` therefore
assume `NoLoops`; `WorkflowRuns_loop.cfg` shows that without it they are false.

**Sweep of waits.** `WorkflowRunsProofs` extends `WaitSweep` too, whose names differ
from those of `WorkflowRuns`. Nothing is assumed of how many waits there are: the sweep
looks at the oldest 100 of all runs, so both theorems except a wait the last batch
`PassedOver`, a full one of waits at least as old. `WaitSweep_full.cfg` shows that
nothing less will do. `SweepInv` bounds the age of a live wait that was not passed over
by its ceiling, and the time since it became answerable, each with `Slack` of one
period until the sweep of the current period has run. For the step of the sweep,
either the due wait is in the batch, which settles it, or the batch is a proper part
of the stale waits, hence full, and by its order none of it is younger; a tick uses up
the slack.

**Gap replay.** For any events, guards, batch size, skew and bounds. The property is
a statement about four places an event may be in, and the steps move it between
them while guards act on surveys and gap records they read earlier. The inductive
invariant says, for every state, what a row, a delivery, a survey and a gap can be
(a survey's watermark is at or before everything the group still needs; a gap ends
no later than the stream begins). Up to the first lapse it says more: a trimmed
entry whose row is not marked published yet was handled (`TrimmedMarked`), an
unhandled entry before the end of a window was marked before that window was
recorded (`GapsSettled`), what the group misses is inside the
record or inside the window of a guard about to record it or a row another guard has
locked and was passed over for (`MissingCovered`, `Relied`), and what is left of a
window whose last batch a guard has taken is in that batch, requeued, handled, or such
a row (`ReplayedEmpty`). A locked row that was relied on is requeued by its guard's
commit; that it may instead be rolled back is the lapse "rolled back". Here `Skew`
enters: a row bears a time at most `Skew` after its entry, by which the window
is widened.
`NoneAssumption` says that the model value for "no gap" is no gap record.
`ConsumedTrimIsFree` rests on the survey alone: `pos` never falls, so what was
consumed when a guard looked still is when it trims.

Only model-checked: all liveness (`EventuallySettled`, `EventuallyClaimed`,
`EventuallyAcked`, `EventuallyHandled`, `EveryRunEnds`, `EveryFireConcludes`,
`EveryTurnSettles`), which is beyond the prover.

## Where code and documentation disagree

### With a run

* **A settled inbox row can change** (`inbox_late_finish`). `_finish` is not fenced.
  A handler that is still running after `abandon_after` (60 s; the deadline is
  300 s) overwrites what the lane that took over has recorded. inbox.py:61-63
  takes a settled answer to be the same for ever.
* **The sweep fails runs that moved on** (`workflow_stale_sweep`). An overdue wait
  is expired as it was listed; a form answered in between is overwritten as FAILED
  and its run, already on a later step, is failed, leaving that step's wait ACTIVE.
  engine.py:3-5 takes double resumes to be no-ops by construction.
* **Reactivation does not start fresh** (`schedule_reactivated`). The streak is
  recounted from the ledger at the next outcome, so one further failure pauses the
  schedule again. schedule_service.py:453-456 says it starts fresh.

### With a configuration of their own

* **A slow bus defeats the retry bound** (`EventOutbox_slow_bus.cfg`). A batch is
  recorded after its last publish and its lease is never extended. If publishing
  takes longer than the 60 s lease (100 rows at up to 10 s each), two dispatchers
  alternate for ever without an outcome. docs/security/threat-model.md:30-32
  promises bounded retry and a dead-letter state.
* **Groups share one failure count** (`EventInbox_shared_counter.cfg`). A group
  gives up on a message after fewer failures of its own than quarantine.py:24-27
  says.
* **Acknowledged without an outcome** (`EventInbox_acked_outcome.cfg`). After a
  deadline or a permanent error, quarantine acknowledges an entry whose inbox row
  is PROCESSING or RETRYING; threat-model.md:16 promises a durable terminal
  outcome.
* **A loss that is never recorded** (`GapReplay_forgotten.cfg`). A group that reads
  on between an append's trim and the next survey, or a guard that dies between
  trim and record, leaves no gap: gap_replay.py:46-49 says a replay "never misses
  one". Two smaller ways are in `lapses`: a record widened by another guard is
  deleted with the key that was replayed (gap_replay.py:264-273), and a row marked
  published after its gap was recorded lies outside the window.
* **A batch short for another's locks** (`GapReplay_rolled_back.cfg`). A guard whose
  batch is short only because another guard's transaction holds rows of the window
  (SKIP LOCKED, gap_replay.py:206) takes it for the last and deletes the key. If the
  other transaction rolls back, its rows are published, handled by nobody and in no
  gap.
* **A replay may wait for other traffic** (`GapReplay_quiet.cfg`). A group that lost
  everything it had to read, or whose readers found nothing for
  `redis_stream_stall_seconds`, passes the gate of a replay only when somebody else
  publishes. gap_replay.py:7 promises the window "once the group is reading again".
* **A loop's stale wake** (`WorkflowRuns_loop.cfg`). A timer read for the wait
  of one iteration is applied to the wait of the next: the node is the same.
* **A full batch starves** (`WaitSweep_full.cfg`). The sweep takes the oldest 100
  waits; healthy long ones may fill it and hide those past their ceiling
  (`CeilingHolds`), which core/config.py says is the longest a run stays suspended.
* **A one-time schedule's failed launch is never retried**
  (`ScheduleRuns_one_shot.cfg`): it is inactive from its first fire on, and the
  sweep selects active schedules. **Nor by hand** (`ScheduleRuns_hand_retry.cfg`).
  PS-SCHED-022 promises both.
* **The outcome of a fire may be a later run's** (`ScheduleRuns_later_run.cfg`). The
  outcome event of a conversation is handled with the status it has by then
  (target_outcome_consumer.py:164-182). After a reply that is the end of another run,
  or none yet. Nothing in the repository says which end counts; `OutcomeIsTruth` states
  what does hold, that what is recorded is one end of the target.
* **A dispatcher may fail a job that began** (`FunctionRun_job_failed.cfg`) although
  function_dispatcher.py:187 leaves it to the callback or the deadline. It does when,
  after user code began, it meets a 4xx or an answer it cannot read, or when a second
  dispatcher's preparation fails.
* **A late finish repairs a newer run's conversation**
  (`AgentTurns_late_repair.cfg`). Run 1 is stopped, the person sends another message,
  and the delayed stop handler or redelivered job finishes run 1 again:
  `reconcile_conversation_to_terminal` then shows STOPPED although run 2 is active.
  conversation_status_repair.py:98-104 speaks of what "its finished run left behind".
* **A question answered too early** (`AgentTurns_lost_resume.cfg`). Between its being
  shown and the finish of the run that asked, the resume starts nothing ("it will
  replay the now-complete tool returns", pause_resume.py:165); the run then ends
  with the conversation WAITING and nothing to wait for. A message queued meanwhile is
  not read either: the completion skips a WAITING conversation because "their answer
  starts a run whose history rebuild picks these messages up"
  (conversation_turns.py:267), and the answer is already given. `WaitingLosesNothing`
  states the promise; the next message goes on.
* **A stop overwritten** (`AgentTurns_stop_race.cfg`). A finish that read RUNNING
  before the stop committed writes COMPLETED over STOP_REQUESTED, and a follow-up
  may start although queued_followup.py:64 leaves a stopped queue alone.

### Noticed while modelling

* A fire the stream lost after the sweep re-armed its row as RECEIVED is never
  selected again; `NoneStranded` and `EveryFireConcludes` assume `lost = 0`.
* So is one that comes while the schedule is paused: `handle_schedule_fired` returns
  without touching the row (schedule_start_service.py:241-246), and the sweep does not
  select RECEIVED after the schedule is active again. `NoneStranded` and
  `EveryFireConcludes` leave such rows (`skipped`) out. The invariant that did not was
  refuted when its proof was attempted; it takes a retry by hand and a pause.
* `get_run_status` (workflow_control.py) reports a CANCELLED function run as RUNNING, so
  the sweep leaves such a lost wake to the ceiling, as `WaitSweep` and `WorkflowRuns` do;
  a cancel between
  start and invocation does not keep user code from running; a job whose second
  connection is refused stays RUNNING for the deadline although
  function_dispatcher.py:336 says it is reported.
* A stop that meets a pausing run leaves the run STOPPED and the conversation
  WAITING. A follow-up checks WAITING on a conversation read before the lock and
  may deny a question asked since. A job waiting longer than its heartbeat for a
  worker reads as dead. A message queued before its run's history was loaded is
  both in the history and steered. A message sent after a stop was requested joins
  the dying run and gets no follow-up. `EveryTurnSettles` names what excuses an
  unread message (`Excused`: a stop, a failure, a question that is really being asked,
  a refused turn) and, apart from these, the one lost resume described above
  (`LostResume`).
* `OneActiveRun` counts rows. A job swept by mistake works on beside the next run's,
  and a stop may be overwritten: of the latter `StopIsHonoured` speaks.
* `settle_stranded_conversations` has nothing to do in any modelled behaviour.

## Limits

* Payloads, correlation ids, tracing, metrics and log lines are left out.
* Clocks: processes agree on the time; PostgreSQL and Python time are one.
* `EventOutbox`: an event id is staged once (`on_conflict_do_nothing`); rows locked
  by a concurrent claim (`SKIP LOCKED`) look like rows just claimed.
* `OutboxWake`: one dispatcher and its own listener; other processes appear as
  `ClaimedElsewhere`.
* `EventInbox`: groups exist before the first append and are never lost; streams
  are not trimmed; the failure counter's one-day TTL and the deletion of settled
  rows by retention are left out; one delivery is in a lane at a time (FastStream
  handles the entries of a fetch one after the other), so entries fetched but not
  yet handled appear as unread. Lanes crash one at a time and are replaced.
  `redis_stream_handler_timeout_seconds = 0`, which removes the deadline, is not
  an instance. Per-consumer `max_attempts` is the constant.
* `GapReplay`: survey and the record of an observed loss are one step; locks on the
  outbox rows of a window are those of other guards (retention and operators' replays
  take some too); the budget is a nondeterministic verdict; no retired streams, caps or stall reports; faults only
  where a pass has done something.
* `WorkflowRuns`: nodes that do not suspend are abstracted to the order of
  suspensions; agent waits that resolve themselves are left out. The locked read of
  a run is current (the identity map is weak). `WaitSweep`: one kind for functions
  and agents; an exception at one wait, which `reconcile_stale_waits` logs before it
  goes on to the next, is left out.
* `ScheduleRuns`: begins at the fire (the claim of due schedules locks the row and
  moves the cursor in one transaction); no FILTERED fires, failures before the
  dispatch, deletion of targets, or LIMIT windows; one notion of age. `Report` reads a
  target's status and writes the row under one lock in one step, while the code reads
  the status first: what it then records may be an end from just before, which is still
  one end of the target.
* `FunctionRun`: whether the two grace constants agree; definitions, revisions, artifacts, endpoint cache, credentials and
  retention are left out.
* `AgentTurns`: no Agent Host harness, retry of failed runs, subagents, the claim on
  approvals being executed, withdrawal of queued messages, history limits, usage
  receipts or retry limits of the queue. A stop with no active run is one step; an
  event is handled once, perhaps late; the sweep's listing and its finish's SELECT
  are one step; the conversation a repair changes is read at its commit. Time is
  abstract: the sweep strikes jobs nobody executes, and one false alarm.
* Not modelled, with reasons in PROJECT.json: everything listed there as
  `not_modelled`. What is left is I/O, request and response in single transactions,
  external providers whose behaviour the repository does not state, user interfaces
  and generated code; the agent host's journal and the local daemon's supervision
  are protocols of their own that were not reached.
