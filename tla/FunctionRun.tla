---------------------------- MODULE FunctionRun ----------------------------
(***************************************************************************)
(* The life of one function run (app/modules/function): its row in         *)
(* function_runs, the dispatchers that try to execute it, the queue that   *)
(* carries an asynchronous run to a worker, the sandbox that runs the      *)
(* user's code, the callback that reports what it did, and the cron that   *)
(* republishes and expires runs.                                           *)
(*                                                                         *)
(* Every transition of a row locks that row alone, so runs do not meet and *)
(* one run is the whole story.  The unit of work of a call is one action;  *)
(* what a call read in an earlier unit of work is kept in its own state    *)
(* and may be stale by the next one.  Time is the age of the run, counted  *)
(* in the thresholds the code compares it with.                            *)
(***************************************************************************)
EXTENDS Naturals, Sequences

CONSTANTS
    Dispatchers,  \* callers of FunctionDispatcher.execute: API requests, workers
    MaxCrashes    \* bound on dispatchers that die in the middle of a run

ASSUME DispatchersAssumption == Dispatchers # {}
ASSUME MaxCrashesAssumption == MaxCrashes \in Nat

VARIABLES
    mode,      \* "SYNC" (an API run) or "ASYNC" (job_id is set)
    status,    \* function_runs.status
    age,       \* which of the thresholds below the clock has passed
    unsent,    \* the creator has still to enqueue or dispatch the run
    queued,    \* the queue holds the run's task (one deterministic identity)
    listed,    \* the cron listed the run as unqueued and will republish it
    pc,        \* [Dispatchers -> where the dispatcher is]
    inflight,  \* invocations sent to the sandbox and not yet received there
    began,     \* how many times user code was begun for this run
    result,    \* what the user code ended with, when it ended
    alive,     \* the sandbox still holds the user's task or its report
    handlers,  \* callbacks that are authorized and have not completed the row
    canceller, \* the cancel request: "none", "seen", "stopping", "done"
    ends,      \* history: the terminal events collected, and who caused them
    crashes

vars == <<mode, status, age, unsent, queued, listed, pc, inflight, began, result,
          alive, handlers, canceller, ends, crashes>>

(* The sandbox and its callback; the row and its events; the queue. *)
sandboxVars == <<inflight, began, result, alive, handlers>>
rowVars     == <<status, ends>>
queueVars   == <<unsent, queued, listed>>

TERMINAL_RUN_STATES == {"COMPLETED", "FAILED", "CANCELLED"}

(* The ages: young; FUNCTION_RUN_REPUBLISH_MIN_AGE_SECONDS old; past the   *)
(* deadline; past the deadline and FUNCTION_JOB_CALLBACK_GRACE_SECONDS,    *)
(* which the sandbox keeps as a constant of its own, _CALLBACK_GRACE_SECONDS *)
(* (both are 60, and one threshold stands for both).                       *)
YOUNG == 0
STRANDED == 1
EXPIRED == 2
GRACE_OVER == 3

InDispatch == {"resolved", "started", "again", "waiting", "answered"}
PCs == InDispatch \cup {"idle", "delivered", "failing", "cancelling"}

MAX_CALLBACKS == 2  \* bound on callbacks in their handler at once

TypeOK ==
    /\ mode \in {"SYNC", "ASYNC"}
    /\ status \in {"PENDING", "RUNNING"} \cup TERMINAL_RUN_STATES
    /\ age \in YOUNG .. GRACE_OVER
    /\ unsent \in BOOLEAN /\ queued \in BOOLEAN /\ listed \in BOOLEAN
    /\ pc \in [Dispatchers -> PCs]
    /\ inflight \in Nat /\ began \in Nat
    /\ result \in {"none", "completed", "failed"}
    /\ alive \in BOOLEAN
    /\ handlers \in 0 .. MAX_CALLBACKS
    /\ canceller \in {"none", "seen", "stopping", "done"}
    /\ ends \in Seq([status : TERMINAL_RUN_STATES,
                     by : {"dispatcher", "runtime", "cancel", "sweep"}])
    /\ crashes \in 0 .. MaxCrashes

(* The run is committed PENDING with its deadline; nothing else has seen it. *)
Init ==
    /\ mode \in {"SYNC", "ASYNC"}
    /\ status = "PENDING"
    /\ age = YOUNG
    /\ unsent = TRUE /\ queued = FALSE /\ listed = FALSE
    /\ pc = [d \in Dispatchers |-> "idle"]
    /\ inflight = 0 /\ began = 0 /\ result = "none" /\ alive = FALSE
    /\ handlers = 0
    /\ canceller = "none"
    /\ ends = << >>
    /\ crashes = 0

(* ---- Variants a plausible bug would give the definitions below --------- *)

FinishWithoutResult_Overwrites(end, who) ==
    /\ status' = end
    /\ ends' = Append(ends, [status |-> end, by |-> who])

Complete_ReportVerbatim(who) ==
    IF status = "RUNNING"
    THEN status' = result /\ ends' = Append(ends, [status |-> result, by |-> who])
    ELSE UNCHANGED rowVars

InvocationLost_Retries(d) ==
    /\ pc[d] = "waiting"
    /\ pc' = [pc EXCEPT ![d] = "again"]
    /\ UNCHANGED <<mode, rowVars, age, queueVars, sandboxVars, canceller, crashes>>

Accepted_Completes(d) ==
    /\ mode = "ASYNC" /\ pc[d] = "waiting" /\ began > 0
    /\ status' = IF status = "RUNNING" THEN "COMPLETED" ELSE status
    /\ pc' = [pc EXCEPT ![d] = "idle"]
    /\ UNCHANGED <<mode, ends, age, queueVars, sandboxVars, canceller, crashes>>

Expired_JobsForgotten ==
    /\ status \in {"PENDING", "RUNNING"} /\ age >= EXPIRED
    /\ mode = "ASYNC" => status = "PENDING"

(* ---- Transitions of the row --------------------------------------------- *)

(* The row is locked, ended once, and the event collected with it. *)
FinishRow(end, who) ==
    /\ status' = end
    /\ ends' = Append(ends, [status |-> end, by |-> who])

(* _finish_without_result: a run that is already over is left alone. *)
FinishWithoutResult(end, who) ==
    IF status \in TERMINAL_RUN_STATES
    THEN UNCHANGED rowVars
    ELSE FinishRow(end, who)

(* complete: only a RUNNING run takes a result; a second report is         *)
(* acknowledged as a duplicate and changes nothing.                        *)
Complete(who) ==
    IF status = "RUNNING"
    THEN FinishRow(IF result = "completed" THEN "COMPLETED" ELSE "FAILED", who)
    ELSE UNCHANGED rowVars

(* ---- Queue and dispatch --------------------------------------------------- *)

(* _enqueue_run: best effort, and its failure is ambiguous.                 *)
EnqueueRun ==
    /\ mode = "ASYNC" /\ unsent
    /\ unsent' = FALSE
    /\ queued' \in {queued, TRUE}
    /\ UNCHANGED <<mode, rowVars, age, listed, pc, sandboxVars, canceller, crashes>>

(* An API run is dispatched by the request that created it, a job by the    *)
(* worker the queue hands its task to.                                      *)
Deliver(d) ==
    /\ pc[d] = "idle"
    /\ IF mode = "ASYNC"
       THEN queued /\ queued' = FALSE /\ unsent' = unsent
       ELSE unsent /\ unsent' = FALSE /\ queued' = queued
    /\ pc' = [pc EXCEPT ![d] = "delivered"]
    /\ UNCHANGED <<mode, rowVars, age, listed, sandboxVars, canceller, crashes>>

(* _resolve_dispatch: a run that is no longer PENDING is returned as it is, *)
(* one past its deadline is failed in a unit of work of its own.            *)
ResolveDispatch(d) ==
    /\ pc[d] = "delivered"
    /\ pc' = [pc EXCEPT ![d] =
                 CASE status # "PENDING" -> "idle"
                   [] status = "PENDING" /\ age >= EXPIRED -> "failing"
                   [] OTHER -> "resolved"]
    /\ UNCHANGED <<mode, rowVars, age, queueVars, sandboxVars, canceller, crashes>>

(* start_execution: exactly one dispatcher moves the row out of PENDING.    *)
StartExecution(d) ==
    /\ pc[d] = "resolved"
    /\ IF status = "PENDING" /\ age < EXPIRED
       THEN status' = "RUNNING" /\ pc' = [pc EXCEPT ![d] = "started"]
       ELSE status' = status /\ pc' = [pc EXCEPT ![d] = "idle"]
    /\ UNCHANGED <<mode, age, queueVars, sandboxVars, canceller, ends, crashes>>

(* _invoke_runtime sends the request, while there is time left. *)
InvokeRuntime(d) ==
    /\ pc[d] \in {"started", "again"}
    /\ age < EXPIRED
    /\ inflight' = inflight + 1
    /\ pc' = [pc EXCEPT ![d] = "waiting"]
    /\ UNCHANGED <<mode, rowVars, age, queueVars, began, result, alive, handlers,
                   canceller, crashes>>

(* A gateway 401/403/404/410 or a refused connection: nothing was           *)
(* delivered.  The endpoint is resolved again and the request sent once     *)
(* more; a second refused connection counts as unconfirmed, so a job is     *)
(* left RUNNING for its deadline, and a second 4xx fails the run.           *)
NeverReached(d) ==
    /\ pc[d] \in {"started", "again"}
    /\ pc' = [pc EXCEPT ![d] =
                 CASE pc[d] = "started" -> "again"
                   [] pc[d] = "again" /\ mode = "ASYNC" -> "idle"
                   [] OTHER -> "failing"]
    /\ UNCHANGED <<mode, rowVars, age, queueVars, sandboxVars, canceller, crashes>>

(* Whatever else raises: preparing the endpoint, the token or the           *)
(* organization, a deadline already past; once the request arrived, a 4xx,  *)
(* an unreadable answer, or the run that cannot be read again.              *)
DispatchRaises(d) ==
    /\ pc[d] \in InDispatch
    /\ pc[d] = "waiting" => inflight = 0
    /\ pc' = [pc EXCEPT ![d] = "failing"]
    /\ UNCHANGED <<mode, rowVars, age, queueVars, sandboxVars, canceller, crashes>>

(* The runtime acknowledged an asynchronous run: its callback will end it.  *)
Accepted(d) ==
    /\ mode = "ASYNC" /\ pc[d] = "waiting" /\ began > 0
    /\ pc' = [pc EXCEPT ![d] = "idle"]
    /\ UNCHANGED <<mode, rowVars, age, queueVars, sandboxVars, canceller, crashes>>

(* The runtime answered an API run with its result. *)
Answered(d) ==
    /\ mode = "SYNC" /\ pc[d] = "waiting" /\ result # "none" /\ alive
    /\ pc' = [pc EXCEPT ![d] = "answered"]
    /\ UNCHANGED <<mode, rowVars, age, queueVars, sandboxVars, canceller, crashes>>

(* InvocationOutcomeUnconfirmed: a timeout, a broken read, a 5xx.  A job is *)
(* left RUNNING for its callback or its deadline; an API run is stopped in  *)
(* the sandbox, if that can be reached, and failed.                         *)
InvocationLost(d) ==
    /\ pc[d] = "waiting"
    /\ pc' = [pc EXCEPT ![d] = IF mode = "ASYNC" THEN "idle" ELSE "failing"]
    /\ alive' \in IF mode = "ASYNC" THEN {alive} ELSE {alive, FALSE}
    /\ UNCHANGED <<mode, rowVars, age, queueVars, inflight, began, result, handlers,
                   canceller, crashes>>

(* _complete_dispatch stores the answer of an API run. *)
CompleteDispatch(d) ==
    /\ pc[d] = "answered"
    /\ Complete("runtime")
    /\ pc' = [pc EXCEPT ![d] = "idle"]
    /\ UNCHANGED <<mode, age, queueVars, sandboxVars, canceller, crashes>>

(* fail_dispatch, fail_unfinished: the dispatch is over without a result.   *)
FailDispatch(d) ==
    /\ pc[d] = "failing"
    /\ FinishWithoutResult("FAILED", "dispatcher")
    /\ pc' = [pc EXCEPT ![d] = "idle"]
    /\ UNCHANGED <<mode, age, queueVars, sandboxVars, canceller, crashes>>

(* asyncio.CancelledError inside the dispatch: the row is CANCELLED ...     *)
DispatchCancelled(d) ==
    /\ pc[d] \in InDispatch
    /\ FinishWithoutResult("CANCELLED", "cancel")
    /\ pc' = [pc EXCEPT ![d] = "cancelling"]
    /\ UNCHANGED <<mode, age, queueVars, sandboxVars, canceller, crashes>>

(* ... and the sandbox is asked to stop, which it may not hear.             *)
BestEffortCancel(d) ==
    /\ pc[d] = "cancelling"
    /\ alive' \in {alive, FALSE}
    /\ pc' = [pc EXCEPT ![d] = "idle"]
    /\ UNCHANGED <<mode, rowVars, age, queueVars, inflight, began, result, handlers,
                   canceller, crashes>>

(* The process of a dispatcher dies.  The queue hands an unacknowledged     *)
(* task to another worker; nobody repeats an API request.                   *)
Crash(d) ==
    /\ pc[d] # "idle" /\ crashes < MaxCrashes
    /\ crashes' = crashes + 1
    /\ pc' = [pc EXCEPT ![d] = "idle"]
    /\ queued' = (queued \/ mode = "ASYNC")
    /\ UNCHANGED <<mode, rowVars, age, unsent, listed, sandboxVars, canceller>>

(* ---- Cancel on request ----------------------------------------------------- *)

(* cancel: the run is active in one unit of work ... *)
CanCancel == status \notin TERMINAL_RUN_STATES

SeeActive ==
    /\ canceller = "none" /\ CanCancel
    /\ canceller' = "seen"
    /\ UNCHANGED <<mode, rowVars, age, queueVars, pc, sandboxVars, crashes>>

(* ... cancelled in the next one, unless it ended in between ... *)
CancelRun ==
    /\ canceller = "seen"
    /\ FinishWithoutResult("CANCELLED", "cancel")
    /\ canceller' = "stopping"
    /\ UNCHANGED <<mode, age, queueVars, pc, sandboxVars, crashes>>

(* ... and then the sandbox is asked to stop, best effort. *)
StopRuntime ==
    /\ canceller = "stopping"
    /\ alive' \in {alive, FALSE}
    /\ canceller' = "done"
    /\ UNCHANGED <<mode, rowVars, age, queueVars, pc, inflight, began, result,
                   handlers, crashes>>

(* ---- The sandbox and its report ------------------------------------------- *)

(* _start: the runtime keeps nothing durable, so an invocation that reaches  *)
(* it begins user code (another sandbox would not know of an earlier one).  *)
RuntimeBegins ==
    /\ inflight > 0
    /\ inflight' = inflight - 1
    /\ began' = began + 1
    /\ alive' = TRUE
    /\ UNCHANGED <<mode, rowVars, age, queueVars, pc, result, handlers, canceller,
                   crashes>>

(* The request breaks on the wire, or is refused before user code starts.    *)
RequestDies ==
    /\ inflight > 0
    /\ inflight' = inflight - 1
    /\ UNCHANGED <<mode, rowVars, age, queueVars, pc, began, result, alive, handlers,
                   canceller, crashes>>

(* _execute ends, by itself or at the deadline the runtime was given. *)
RuntimeEnds ==
    /\ alive /\ result = "none"
    /\ result' \in {"completed", "failed"}
    /\ UNCHANGED <<mode, rowVars, age, queueVars, pc, inflight, began, alive, handlers,
                   canceller, crashes>>

(* The sandbox dies, or gives up reporting. *)
RuntimeGone ==
    /\ alive
    /\ alive' = FALSE
    /\ UNCHANGED <<mode, rowVars, age, queueVars, pc, inflight, began, result, handlers,
                   canceller, crashes>>

(* authorized_runtime_context: only a job that left PENDING may report.      *)
MayReport == status # "PENDING" /\ handlers < MAX_CALLBACKS

(* GatewayClient.terminal posts the report, again and again until it is      *)
(* acknowledged or the grace is over; terminal() reads the row first ...    *)
CanPost == mode = "ASYNC" /\ alive /\ result # "none" /\ age < GRACE_OVER

TerminalAuthorized ==
    /\ CanPost /\ MayReport
    /\ handlers' = handlers + 1
    /\ UNCHANGED <<mode, rowVars, age, queueVars, pc, inflight, began, result, alive,
                   canceller, crashes>>

(* ... and completes it in the next unit of work.  The acknowledgement may   *)
(* be lost on its way back.                                                 *)
TerminalCompletes ==
    /\ handlers > 0
    /\ handlers' = handlers - 1
    /\ Complete("runtime")
    /\ alive' \in {alive, FALSE}
    /\ UNCHANGED <<mode, age, queueVars, pc, inflight, began, result, canceller, crashes>>

(* The process that serves a callback dies before it completes the row. *)
TerminalDies ==
    /\ handlers > 0
    /\ handlers' = handlers - 1
    /\ UNCHANGED <<mode, rowVars, age, queueVars, pc, inflight, began, result, alive,
                   canceller, crashes>>

(* ---- reconcile_function_runs, once a minute -------------------------------- *)

(* list_pending_async_runs reads; the connection is given back before ...    *)
ListPending ==
    /\ mode = "ASYNC" /\ status = "PENDING" /\ age = STRANDED /\ ~listed
    /\ listed' = TRUE
    /\ UNCHANGED <<mode, rowVars, age, unsent, queued, pc, sandboxVars, canceller, crashes>>

(* ... the listed run is published again, whatever became of it.             *)
Republish ==
    /\ listed
    /\ listed' = FALSE
    /\ queued' \in {queued, TRUE}
    /\ UNCHANGED <<mode, rowVars, age, unsent, pc, sandboxVars, canceller, crashes>>

(* The runs fail_expired selects: a job is given its callback's grace.       *)
Expired ==
    \/ status = "PENDING" /\ age >= EXPIRED
    \/ status = "RUNNING" /\ mode = "SYNC" /\ age >= EXPIRED
    \/ status = "RUNNING" /\ mode = "ASYNC" /\ age >= GRACE_OVER

FailExpired ==
    /\ Expired
    /\ FinishRow("FAILED", "sweep")
    /\ UNCHANGED <<mode, age, queueVars, pc, sandboxVars, canceller, crashes>>

Tick ==
    /\ age < GRACE_OVER
    /\ age' = age + 1
    /\ UNCHANGED <<mode, rowVars, queueVars, pc, sandboxVars, canceller, crashes>>

Dispatch(d) ==
    \/ Deliver(d) \/ ResolveDispatch(d) \/ StartExecution(d)
    \/ InvokeRuntime(d) \/ NeverReached(d) \/ DispatchRaises(d)
    \/ Accepted(d) \/ Answered(d) \/ InvocationLost(d)
    \/ CompleteDispatch(d) \/ FailDispatch(d)
    \/ DispatchCancelled(d) \/ BestEffortCancel(d) \/ Crash(d)

Runtime ==
    \/ RuntimeBegins \/ RequestDies \/ RuntimeEnds \/ RuntimeGone
    \/ TerminalAuthorized \/ TerminalCompletes \/ TerminalDies

Next ==
    \/ EnqueueRun
    \/ \E d \in Dispatchers : Dispatch(d)
    \/ SeeActive \/ CancelRun \/ StopRuntime
    \/ Runtime
    \/ ListPending \/ Republish \/ FailExpired
    \/ Tick

Spec == Init /\ [][Next]_vars

(* The cron runs every minute and time passes; dispatchers, the queue and    *)
(* the sandbox may stop at any point.                                       *)
Fairness == WF_vars(Tick) /\ WF_vars(FailExpired)

FairSpec == Spec /\ Fairness

(* ---- Properties ------------------------------------------------------------ *)

(* User code begins at most once for a run, and never for one whose row      *)
(* still says PENDING, whatever the queue delivers twice, the cron           *)
(* republishes and the dispatcher sends again after a refusal: "the atomic   *)
(* PENDING to RUNNING transition prevents a second execution attempt"       *)
(* (function_use_cases.py:555).                                             *)
StartedOnce == began + inflight <= IF status = "PENDING" THEN 0 ELSE 1

(* Of the result, the failure, the cancel and the sweep that race for a run, *)
(* exactly one ends it, and the one event its waiters see tells the status   *)
(* the row has.                                                             *)
EndedOnce ==
    /\ status \in TERMINAL_RUN_STATES => Len(ends) = 1 /\ ends[1].status = status
    /\ status \notin TERMINAL_RUN_STATES => ends = << >>

(* A run is COMPLETED only when its user code ran to its end and said so: an *)
(* acknowledgement, a lost reply or a second dispatcher is no result.       *)
CompletedRan == status = "COMPLETED" => result = "completed" /\ began = 1

(* "The runtime may still own the task.  Its callback or the deadline        *)
(* reconciler will durably settle this JOB run" (function_dispatcher.py:187):*)
(* once user code began, no dispatcher fails a job.                         *)
JobSettledByRuntime ==
    mode = "ASYNC" /\ began > 0 /\ ends # << >> => ends[1].by # "dispatcher"

(* Every run ends, though its publication, its worker, its sandbox and its   *)
(* report may all be lost, with no help but time and the cron.              *)
EveryRunEnds == <>(status \in TERMINAL_RUN_STATES)

=============================================================================
