---------------------------- MODULE WorkflowRuns ----------------------------
(***************************************************************************)
(* One workflow run, the waits it suspends on, and everything that may     *)
(* wake it: completion jobs, leased timers, a person, the reconciliation   *)
(* sweep and a cancellation (app/modules/workflow/execution/engine.py,     *)
(* wait_failure.py, services/run_resume_service.py, due_wait_claimer.py).  *)
(*                                                                         *)
(* The waking paths read the wait before they lock the run, so what they   *)
(* read may be stale by the time the lock is theirs: FindWait and the      *)
(* actions that follow it are steps of their own.  A function is           *)
(* dispatched in a transaction of its own while the run is locked.         *)
(*                                                                         *)
(* Only suspending nodes appear.  Flow lists them in the order the run     *)
(* meets them; an iteration of a loop is one more entry with the same node.*)
(***************************************************************************)
EXTENDS Naturals, Sequences, FiniteSets

CONSTANTS
    Flow,        \* sequence of [node, kind]
    Jobs,        \* concurrent jobs and requests
    Sweep,       \* the reconciliation cron, one at a time
    None,
    Ceiling,     \* BOOLEAN: a wait may outlive workflow_wait_max_age_seconds
    MaxCrashes

Kinds == {"HUMAN", "TIME", "FUNCTION", "AGENT"}
Steps == 1..Len(Flow)
Workers == Jobs \cup {Sweep}

ASSUME FlowAssumption ==
    /\ Flow \in Seq([node : {Flow[k].node : k \in DOMAIN Flow}, kind : Kinds])
    /\ Flow # <<>>
ASSUME WorkerAssumption == Sweep \notin Jobs /\ None \notin Workers
ASSUME BoundAssumption == Ceiling \in BOOLEAN /\ MaxCrashes \in Nat

VARIABLES
    run,        \* [status, pos]: the row; pos is the suspension it stands at
    wait,       \* status of the wait row of each suspension
    work,       \* the agent conversation or function run behind it
    event,      \* a completion or timer job for it is on its way
    leased,     \* fire_lease_until of a timer lies in the future
    overdue,    \* waits past the ceiling
    worker,     \* what each worker has read and decided
    lock,       \* who holds the row lock of the run
    batch,      \* waits the sweep has listed, each with whether it was overdue
    output,     \* history: whose result was recorded for each suspension
    dispatched, \* history: how often its function was dispatched
    ended,      \* history: WorkflowRunTerminalEvents staged
    crashes

vars == <<run, wait, work, event, leased, overdue, worker, lock, batch,
          output, dispatched, ended, crashes>>

Live == {"RUNNING", "WAITING"}
Terminal == {"COMPLETED", "FAILED", "CANCELLED"}
\* How the work behind a wait ends; a function run may be cancelled by hand.
Ends == {"succeeded", "failed", "cancelled"}
Idle == [at |-> "idle", wait |-> 0, op |-> "resume"]

TypeOK ==
    /\ run \in [status : {"absent"} \cup Live \cup Terminal, pos : 0..Len(Flow) + 1]
    /\ wait \in [Steps -> {"absent", "ACTIVE"} \cup Terminal]
    /\ work \in [Steps -> {"idle", "running"} \cup Ends]
    /\ event \in [Steps -> BOOLEAN] /\ leased \in [Steps -> BOOLEAN]
    /\ overdue \in SUBSET Steps /\ batch \in SUBSET (Steps \X BOOLEAN)
    /\ worker \in [Workers -> [at : {"idle", "found", "advancing", "dispatched"},
                               wait : 0..Len(Flow), op : {"resume", "fail"}]]
    /\ lock \in Workers \cup {None}
    /\ output \in [Steps -> 0..Len(Flow)] /\ dispatched \in [Steps -> Nat]
    /\ ended \in 0..1 /\ crashes \in 0..MaxCrashes

Init ==
    /\ run = [status |-> "absent", pos |-> 0]
    /\ wait = [k \in Steps |-> "absent"] /\ work = [k \in Steps |-> "idle"]
    /\ event = [k \in Steps |-> FALSE] /\ leased = [k \in Steps |-> FALSE]
    /\ overdue = {} /\ batch = {}
    /\ worker = [w \in Workers |-> Idle] /\ lock = None
    /\ output = [k \in Steps |-> 0] /\ dispatched = [k \in Steps |-> 0]
    /\ ended = 0 /\ crashes = 0

history == <<output, dispatched, ended>>
clocks == <<event, leased, overdue>>

-----------------------------------------------------------------------------
\* Variants a plausible bug would give the definitions below.
ResumeAccepts_AnyNode(k) == run.pos > 0

LockFree_ReadOnly == TRUE

RunIsLive_NotCompleted == run.status # "COMPLETED"

Cancelled_RunOnly == wait

Answered_NoTimers(k) == work[k] \in {"succeeded", "failed"}

-----------------------------------------------------------------------------
Kind(k) == Flow[k].kind
\* Waits a job is sent for; a form is answered in a request.
Woken == {k \in Steps : Kind(k) # "HUMAN"}
IsIdle(w) == worker[w].at = "idle"
Reading(w, k, op) == worker' = [worker EXCEPT ![w] = [at |-> "found", wait |-> k, op |-> op]]
Locking(w, k) ==
    /\ worker' = [worker EXCEPT ![w] = [at |-> "advancing", wait |-> k, op |-> "resume"]]
    /\ lock' = w
Leaving(w) == worker' = [worker EXCEPT ![w] = Idle]

\* get_for_update would not block.
LockFree == lock = None

\* The status check under the lock, on every path that moves a run.
RunIsLive == run.status \in Live

\* The node the run stands on is the node the wait was created for; another
\* iteration of a loop passes, because steps are found by node id only.
ResumeAccepts(k) == Flow[k].node = Flow[run.pos].node

\* start_run: the reserved id and the unique schedule event admit one creator;
\* a concurrent one blocks on the index and then finds the row.
StartRun(w) ==
    /\ IsIdle(w) /\ LockFree /\ run.status = "absent"
    /\ Locking(w, 0)
    /\ UNCHANGED <<run, wait, work, batch, crashes, clocks, history>>

\* find_active_by_external_ref, on behalf of a completion job or a fired timer.
FindWait(w, k) ==
    /\ IsIdle(w) /\ event[k]
    /\ event' = [event EXCEPT ![k] = FALSE]
    /\ IF wait[k] = "ACTIVE"
       THEN Reading(w, k, IF work[k] \in {"failed", "cancelled"} THEN "fail" ELSE "resume")
       ELSE UNCHANGED worker       \* "no active wait": the event is dropped
    /\ UNCHANGED <<run, wait, work, leased, overdue, lock, batch, crashes, history>>

\* submit_form reads the wait under the lock.
SubmitForm(w) ==
    /\ IsIdle(w) /\ LockFree /\ run.status = "WAITING"
    /\ wait[run.pos] = "ACTIVE" /\ Kind(run.pos) = "HUMAN"
    /\ Locking(w, run.pos)
    /\ UNCHANGED <<run, wait, work, batch, crashes, clocks, history>>

\* resume_internal after get_for_update.
ResumeLocked(w) ==
    /\ worker[w].at = "found" /\ worker[w].op = "resume" /\ LockFree
    /\ IF RunIsLive /\ ResumeAccepts(worker[w].wait)
       THEN Locking(w, worker[w].wait)
       ELSE Leaving(w) /\ UNCHANGED lock
    /\ UNCHANGED <<run, wait, work, batch, crashes, clocks, history>>

\* fail_run_for_wait: the wait's status is not read again.
FailRun(k) ==
    IF RunIsLive
    THEN /\ run' = [run EXCEPT !.status = "FAILED"]
         /\ wait' = [wait EXCEPT ![k] = "FAILED"]
         /\ ended' = ended + 1
    ELSE UNCHANGED <<run, wait, ended>>

FailLocked(w) ==
    /\ worker[w].at = "found" /\ worker[w].op = "fail" /\ LockFree
    /\ FailRun(worker[w].wait)
    /\ Leaving(w)
    /\ UNCHANGED <<work, lock, batch, crashes, output, dispatched, clocks>>

-----------------------------------------------------------------------------
\* The suspension an advancing worker is about to reach.
Upcoming == run.pos + 1
Suspends == Upcoming \in Steps

\* FunctionExecutor: dispatched and committed before the run is.
DispatchFunction(w) ==
    /\ worker[w].at = "advancing" /\ Suspends /\ Kind(Upcoming) = "FUNCTION"
    /\ worker' = [worker EXCEPT ![w].at = "dispatched"]
    /\ work' = [work EXCEPT ![Upcoming] = "running"]
    /\ dispatched' = [dispatched EXCEPT ![Upcoming] = @ + 1]
    /\ UNCHANGED <<run, wait, lock, batch, crashes, output, ended, clocks>>

\* What the resumed step leaves behind: its wait settled, its output recorded.
Settled(w) == [k \in Steps |-> IF k = worker[w].wait THEN "COMPLETED" ELSE wait[k]]
Recorded(w) == IF run.pos = 0 THEN output
               ELSE [output EXCEPT ![run.pos] = worker[w].wait]

\* advance up to the next suspension, update, _persist_wait, commit.
Suspend(w) ==
    /\ Suspends
    /\ worker[w].at = IF Kind(Upcoming) = "FUNCTION" THEN "dispatched" ELSE "advancing"
    /\ \A k \in Steps : Settled(w)[k] # "ACTIVE"
    /\ run' = [pos |-> Upcoming,
               status |-> IF Kind(Upcoming) = "HUMAN" THEN "WAITING" ELSE "RUNNING"]
    /\ wait' = [Settled(w) EXCEPT ![Upcoming] = "ACTIVE"]
    /\ work' = IF Kind(Upcoming) = "AGENT"
               THEN [work EXCEPT ![Upcoming] = "running"] ELSE work
    /\ output' = Recorded(w)
    /\ lock' = None /\ Leaving(w)
    /\ UNCHANGED <<batch, crashes, dispatched, ended, clocks>>

Finish(w, status) ==
    /\ run' = [run EXCEPT !.status = status]
    /\ wait' = Settled(w)
    /\ output' = Recorded(w)
    /\ ended' = ended + 1
    /\ lock' = None /\ Leaving(w)
    /\ UNCHANGED <<work, batch, crashes, dispatched, clocks>>

\* The chain ends.
Complete(w) == worker[w].at = "advancing" /\ ~Suspends /\ Finish(w, "COMPLETED")

\* An executor raised; a function that could not be dispatched is one case.
NodeFails(w) == worker[w].at = "advancing" /\ Finish(w, "FAILED")

\* A transaction that never commits.  A function it dispatched runs on with an
\* id nobody kept; to the run it is as if it had never been dispatched.  The
\* queue runs a job that died again, until its tries are spent.
Abandon(w) ==
    LET lost == IF worker[w].at = "dispatched" THEN {Upcoming} ELSE {}
        job == IF w \in Jobs THEN {worker[w].wait} \cap Woken ELSE {}
    IN /\ Leaving(w)
       /\ lock' = IF lock = w THEN None ELSE lock
       /\ work' = [k \in Steps |-> IF k \in lost THEN "idle" ELSE work[k]]
       /\ \E again \in SUBSET job :
              event' = [k \in Steps |-> k \in again \/ (event[k] /\ k \notin lost)]
       /\ UNCHANGED <<run, wait, leased, overdue, batch, history>>

Crash(w) ==
    /\ crashes < MaxCrashes /\ ~IsIdle(w)
    /\ crashes' = crashes + 1
    /\ Abandon(w)

Cancelled == [k \in Steps |-> IF wait[k] = "ACTIVE" THEN "CANCELLED" ELSE wait[k]]

\* stop_underlying_work, which is best effort.
StopUnderlyingWork(ks) ==
    \E stopped \in SUBSET {k \in ks : work[k] = "running"} :
        work' = [k \in Steps |-> IF k \in stopped THEN "failed" ELSE work[k]]

\* cancel_run: lock, then the active wait, its work, the run.
CancelRun ==
    /\ LockFree /\ RunIsLive
    /\ run' = [run EXCEPT !.status = "CANCELLED"]
    /\ wait' = Cancelled
    /\ StopUnderlyingWork({k \in Steps : wait[k] = "ACTIVE"})
    /\ ended' = ended + 1
    /\ UNCHANGED <<worker, lock, batch, crashes, output, dispatched, clocks>>

-----------------------------------------------------------------------------
\* reconcile_stale_waits reads the clock and its batch once, then works
\* through the batch.
SweepList ==
    /\ IsIdle(Sweep) /\ batch = {}
    /\ batch' = {<<k, k \in overdue>> : k \in {k \in Steps : wait[k] = "ACTIVE"}}
    /\ batch' # {}
    /\ UNCHANGED <<run, wait, work, worker, lock, crashes, clocks, history>>

\* _expire_overdue_wait: stop the work, then fail the run for the wait as listed.
SweepExpires(k) ==
    /\ IsIdle(Sweep) /\ <<k, TRUE>> \in batch /\ Kind(k) # "TIME" /\ LockFree
    /\ batch' = batch \ {<<k, TRUE>>}
    /\ FailRun(k)
    /\ StopUnderlyingWork({k})
    /\ UNCHANGED <<worker, lock, crashes, output, dispatched, clocks>>

\* The sweep sees a cancelled function run as RUNNING (get_run_status).
Answered(k) == work[k] \in {"succeeded", "failed"} \/ Kind(k) = "TIME"

\* _apply_agent_status, _apply_function_status, _fire_time_wait_if_due; both
\* resume_internal and fail_internal look for the wait again.
SweepReconciles(k) ==
    /\ IsIdle(Sweep)
    /\ \E late \in BOOLEAN :
           /\ <<k, late>> \in batch /\ (late => Kind(k) = "TIME")
           /\ batch' = batch \ {<<k, late>>}
    /\ IF Answered(k) /\ wait[k] = "ACTIVE"
       THEN Reading(Sweep, k, IF work[k] = "failed" THEN "fail" ELSE "resume")
       ELSE UNCHANGED worker
    /\ UNCHANGED <<run, wait, work, lock, crashes, clocks, history>>

-----------------------------------------------------------------------------
\* The agent or function ends and its completion event is published.
WorkEnds(k) ==
    /\ work[k] = "running"
    /\ \E result \in Ends :
           /\ result = "cancelled" => Kind(k) = "FUNCTION"
           /\ work' = [work EXCEPT ![k] = result]
    /\ event' = [event EXCEPT ![k] = TRUE]
    /\ UNCHANGED <<run, wait, leased, overdue, worker, lock, batch, crashes, history>>

\* A completion event or a queued job is lost.
LoseEvent(k) ==
    /\ event[k]
    /\ event' = [event EXCEPT ![k] = FALSE]
    /\ UNCHANGED <<run, wait, work, leased, overdue, worker, lock, batch, crashes, history>>

\* claim_due_workflow_waits.
FireTimer(k) ==
    /\ Kind(k) = "TIME" /\ wait[k] = "ACTIVE" /\ ~leased[k]
    /\ leased' = [leased EXCEPT ![k] = TRUE]
    /\ event' = [event EXCEPT ![k] = TRUE]
    /\ UNCHANGED <<run, wait, work, overdue, worker, lock, batch, crashes, history>>

\* FIRE_LEASE_SECONDS pass.
LeaseEnds(k) ==
    /\ leased[k]
    /\ leased' = [leased EXCEPT ![k] = FALSE]
    /\ UNCHANGED <<run, wait, work, event, overdue, worker, lock, batch, crashes, history>>

BecomeOverdue(k) ==
    /\ Ceiling /\ wait[k] = "ACTIVE" /\ k \notin overdue
    /\ overdue' = overdue \cup {k}
    /\ UNCHANGED <<run, wait, work, event, leased, worker, lock, batch, crashes, history>>

-----------------------------------------------------------------------------
\* What a worker that has begun does next.
Proceed(w) ==
    \/ ResumeLocked(w) \/ FailLocked(w)
    \/ DispatchFunction(w) \/ Suspend(w) \/ Complete(w)

SweepStep == SweepList \/ \E k \in Steps : SweepExpires(k) \/ SweepReconciles(k)

Next ==
    \/ \E w \in Jobs : StartRun(w) \/ SubmitForm(w) \/ \E k \in Steps : FindWait(w, k)
    \/ \E w \in Workers : Proceed(w) \/ NodeFails(w) \/ Crash(w)
    \/ SweepStep
    \/ CancelRun
    \/ \E k \in Steps : \/ WorkEnds(k) \/ LoseEvent(k)
                        \/ FireTimer(k) \/ LeaseEnds(k) \/ BecomeOverdue(k)

Spec == Init /\ [][Next]_vars

\* Jobs of the queue and the cron do get to run, a resumed run is stepped by the
\* worker that holds it, and time passes.  Nobody has to answer a form, end
\* the work or deliver a completion.
Fairness ==
    /\ \A w \in Workers : WF_vars(Proceed(w))
    /\ WF_vars(SweepList)
    /\ \A k \in Steps : /\ WF_vars(SweepExpires(k) \/ SweepReconciles(k))
                        /\ WF_vars(BecomeOverdue(k))

FairSpec == Spec /\ Fairness

-----------------------------------------------------------------------------
\* A live run has one ACTIVE wait, the one it stands at, so that something can
\* wake it; a run that ended has none, so that no inbox shows a question nobody
\* will read (engine.py, cancel_run).  A failed run is left out: the sweep may
\* fail a run that has moved on (see SettledWaitIsFinal).
OneLiveWait ==
    run.status # "FAILED" =>
        \A k \in Steps : wait[k] = "ACTIVE" <=> (run.status \in Live /\ k = run.pos)

\* A step is resumed with the result of its own wait, whatever stale completion
\* a worker still held when it got the lock (domain/run.py, resume).
OwnOutput == \A k \in Steps : output[k] \in {0, k}

\* Duplicate completions, timers and sweeps never make a function run twice; only
\* a transaction that died after dispatching it can (executors/function.py).
DispatchedOnce == \A k \in Steps : dispatched[k] <= 1 + crashes

\* However many paths end a run together, one terminal event leaves it
\* (engine.py, _collect_terminal_event): schedules count outcomes by it.
EndedOnce == ended = Cardinality({run.status} \cap Terminal)

\* A wait that was answered, failed or cancelled stays so: what a person or the
\* work said is never overwritten ("late completion event finds no ACTIVE wait
\* and is dropped either way", execution/underlying_work.py).
SettledWaitIsFinal ==
    [][\A k \in Steps : wait[k] \in Terminal => wait'[k] = wait[k]]_<<wait>>

\* Every event may be lost and nobody need answer: the sweep and the ceiling
\* still bring every run to an end (run_resume_service.py, reconcile_stale_waits).
EveryRunEnds == run.status \in Live ~> run.status \in Terminal

=============================================================================
