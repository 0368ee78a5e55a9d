-------------------------- MODULE WorkflowRunsProofs -------------------------
(***************************************************************************)
(* Proofs about WorkflowRuns for any workflow, jobs and crashes: a run ends*)
(* once and a function is dispatched once per suspension but for crashes;  *)
(* and, for workflows without loops, a live run has the one wait it stands *)
(* at and every step is resumed with its own result.  The last part is     *)
(* about WaitSweep, the sweep over the waits of all runs.                  *)
(***************************************************************************)
EXTENDS WorkflowRuns, WaitSweep, FiniteSetTheorems, TLAPS

(* The worker that moves the run holds its row lock, and the run it moves is *)
(* one that has not begun or one that stands at a suspension.                *)
Moving(w) == worker[w].at \in {"advancing", "dispatched"}

RunStands ==
    \/ run.status \in Live /\ run.pos \in Steps
    \/ run.status = "absent" /\ run.pos = 0
    \/ run.status \in Terminal

LockMoves ==
    /\ \A w \in Workers : Moving(w) <=> lock = w
    /\ \A w \in Workers : Moving(w) => run.status \notin Terminal
    /\ \A w \in Workers : worker[w].at = "found" => worker[w].wait \in Steps

EndedAgrees == ended = IF run.status \in Terminal THEN 1 ELSE 0

(* A suspension ahead of the run has been dispatched for nothing but crashes,*)
(* unless the worker that moves the run has just dispatched it.              *)
Ahead(k) ==
    /\ run.pos < k
    /\ k = run.pos + 1 => \A w \in Workers : worker[w].at # "dispatched"

DispatchesCounted ==
    \A k \in Steps : /\ dispatched[k] <= crashes + 1
                     /\ Ahead(k) => dispatched[k] <= crashes

(* The inductive invariant for every workflow.                               *)
IndInv == TypeOK /\ RunStands /\ LockMoves /\ EndedAgrees /\ DispatchesCounted

(* In a workflow without loops the wait a worker resumes is the one the run  *)
(* stands at, and that one is the only one that is ACTIVE.                   *)
NoLoops == \A j, k \in Steps : Flow[j].node = Flow[k].node => j = k

OwnWait == \A w \in Workers : Moving(w) => worker[w].wait = run.pos

OwnInv == OwnWait /\ OneLiveWait /\ OwnOutput

-----------------------------------------------------------------------------
LEMMA Lengths ==
    /\ Len(Flow) \in Nat /\ Steps = 1..Len(Flow) /\ 1 \in Steps
    /\ \A k \in Steps : k \in Nat /\ k \in 0..Len(Flow) /\ k # 0
<1>1. Len(Flow) \in Nat /\ Len(Flow) >= 1
  BY FlowAssumption
<1> QED
  BY <1>1 DEF Steps

WorkerStates == [at : {"idle", "found", "advancing", "dispatched"},
                 wait : 0..Len(Flow), op : {"resume", "fail"}]
RunStates == [status : {"absent"} \cup Live \cup Terminal, pos : 0..Len(Flow) + 1]

LEMMA IdleState == Idle \in WorkerStates /\ Idle.at = "idle"
<1>1. 0 \in 0..Len(Flow)
  BY Lengths
<1> QED
  BY <1>1 DEF Idle, WorkerStates

LEMMA TypesOf ==
  ASSUME TypeOK
  PROVE  worker \in [Workers -> WorkerStates] /\ run \in RunStates
BY DEF TypeOK, WorkerStates, RunStates

OtherWorkers(w) == \A v \in Workers : v # w => worker'[v] = worker[v]

LEMMA Read ==
  ASSUME TypeOK, NEW w \in Workers, NEW k \in Steps, NEW op \in {"resume", "fail"},
         Reading(w, k, op)
  PROVE  /\ worker' \in [Workers -> WorkerStates] /\ OtherWorkers(w)
         /\ worker'[w].at = "found" /\ worker'[w].wait = k
<1>1. [at |-> "found", wait |-> k, op |-> op] \in WorkerStates
  BY Lengths DEF WorkerStates
<1> QED
  BY <1>1, TypesOf DEF Reading, OtherWorkers

LEMMA Locked ==
  ASSUME TypeOK, NEW w \in Workers, NEW k \in 0..Len(Flow), Locking(w, k)
  PROVE  /\ worker' \in [Workers -> WorkerStates] /\ OtherWorkers(w)
         /\ worker'[w].at = "advancing" /\ worker'[w].wait = k /\ lock' = w
<1>1. [at |-> "advancing", wait |-> k, op |-> "resume"] \in WorkerStates
  BY DEF WorkerStates
<1> QED
  BY <1>1, TypesOf DEF Locking, OtherWorkers

LEMMA Left ==
  ASSUME TypeOK, NEW w \in Workers, Leaving(w)
  PROVE  /\ worker' \in [Workers -> WorkerStates] /\ OtherWorkers(w)
         /\ worker'[w].at = "idle"
BY IdleState, TypesOf DEF Leaving, OtherWorkers

LEMMA NobodyMoves ==
  ASSUME LockMoves, LockFree
  PROVE  \A w \in Workers : ~Moving(w)
BY WorkerAssumption DEF LockMoves, LockFree

LEMMA StatusesDiffer ==
    /\ Live \cap Terminal = {} /\ "absent" \notin Live \cup Terminal
    /\ "FAILED" \in Terminal /\ "CANCELLED" \in Terminal /\ "COMPLETED" \in Terminal
    /\ "RUNNING" \in Live /\ "WAITING" \in Live /\ "ACTIVE" \notin Terminal
BY DEF Live, Terminal

-----------------------------------------------------------------------------
(* A worker that does not move the run may come and go.                      *)
ComesAndGoes(w) ==
    /\ ~Moving(w) /\ worker'[w].at \in {"idle", "found"}
    /\ worker'[w].at = "found" => worker'[w].wait \in Steps

LEMMA QuietStep ==
  ASSUME IndInv, TypeOK', UNCHANGED <<run, lock, dispatched, ended, crashes>>,
         \A w \in Workers : worker'[w] = worker[w] \/ ComesAndGoes(w)
  PROVE  IndInv'
<1>1. RunStands' /\ EndedAgrees'
  BY DEF IndInv, RunStands, EndedAgrees
<1>2. \A w \in Workers : /\ Moving(w)' <=> Moving(w)
                         /\ worker'[w].at = "dispatched" <=> worker[w].at = "dispatched"
  BY DEF ComesAndGoes, Moving
<1>3. LockMoves'
  BY <1>2 DEF IndInv, LockMoves, ComesAndGoes
<1>4. DispatchesCounted'
  BY <1>2 DEF IndInv, DispatchesCounted, Ahead
<1> QED
  BY <1>1, <1>3, <1>4 DEF IndInv

LEMMA QuietOwn ==
  ASSUME OwnInv, UNCHANGED <<run, wait, output>>,
         \A w \in Workers : worker'[w] = worker[w] \/ ComesAndGoes(w)
  PROVE  OwnInv'
<1>1. OwnWait'
  BY DEF OwnInv, OwnWait, Moving, ComesAndGoes
<1>2. OneLiveWait' /\ OwnOutput'
  BY DEF OwnInv, OneLiveWait, OwnOutput
<1> QED
  BY <1>1, <1>2 DEF OwnInv

(* A worker takes the lock of a run that has not ended.                      *)
LEMMA TakesLock ==
  ASSUME IndInv, NEW w \in Workers, NEW k \in 0..Len(Flow), LockFree, Locking(w, k),
         run.status \notin Terminal, TypeOK', UNCHANGED <<run, dispatched, ended, crashes>>
  PROVE  IndInv'
<1>1. \A v \in Workers : ~Moving(v)
  BY NobodyMoves DEF IndInv
<1>2. /\ OtherWorkers(w) /\ worker'[w].at = "advancing" /\ lock' = w
  BY Locked DEF IndInv
<1>3. RunStands' /\ EndedAgrees'
  BY DEF IndInv, RunStands, EndedAgrees
<1>4. LockMoves'
  BY <1>1, <1>2 DEF IndInv, LockMoves, Moving, OtherWorkers
<1>5. \A v \in Workers : worker[v].at # "dispatched" /\ worker'[v].at # "dispatched"
  BY <1>1, <1>2 DEF Moving, OtherWorkers
<1>6. DispatchesCounted'
  BY <1>5 DEF IndInv, DispatchesCounted, Ahead
<1> QED
  BY <1>3, <1>4, <1>6 DEF IndInv

LEMMA TakesOwn ==
  ASSUME IndInv, OwnInv, NEW w \in Workers, NEW k \in 0..Len(Flow), LockFree, Locking(w, k),
         k = run.pos, UNCHANGED <<run, wait, output>>
  PROVE  OwnInv'
<1>1. \A v \in Workers : ~Moving(v)
  BY NobodyMoves DEF IndInv
<1>2. OtherWorkers(w) /\ worker'[w].wait = k
  BY Locked DEF IndInv
<1>3. OwnWait'
  BY <1>1, <1>2 DEF OwnWait, Moving, OtherWorkers
<1>4. OneLiveWait' /\ OwnOutput'
  BY DEF OwnInv, OneLiveWait, OwnOutput
<1> QED
  BY <1>3, <1>4 DEF OwnInv

(* A live run nobody moves is ended.                                         *)
LEMMA EndsRun ==
  ASSUME IndInv, LockFree, RunIsLive, NEW s \in Terminal,
         run' = [run EXCEPT !.status = s], ended' = ended + 1, TypeOK',
         UNCHANGED <<lock, dispatched, crashes>>,
         \A w \in Workers : worker'[w] = worker[w] \/ ComesAndGoes(w)
  PROVE  IndInv'
<1>1. run'.status = s /\ run'.pos = run.pos
  BY TypesOf DEF IndInv, RunStates
<1>2. \A w \in Workers : ~Moving(w) /\ ~Moving(w)' /\ worker'[w].at # "dispatched"
  BY NobodyMoves DEF IndInv, ComesAndGoes, Moving
<1>3. RunStands'
  BY <1>1 DEF RunStands
<1>4. EndedAgrees'
  <2>1. run.status \notin Terminal
    BY StatusesDiffer DEF RunIsLive
  <2> QED
    BY <1>1, <2>1 DEF IndInv, EndedAgrees
<1>5. LockMoves'
  BY <1>2 DEF IndInv, LockMoves, ComesAndGoes
<1>6. DispatchesCounted'
  <2>1. \A w \in Workers : worker[w].at # "dispatched"
    BY <1>2 DEF Moving
  <2> QED
    BY <1>1, <1>2, <2>1 DEF IndInv, DispatchesCounted, Ahead
<1> QED
  BY <1>3, <1>4, <1>5, <1>6 DEF IndInv

LEMMA FailedOwn ==
  ASSUME IndInv, OwnInv, LockFree, run'.status = "FAILED", UNCHANGED output,
         \A w \in Workers : worker'[w] = worker[w] \/ ComesAndGoes(w)
  PROVE  OwnInv'
<1>1. \A w \in Workers : ~Moving(w)'
  BY NobodyMoves DEF IndInv, ComesAndGoes, Moving
<1>2. OwnWait'
  BY <1>1 DEF OwnWait
<1>3. OneLiveWait' /\ OwnOutput'
  BY DEF OwnInv, OneLiveWait, OwnOutput
<1> QED
  BY <1>2, <1>3 DEF OwnInv

-----------------------------------------------------------------------------
(* One lemma for each action.  The first part holds for every workflow; what *)
(* is said of OwnInv holds for those without loops.                          *)

(* Work, timers and events come and go; the sweep lists what it will read.   *)
LEMMA WorldStep ==
  ASSUME IndInv, NEW k \in Steps,
         WorkEnds(k) \/ LoseEvent(k) \/ FireTimer(k) \/ LeaseEnds(k) \/ BecomeOverdue(k)
  PROVE  IndInv' /\ (OwnInv => OwnInv')
<1> USE DEF history, clocks
<1>1. TypeOK
  BY DEF IndInv
<1>2. UNCHANGED <<run, wait, worker, lock, batch, crashes, output, dispatched, ended>>
  BY DEF WorkEnds, LoseEvent, FireTimer, LeaseEnds, BecomeOverdue
<1>3. TypeOK'
  <2>1. CASE WorkEnds(k)
    BY <1>1, <2>1 DEF WorkEnds, TypeOK
  <2>2. CASE LoseEvent(k)
    BY <1>1, <2>2 DEF LoseEvent, TypeOK
  <2>3. CASE FireTimer(k)
    BY <1>1, <2>3 DEF FireTimer, TypeOK
  <2>4. CASE LeaseEnds(k)
    BY <1>1, <2>4 DEF LeaseEnds, TypeOK
  <2>5. CASE BecomeOverdue(k)
    BY <1>1, <2>5 DEF BecomeOverdue, TypeOK
  <2> QED
    BY <2>1, <2>2, <2>3, <2>4, <2>5
<1> QED
  BY <1>2, <1>3, QuietStep, QuietOwn

LEMMA SweepListStep ==
  ASSUME IndInv, SweepList
  PROVE  IndInv' /\ (OwnInv => OwnInv')
<1> USE DEF SweepList, history, clocks
<1>1. batch' \in SUBSET (Steps \X BOOLEAN)
  <2>1. ASSUME NEW k \in Steps
        PROVE  <<k, k \in overdue>> \in Steps \X BOOLEAN
    <3>1. CASE k \in overdue
      <4>1. (k \in overdue) = TRUE
        BY <3>1
      <4> QED
        BY <4>1
    <3>2. CASE k \notin overdue
      <4>1. (k \in overdue) = FALSE
        BY <3>2
      <4> QED
        BY <4>1
    <3> QED
      BY <3>1, <3>2
  <2> QED
    BY <2>1, Zenon
<1>2. TypeOK'
  BY <1>1 DEF IndInv, TypeOK
<1> QED
  BY <1>2, QuietStep, QuietOwn

(* A job reads the wait its event names.                                     *)
LEMMA FindWaitStep ==
  ASSUME IndInv, NEW w \in Jobs, NEW k \in Steps, FindWait(w, k)
  PROVE  IndInv' /\ (OwnInv => OwnInv')
<1> USE DEF history
<1>1. TypeOK /\ w \in Workers
  BY DEF IndInv, Workers
<1>2. /\ IsIdle(w) /\ event' = [event EXCEPT ![k] = FALSE]
      /\ UNCHANGED <<run, wait, work, leased, overdue, lock, batch, crashes, history>>
      /\ UNCHANGED worker \/ \E op \in {"resume", "fail"} : Reading(w, k, op)
  BY DEF FindWait
<1>3. /\ worker' \in [Workers -> WorkerStates]
      /\ \A v \in Workers : worker'[v] = worker[v] \/ ComesAndGoes(v)
  <2>1. CASE UNCHANGED worker
    BY <1>1, <2>1, TypesOf
  <2>2. CASE \E op \in {"resume", "fail"} : Reading(w, k, op)
    <3>1. PICK op \in {"resume", "fail"} : Reading(w, k, op)
      BY <2>2
    <3>2. /\ worker' \in [Workers -> WorkerStates] /\ OtherWorkers(w)
          /\ worker'[w].at = "found" /\ worker'[w].wait = k
      BY <1>1, <3>1, Read
    <3> QED
      BY <1>2, <3>2 DEF OtherWorkers, ComesAndGoes, IsIdle, Moving
  <2> QED
    BY <1>2, <2>1, <2>2
<1>4. TypeOK'
  BY <1>1, <1>2, <1>3 DEF TypeOK, WorkerStates
<1> QED
  BY <1>2, <1>3, <1>4, QuietStep, QuietOwn

LEMMA SweepReconcilesStep ==
  ASSUME IndInv, NEW k \in Steps, SweepReconciles(k)
  PROVE  IndInv' /\ (OwnInv => OwnInv')
<1> USE DEF history, clocks
<1>1. TypeOK /\ Sweep \in Workers
  BY DEF IndInv, Workers
<1>2. /\ IsIdle(Sweep) /\ batch' \subseteq batch
      /\ UNCHANGED <<run, wait, work, lock, crashes, clocks, history>>
      /\ UNCHANGED worker \/ \E op \in {"resume", "fail"} : Reading(Sweep, k, op)
  BY DEF SweepReconciles
<1>3. /\ worker' \in [Workers -> WorkerStates]
      /\ \A v \in Workers : worker'[v] = worker[v] \/ ComesAndGoes(v)
  <2>1. CASE UNCHANGED worker
    BY <1>1, <2>1, TypesOf
  <2>2. CASE \E op \in {"resume", "fail"} : Reading(Sweep, k, op)
    <3>1. PICK op \in {"resume", "fail"} : Reading(Sweep, k, op)
      BY <2>2
    <3>2. /\ worker' \in [Workers -> WorkerStates] /\ OtherWorkers(Sweep)
          /\ worker'[Sweep].at = "found" /\ worker'[Sweep].wait = k
      BY <1>1, <3>1, Read
    <3> QED
      BY <1>2, <3>2 DEF OtherWorkers, ComesAndGoes, IsIdle, Moving
  <2> QED
    BY <1>2, <2>1, <2>2
<1>4. TypeOK'
  BY <1>1, <1>2, <1>3 DEF TypeOK, WorkerStates
<1> QED
  BY <1>2, <1>3, <1>4, QuietStep, QuietOwn

(* The three ways to take the row lock.                                      *)
LEMMA StartRunStep ==
  ASSUME IndInv, NEW w \in Jobs, StartRun(w)
  PROVE  IndInv' /\ (OwnInv => OwnInv')
<1> USE DEF history, clocks
<1>1. TypeOK /\ w \in Workers /\ 0 \in 0..Len(Flow)
  BY Lengths DEF IndInv, Workers
<1>2. /\ LockFree /\ run.status = "absent" /\ Locking(w, 0)
      /\ UNCHANGED <<run, wait, work, batch, crashes, clocks, history>>
  BY DEF StartRun
<1>3. worker' \in [Workers -> WorkerStates] /\ lock' = w
  BY <1>1, <1>2, Locked
<1>4. TypeOK'
  BY <1>1, <1>2, <1>3 DEF TypeOK, WorkerStates
<1>5. run.status \notin Terminal /\ run.pos = 0
  BY <1>2, StatusesDiffer DEF IndInv, RunStands
<1> QED
  BY <1>1, <1>2, <1>4, <1>5, TakesLock, TakesOwn

LEMMA SubmitFormStep ==
  ASSUME IndInv, NEW w \in Jobs, SubmitForm(w)
  PROVE  IndInv' /\ (OwnInv => OwnInv')
<1> USE DEF history, clocks
<1>1. TypeOK /\ w \in Workers
  BY DEF IndInv, Workers
<1>2. /\ LockFree /\ run.status = "WAITING" /\ Locking(w, run.pos)
      /\ UNCHANGED <<run, wait, work, batch, crashes, clocks, history>>
  BY DEF SubmitForm
<1>3. run.status \notin Terminal /\ run.pos \in 0..Len(Flow)
  BY <1>2, StatusesDiffer, Lengths DEF IndInv, RunStands
<1>4. worker' \in [Workers -> WorkerStates] /\ lock' = w
  BY <1>1, <1>2, <1>3, Locked
<1>5. TypeOK'
  BY <1>1, <1>2, <1>4 DEF TypeOK, WorkerStates
<1> QED
  BY <1>1, <1>2, <1>3, <1>5, TakesLock, TakesOwn

LEMMA ResumeLockedStep ==
  ASSUME IndInv, NEW w \in Workers, ResumeLocked(w)
  PROVE  IndInv' /\ (NoLoops /\ OwnInv => OwnInv')
<1> USE DEF history, clocks
<1>1. TypeOK /\ worker[w].wait \in Steps
  BY DEF IndInv, LockMoves, ResumeLocked
<1>2. PICK k \in 0..Len(Flow) : k = worker[w].wait
  BY <1>1, Lengths
<1>3. /\ worker[w].at = "found" /\ LockFree
      /\ UNCHANGED <<run, wait, work, batch, crashes, clocks, history>>
  BY DEF ResumeLocked
<1>4. CASE RunIsLive /\ ResumeAccepts(worker[w].wait)
  <2>1. Locking(w, k)
    BY <1>2, <1>4 DEF ResumeLocked
  <2>2. worker' \in [Workers -> WorkerStates] /\ lock' = w
    BY <1>1, <2>1, Locked
  <2>3. TypeOK'
    BY <1>1, <1>3, <2>2 DEF TypeOK, WorkerStates
  <2>4. run.status \notin Terminal /\ run.pos \in Steps
    BY <1>4, StatusesDiffer DEF IndInv, RunStands, RunIsLive
  <2>5. NoLoops => k = run.pos
    BY <1>1, <1>2, <1>4, <2>4 DEF ResumeAccepts, NoLoops
  <2> QED
    BY <1>3, <2>1, <2>3, <2>4, <2>5, TakesLock, TakesOwn
<1>5. CASE ~(RunIsLive /\ ResumeAccepts(worker[w].wait))
  <2>1. Leaving(w) /\ UNCHANGED lock
    BY <1>5 DEF ResumeLocked
  <2>2. worker' \in [Workers -> WorkerStates] /\ OtherWorkers(w) /\ worker'[w].at = "idle"
    BY <1>1, <2>1, Left
  <2>3. TypeOK'
    BY <1>1, <1>3, <2>1, <2>2 DEF TypeOK, WorkerStates
  <2>4. \A v \in Workers : worker'[v] = worker[v] \/ ComesAndGoes(v)
    BY <1>3, <2>2 DEF OtherWorkers, ComesAndGoes, Moving
  <2> QED
    BY <1>3, <2>1, <2>3, <2>4, QuietStep, QuietOwn
<1> QED
  BY <1>4, <1>5

(* The three ways in which somebody else ends the run.                       *)
LEMMA StoppingKeepsType ==
  ASSUME TypeOK, NEW ks, StopUnderlyingWork(ks)
  PROVE  work' \in [Steps -> ({"idle", "running"} \cup Ends)]
BY DEF StopUnderlyingWork, TypeOK, Ends

LEMMA FailRunTypes ==
  ASSUME IndInv, NEW k \in Steps, FailRun(k)
  PROVE  /\ run' \in RunStates /\ wait' \in [Steps -> {"absent", "ACTIVE"} \cup Terminal]
         /\ ended' \in 0..1
<1>1. TypeOK /\ run \in RunStates
  BY TypesOf DEF IndInv
<1>2. CASE RunIsLive
  <2>1. ended = 0
    BY <1>2, StatusesDiffer DEF IndInv, EndedAgrees, RunIsLive
  <2>2. /\ run' = [run EXCEPT !.status = "FAILED"] /\ wait' = [wait EXCEPT ![k] = "FAILED"]
        /\ ended' = ended + 1 /\ "FAILED" \in Terminal
    BY <1>2, StatusesDiffer DEF FailRun
  <2>3. run' \in RunStates
    BY <1>1, <2>2 DEF RunStates
  <2>4. wait' \in [Steps -> {"absent", "ACTIVE"} \cup Terminal]
    BY <1>1, <2>2 DEF TypeOK
  <2> QED
    BY <2>1, <2>2, <2>3, <2>4
<1>3. CASE ~RunIsLive
  BY <1>1, <1>3 DEF FailRun, TypeOK
<1> QED
  BY <1>2, <1>3

LEMMA FailLockedStep ==
  ASSUME IndInv, NEW w \in Workers, FailLocked(w)
  PROVE  IndInv' /\ (OwnInv => OwnInv')
<1> USE DEF clocks
<1>1. TypeOK /\ worker[w].wait \in Steps
  BY DEF IndInv, LockMoves, FailLocked
<1>2. PICK k \in Steps : k = worker[w].wait
  BY <1>1
<1>3. /\ worker[w].at = "found" /\ LockFree /\ FailRun(k) /\ Leaving(w)
      /\ UNCHANGED <<work, lock, batch, crashes, output, dispatched, clocks>>
  BY <1>2 DEF FailLocked
<1>4. worker' \in [Workers -> WorkerStates] /\ OtherWorkers(w) /\ worker'[w].at = "idle"
  BY <1>1, <1>3, Left
<1>5. TypeOK'
  BY <1>1, <1>3, <1>4, FailRunTypes DEF TypeOK, WorkerStates, RunStates
<1>6. \A v \in Workers : worker'[v] = worker[v] \/ ComesAndGoes(v)
  BY <1>3, <1>4 DEF OtherWorkers, ComesAndGoes, Moving
<1>7. CASE RunIsLive
  <2>1. /\ run' = [run EXCEPT !.status = "FAILED"] /\ ended' = ended + 1
        /\ run'.status = "FAILED"
    BY <1>1, <1>3, <1>7, TypesOf DEF FailRun, RunStates
  <2> QED
    BY <1>3, <1>5, <1>6, <1>7, <2>1, EndsRun, FailedOwn, StatusesDiffer
<1>8. CASE ~RunIsLive
  <2>1. UNCHANGED <<run, wait, ended>>
    BY <1>3, <1>8 DEF FailRun
  <2> QED
    BY <1>3, <1>5, <1>6, <2>1, QuietStep, QuietOwn
<1> QED
  BY <1>7, <1>8

LEMMA SweepExpiresStep ==
  ASSUME IndInv, NEW k \in Steps, SweepExpires(k)
  PROVE  IndInv' /\ (OwnInv => OwnInv')
<1> USE DEF clocks
<1>1. /\ TypeOK /\ LockFree /\ FailRun(k) /\ StopUnderlyingWork({k}) /\ batch' \subseteq batch
      /\ UNCHANGED <<worker, lock, crashes, output, dispatched, clocks>>
  BY DEF IndInv, SweepExpires
<1>2. TypeOK'
  BY <1>1, FailRunTypes, StoppingKeepsType DEF TypeOK, RunStates
<1>3. CASE RunIsLive
  <2>1. /\ run' = [run EXCEPT !.status = "FAILED"] /\ ended' = ended + 1
        /\ run'.status = "FAILED"
    BY <1>1, <1>3, TypesOf DEF FailRun, RunStates
  <2> QED
    BY <1>1, <1>2, <1>3, <2>1, EndsRun, FailedOwn, StatusesDiffer
<1>4. CASE ~RunIsLive
  <2>1. UNCHANGED <<run, wait, ended>>
    BY <1>1, <1>4 DEF FailRun
  <2> QED
    BY <1>1, <1>2, <2>1, QuietStep, QuietOwn
<1> QED
  BY <1>3, <1>4

LEMMA CancelRunStep ==
  ASSUME IndInv, CancelRun
  PROVE  IndInv' /\ (OwnInv => OwnInv')
<1> USE DEF clocks
<1>1. /\ TypeOK /\ LockFree /\ RunIsLive
      /\ run' = [run EXCEPT !.status = "CANCELLED"]
      /\ wait' = Cancelled /\ ended' = ended + 1
      /\ StopUnderlyingWork({k \in Steps : wait[k] = "ACTIVE"})
      /\ UNCHANGED <<worker, lock, batch, crashes, output, dispatched, clocks>>
  BY DEF IndInv, CancelRun
<1>2. /\ run' \in RunStates /\ run'.status = "CANCELLED" /\ run'.pos = run.pos
  BY <1>1, TypesOf DEF RunStates, Terminal
<1>3. wait' \in [Steps -> {"absent", "ACTIVE"} \cup Terminal] /\ \A k \in Steps : wait'[k] # "ACTIVE"
  BY <1>1, StatusesDiffer DEF TypeOK, Cancelled
<1>4. ended' \in 0..1
  <2>1. ended = 0
    BY <1>1, StatusesDiffer DEF IndInv, EndedAgrees, RunIsLive
  <2> QED
    BY <1>1, <2>1
<1>5. TypeOK'
  BY <1>1, <1>2, <1>3, <1>4, StoppingKeepsType DEF TypeOK, RunStates
<1>6. IndInv'
  BY <1>1, <1>5, EndsRun, StatusesDiffer
<1>7. ASSUME OwnInv
      PROVE  OwnInv'
  <2>1. OneLiveWait'
    BY <1>2, <1>3, StatusesDiffer DEF OneLiveWait
  <2>2. OwnWait' /\ OwnOutput'
    BY <1>1, <1>2, <1>7 DEF OwnInv, OwnWait, Moving, OwnOutput
  <2> QED
    BY <2>1, <2>2 DEF OwnInv
<1> QED
  BY <1>6, <1>7

(* What the worker that moves the run does with it.                          *)
LEMMA Mover ==
  ASSUME IndInv, NEW w \in Workers, Moving(w)
  PROVE  /\ lock = w /\ run.status \notin Terminal /\ \A v \in Workers : Moving(v) => v = w
         /\ ended = 0
BY DEF IndInv, LockMoves, EndedAgrees

LEMMA DispatchFunctionStep ==
  ASSUME IndInv, NEW w \in Workers, DispatchFunction(w)
  PROVE  IndInv' /\ (OwnInv => OwnInv')
<1> USE DEF clocks
<1>1. /\ TypeOK /\ worker[w].at = "advancing" /\ Upcoming \in Steps
      /\ worker' = [worker EXCEPT ![w].at = "dispatched"]
      /\ work' = [work EXCEPT ![Upcoming] = "running"]
      /\ dispatched' = [dispatched EXCEPT ![Upcoming] = @ + 1]
      /\ UNCHANGED <<run, wait, lock, batch, crashes, output, ended, clocks>>
  BY DEF IndInv, DispatchFunction, Suspends
<1>2. worker[w] \in WorkerStates /\ worker \in [Workers -> WorkerStates]
  BY <1>1, TypesOf
<1>3. /\ worker' \in [Workers -> WorkerStates] /\ OtherWorkers(w)
      /\ worker'[w].at = "dispatched" /\ worker'[w].wait = worker[w].wait
  BY <1>1, <1>2 DEF WorkerStates, OtherWorkers
<1>4. PICK u \in Steps : u = run.pos + 1
  BY <1>1 DEF Upcoming
<1>5. /\ dispatched' \in [Steps -> Nat] /\ dispatched'[u] = dispatched[u] + 1
      /\ \A k \in Steps : k # u => dispatched'[k] = dispatched[k]
  BY <1>1, <1>4 DEF TypeOK, Upcoming
<1>6. TypeOK'
  BY <1>1, <1>3, <1>5 DEF TypeOK, WorkerStates
<1>7. Moving(w) /\ \A v \in Workers : Moving(v)' <=> Moving(v)
  BY <1>1, <1>3 DEF Moving, OtherWorkers
<1>8. RunStands' /\ EndedAgrees'
  BY <1>1 DEF IndInv, RunStands, EndedAgrees
<1>9. LockMoves'
  BY <1>1, <1>3, <1>7 DEF IndInv, LockMoves, OtherWorkers
<1>10. DispatchesCounted'
  <2>1. run.pos \in Nat /\ crashes \in Nat /\ dispatched \in [Steps -> Nat]
    BY <1>1, Lengths DEF TypeOK
  <2>2. \A v \in Workers : worker[v].at # "dispatched"
    BY <1>1, <1>7, Mover DEF Moving
  <2>3. Ahead(u)
    BY <1>4, <2>1, <2>2 DEF Ahead
  <2>4. dispatched'[u] <= crashes + 1 /\ ~Ahead(u)'
    BY <1>1, <1>3, <1>4, <1>5, <2>1, <2>3 DEF IndInv, DispatchesCounted, Ahead
  <2>5. ASSUME NEW k \in Steps, k # u
        PROVE  Ahead(k)' => Ahead(k)
    BY <1>1, <2>2, <2>5 DEF Ahead
  <2> QED
    BY <1>1, <1>5, <2>4, <2>5 DEF IndInv, DispatchesCounted
<1>11. ASSUME OwnInv
       PROVE  OwnInv'
  <2>1. OwnWait'
    BY <1>1, <1>3, <1>7, <1>11 DEF OwnInv, OwnWait, OtherWorkers
  <2> QED
    BY <1>1, <1>11, <2>1 DEF OwnInv, OneLiveWait, OwnOutput
<1> QED
  BY <1>6, <1>8, <1>9, <1>10, <1>11 DEF IndInv

LEMMA RecordedType ==
  ASSUME TypeOK, NEW w \in Workers
  PROVE  /\ Recorded(w) \in [Steps -> 0..Len(Flow)]
         /\ Settled(w) \in [Steps -> {"absent", "ACTIVE"} \cup Terminal]
<1>1. worker[w].wait \in 0..Len(Flow)
  BY TypesOf DEF WorkerStates
<1> QED
  BY <1>1, StatusesDiffer DEF TypeOK, Recorded, Settled

LEMMA RecordedOwn ==
  ASSUME TypeOK, NEW w \in Workers, OwnOutput, worker[w].wait = run.pos,
         output' = Recorded(w)
  PROVE  OwnOutput'
<1>1. output \in [Steps -> 0..Len(Flow)]
  BY DEF TypeOK
<1>2. CASE run.pos = 0
  BY <1>2 DEF Recorded, OwnOutput
<1>3. CASE run.pos # 0
  <2>1. output' = [output EXCEPT ![run.pos] = run.pos]
    BY <1>3 DEF Recorded
  <2> QED
    BY <1>1, <2>1 DEF OwnOutput
<1> QED
  BY <1>2, <1>3

(* The mover gives the lock back.                                            *)
LEMMA Unlocks ==
  ASSUME IndInv, NEW w \in Workers, Moving(w), Leaving(w), lock' = None
  PROVE  /\ \A v \in Workers : ~Moving(v)' /\ worker'[v].at # "dispatched"
         /\ LockMoves' /\ OwnWait' /\ worker' \in [Workers -> WorkerStates]
<1>1. worker' \in [Workers -> WorkerStates] /\ OtherWorkers(w) /\ worker'[w].at = "idle"
  BY Left DEF IndInv
<1>2. \A v \in Workers : ~Moving(v)'
  BY <1>1, Mover DEF Moving, OtherWorkers
<1>3. LockMoves'
  BY <1>1, <1>2, WorkerAssumption DEF IndInv, LockMoves, OtherWorkers
<1>4. OwnWait'
  BY <1>2 DEF OwnWait
<1> QED
  BY <1>1, <1>2, <1>3, <1>4 DEF Moving

LEMMA SuspendStep ==
  ASSUME IndInv, NEW w \in Workers, Suspend(w)
  PROVE  IndInv' /\ (OwnInv => OwnInv')
<1> USE DEF clocks
<1>1. PICK u \in Steps : u = Upcoming
  BY DEF Suspend, Suspends
<1>2. /\ TypeOK /\ Moving(w) /\ \A k \in Steps : Settled(w)[k] # "ACTIVE"
      /\ run' = [pos |-> u, status |-> IF Kind(u) = "HUMAN" THEN "WAITING" ELSE "RUNNING"]
      /\ wait' = [Settled(w) EXCEPT ![u] = "ACTIVE"]
      /\ work' = IF Kind(u) = "AGENT" THEN [work EXCEPT ![u] = "running"] ELSE work
      /\ output' = Recorded(w) /\ lock' = None /\ Leaving(w)
      /\ UNCHANGED <<batch, crashes, dispatched, ended, clocks>>
  BY <1>1 DEF IndInv, Suspend, Moving
<1>3. run'.pos = u /\ run'.status \in Live /\ u \in Nat /\ u \in 0..Len(Flow) + 1
  BY <1>2, Lengths DEF Live
<1>4. /\ \A v \in Workers : ~Moving(v)' /\ worker'[v].at # "dispatched"
      /\ LockMoves' /\ OwnWait' /\ worker' \in [Workers -> WorkerStates]
  BY <1>2, Unlocks
<1>5. TypeOK'
  <2>1. run' \in RunStates
    BY <1>2, <1>3, StatusesDiffer DEF RunStates
  <2>2. /\ wait' \in [Steps -> {"absent", "ACTIVE"} \cup Terminal]
        /\ output' \in [Steps -> 0..Len(Flow)]
    BY <1>2, RecordedType
  <2>3. work' \in [Steps -> ({"idle", "running"} \cup Ends)]
    BY <1>2 DEF TypeOK
  <2> QED
    BY <1>2, <1>4, <2>1, <2>2, <2>3 DEF TypeOK, WorkerStates, RunStates
<1>6. RunStands' /\ EndedAgrees'
  BY <1>2, <1>3, Mover, StatusesDiffer DEF RunStands, EndedAgrees
<1>7. DispatchesCounted'
  <2>1. run.pos \in Nat /\ u = run.pos + 1
    BY <1>1, <1>2, Lengths DEF TypeOK, Upcoming
  <2>2. ASSUME NEW k \in Steps, Ahead(k)'
        PROVE  Ahead(k)
    BY <1>3, <2>1, <2>2, Lengths DEF Ahead
  <2> QED
    BY <1>2, <2>2 DEF IndInv, DispatchesCounted
<1>8. ASSUME OwnInv
      PROVE  OwnInv'
  <2>1. OneLiveWait'
    <3>1. Settled(w) \in [Steps -> {"absent", "ACTIVE"} \cup Terminal]
      BY <1>2, RecordedType
    <3>2. \A k \in Steps : wait'[k] = "ACTIVE" <=> k = u
      BY <1>2, <3>1
    <3> QED
      BY <1>3, <3>2 DEF OneLiveWait
  <2>2. OwnOutput'
    BY <1>2, <1>8, RecordedOwn DEF OwnInv, OwnWait
  <2> QED
    BY <1>4, <2>1, <2>2 DEF OwnInv
<1> QED
  BY <1>4, <1>5, <1>6, <1>7, <1>8 DEF IndInv

LEMMA FinishStep ==
  ASSUME IndInv, NEW w \in Workers, worker[w].at = "advancing",
         NEW status \in {"COMPLETED", "FAILED"}, Finish(w, status)
  PROVE  IndInv' /\ (OwnInv => OwnInv')
<1> USE DEF clocks
<1>1. /\ TypeOK /\ Moving(w)
      /\ run' = [run EXCEPT !.status = status] /\ wait' = Settled(w)
      /\ output' = Recorded(w) /\ ended' = ended + 1 /\ lock' = None /\ Leaving(w)
      /\ UNCHANGED <<work, batch, crashes, dispatched, clocks>>
  BY DEF IndInv, Finish, Moving
<1>2. run' \in RunStates /\ run'.pos = run.pos /\ run'.status = status /\ status \in Terminal
  BY <1>1, TypesOf, StatusesDiffer DEF RunStates
<1>3. /\ \A v \in Workers : ~Moving(v)' /\ worker'[v].at # "dispatched"
      /\ LockMoves' /\ OwnWait' /\ worker' \in [Workers -> WorkerStates]
  BY <1>1, Unlocks
<1>4. TypeOK'
  <2>1. /\ wait' \in [Steps -> {"absent", "ACTIVE"} \cup Terminal]
        /\ output' \in [Steps -> 0..Len(Flow)]
    BY <1>1, RecordedType
  <2>2. ended' \in 0..1
    BY <1>1, Mover
  <2> QED
    BY <1>1, <1>2, <1>3, <2>1, <2>2 DEF TypeOK, WorkerStates, RunStates
<1>5. RunStands' /\ EndedAgrees'
  BY <1>1, <1>2, Mover DEF RunStands, EndedAgrees
<1>6. DispatchesCounted'
  <2>1. \A v \in Workers : worker[v].at # "dispatched"
    BY <1>1, Mover DEF Moving
  <2>2. ASSUME NEW k \in Steps, Ahead(k)'
        PROVE  Ahead(k)
    BY <1>2, <2>1, <2>2 DEF Ahead
  <2> QED
    BY <1>1, <2>2 DEF IndInv, DispatchesCounted
<1>7. ASSUME OwnInv
      PROVE  OwnInv'
  <2>1. worker[w].wait = run.pos
    BY <1>1, <1>7 DEF OwnInv, OwnWait
  <2>2. OwnOutput'
    BY <1>1, <1>7, <2>1, RecordedOwn DEF OwnInv
  <2>3. ASSUME NEW k \in Steps, status = "COMPLETED"
        PROVE  wait'[k] # "ACTIVE"
    <3>1. CASE k = run.pos
      BY <1>1, <2>1, <3>1 DEF Settled
    <3>2. CASE k # run.pos
      <4>1. run.status # "FAILED"
        BY <1>1, Mover, StatusesDiffer
      <4>2. wait[k] # "ACTIVE" /\ wait'[k] = wait[k]
        BY <1>1, <1>7, <2>1, <3>2, <4>1 DEF OwnInv, OneLiveWait, Settled
      <4> QED
        BY <4>2
    <3> QED
      BY <3>1, <3>2
  <2>4. OneLiveWait'
    BY <1>2, <2>3, StatusesDiffer DEF OneLiveWait
  <2> QED
    BY <1>3, <2>2, <2>4 DEF OwnInv
<1> QED
  BY <1>3, <1>4, <1>5, <1>6, <1>7 DEF IndInv

(* A transaction that never commits costs at most one dispatch.              *)
LEMMA CrashStep ==
  ASSUME IndInv, NEW w \in Workers, Crash(w)
  PROVE  IndInv' /\ (OwnInv => OwnInv')
<1> USE DEF history
<1>1. /\ TypeOK /\ crashes < MaxCrashes /\ crashes' = crashes + 1
      /\ Leaving(w) /\ lock' = IF lock = w THEN None ELSE lock
      /\ UNCHANGED <<run, wait, leased, overdue, batch, history>>
  BY DEF IndInv, Crash, Abandon
<1>2. worker' \in [Workers -> WorkerStates] /\ OtherWorkers(w) /\ worker'[w].at = "idle"
  BY <1>1, Left
<1>3. crashes' \in 0..MaxCrashes /\ crashes \in Nat
  BY <1>1, BoundAssumption DEF TypeOK
<1>4. /\ work' \in [Steps -> ({"idle", "running"} \cup Ends)]
      /\ event' \in [Steps -> BOOLEAN]
  <2> DEFINE lost == IF worker[w].at = "dispatched" THEN {Upcoming} ELSE {}
             job == IF w \in Jobs THEN {worker[w].wait} \cap Woken ELSE {}
  <2>1. /\ work' = [k \in Steps |-> IF k \in lost THEN "idle" ELSE work[k]]
        /\ \E again \in SUBSET job :
              event' = [k \in Steps |-> k \in again \/ (event[k] /\ k \notin lost)]
    BY DEF Crash, Abandon
  <2> HIDE DEF lost, job
  <2>2. work' \in [Steps -> ({"idle", "running"} \cup Ends)]
    BY <1>1, <2>1 DEF TypeOK
  <2>3. event' \in [Steps -> BOOLEAN]
    BY <2>1
  <2> QED
    BY <2>2, <2>3
<1>5. TypeOK'
  BY <1>1, <1>2, <1>3, <1>4 DEF TypeOK, WorkerStates
<1>6. \A v \in Workers : Moving(v)' <=> Moving(v) /\ v # w
  BY <1>2 DEF Moving, OtherWorkers
<1>7. RunStands' /\ EndedAgrees'
  BY <1>1 DEF IndInv, RunStands, EndedAgrees
<1>8. LockMoves'
  <2>1. \A v \in Workers : v # None
    BY WorkerAssumption
  <2>2. \A v \in Workers : Moving(v)' <=> lock' = v
    BY <1>1, <1>6, <2>1 DEF IndInv, LockMoves
  <2> QED
    BY <1>1, <1>2, <1>6, <2>2 DEF IndInv, LockMoves, OtherWorkers
<1>9. DispatchesCounted'
  <2>1. ASSUME NEW k \in Steps
        PROVE  dispatched[k] <= crashes + 1
    BY DEF IndInv, DispatchesCounted
  <2>2. dispatched \in [Steps -> Nat]
    BY <1>1 DEF TypeOK
  <2>3. ASSUME NEW k \in Steps
        PROVE  dispatched'[k] <= crashes'
    BY <1>1, <1>3, <2>1, <2>2
  <2>4. ASSUME NEW k \in Steps
        PROVE  dispatched'[k] <= crashes' + 1
    BY <1>1, <1>3, <2>1, <2>2
  <2> QED
    BY <2>3, <2>4 DEF DispatchesCounted
<1>10. ASSUME OwnInv
       PROVE  OwnInv'
  <2>1. OwnWait'
    BY <1>1, <1>2, <1>6, <1>10 DEF OwnInv, OwnWait, OtherWorkers
  <2> QED
    BY <1>1, <1>10, <2>1 DEF OwnInv, OneLiveWait, OwnOutput
<1> QED
  BY <1>5, <1>7, <1>8, <1>9, <1>10 DEF IndInv

-----------------------------------------------------------------------------
LEMMA Initially == Init => IndInv /\ OwnInv
<1> SUFFICES ASSUME Init PROVE IndInv /\ OwnInv
  OBVIOUS
<1> USE DEF Init
<1>1. /\ 0 \in 0..Len(Flow) /\ 0 \in 0..Len(Flow) + 1 /\ 0 \in 0..1
      /\ 0 \in 0..MaxCrashes /\ 0 \in Nat
  BY Lengths, BoundAssumption
<1>2. \A w \in Workers : worker[w].at = "idle"
  BY IdleState
<1>3. TypeOK
  <2>1. worker \in [Workers -> WorkerStates]
    BY IdleState
  <2> QED
    BY <1>1, <2>1 DEF TypeOK, WorkerStates
<1>4. RunStands /\ EndedAgrees
  BY StatusesDiffer DEF RunStands, EndedAgrees
<1>5. LockMoves
  BY <1>2, WorkerAssumption DEF LockMoves, Moving
<1>6. DispatchesCounted
  BY DEF DispatchesCounted
<1>7. OwnInv
  BY <1>2, StatusesDiffer DEF OwnInv, OwnWait, Moving, OneLiveWait, OwnOutput
<1> QED
  BY <1>3, <1>4, <1>5, <1>6, <1>7 DEF IndInv

LEMMA StutterStep ==
  ASSUME IndInv, UNCHANGED vars
  PROVE  IndInv' /\ (OwnInv => OwnInv')
<1> USE DEF vars
<1>1. TypeOK'
  BY DEF IndInv, TypeOK
<1> QED
  BY <1>1, QuietStep, QuietOwn

LEMMA NextStep ==
  ASSUME IndInv, [Next]_vars
  PROVE  IndInv' /\ (NoLoops /\ OwnInv => OwnInv')
<1>1. ASSUME NEW w \in Jobs, StartRun(w) \/ SubmitForm(w) \/ \E k \in Steps : FindWait(w, k)
      PROVE  IndInv' /\ (OwnInv => OwnInv')
  BY <1>1, StartRunStep, SubmitFormStep, FindWaitStep
<1>2. ASSUME NEW w \in Workers, Proceed(w)
      PROVE  IndInv' /\ (NoLoops /\ OwnInv => OwnInv')
  <2>1. CASE Complete(w)
    BY <2>1, FinishStep DEF Complete
  <2>2. CASE ResumeLocked(w) \/ FailLocked(w) \/ DispatchFunction(w) \/ Suspend(w)
    BY <2>2, ResumeLockedStep, FailLockedStep, DispatchFunctionStep, SuspendStep
  <2> QED
    BY <1>2, <2>1, <2>2 DEF Proceed
<1>3. ASSUME NEW w \in Workers, NodeFails(w) \/ Crash(w)
      PROVE  IndInv' /\ (OwnInv => OwnInv')
  <2>1. CASE NodeFails(w)
    BY <2>1, FinishStep DEF NodeFails
  <2>2. CASE Crash(w)
    BY <2>2, CrashStep
  <2> QED
    BY <1>3, <2>1, <2>2
<1>4. ASSUME SweepStep
      PROVE  IndInv' /\ (OwnInv => OwnInv')
  BY <1>4, SweepListStep, SweepExpiresStep, SweepReconcilesStep DEF SweepStep
<1>5. ASSUME NEW k \in Steps, \/ WorkEnds(k) \/ LoseEvent(k)
                              \/ FireTimer(k) \/ LeaseEnds(k) \/ BecomeOverdue(k)
      PROVE  IndInv' /\ (OwnInv => OwnInv')
  BY <1>5, WorldStep
<1> QED
  BY <1>1, <1>2, <1>3, <1>4, <1>5, CancelRunStep, StutterStep DEF Next

(* What holds in every workflow: who holds the lock moves the run, runs end  *)
(* once, dispatches are counted.                                             *)
THEOREM Invariance == Spec => []IndInv
<1>1. Init => IndInv
  BY Initially
<1>2. IndInv /\ [Next]_vars => IndInv'
  BY NextStep
<1> QED
  BY <1>1, <1>2, PTL DEF Spec

(* What a workflow that visits no node twice has besides: the wait a worker  *)
(* resumes is the one its run stands at.                                     *)
THEOREM OwnInvariance ==
  ASSUME NoLoops
  PROVE  Spec => []OwnInv
<1>1. Init => IndInv /\ OwnInv
  BY Initially
<1>2. IndInv /\ OwnInv /\ [Next]_vars => OwnInv'
  BY NextStep
<1> QED
  BY <1>1, <1>2, Invariance, PTL DEF Spec

-----------------------------------------------------------------------------
(* The state is of its type: a run ends at most once, and a worker only ever *)
(* resumes a suspension the workflow has.                                    *)
THEOREM TypeCorrectness == Spec => []TypeOK
<1>1. IndInv => TypeOK
  BY DEF IndInv
<1> QED
  BY <1>1, Invariance, PTL

(* However many completions, timers, people and sweeps end a run together,   *)
(* one terminal event leaves it (_collect_terminal_event).                   *)
THEOREM RunsEndOnce == Spec => []EndedOnce
<1>1. IndInv => EndedOnce
  <2>1. CASE run.status \in Terminal
    <3>1. {run.status} \cap Terminal = {run.status}
      BY <2>1
    <3> QED
      BY <2>1, <3>1, FS_Singleton DEF IndInv, EndedAgrees, EndedOnce
  <2>2. CASE run.status \notin Terminal
    <3>1. {run.status} \cap Terminal = {}
      BY <2>2
    <3> QED
      BY <2>2, <3>1, FS_EmptySet DEF IndInv, EndedAgrees, EndedOnce
  <2> QED
    BY <2>1, <2>2
<1> QED
  BY <1>1, Invariance, PTL

(* In any workflow, loops included, the function of a suspension is          *)
(* dispatched once and once more for each transaction that died after it.    *)
THEOREM FunctionsRunOnce == Spec => []DispatchedOnce
<1>1. IndInv => DispatchedOnce
  BY DEF IndInv, TypeOK, DispatchesCounted, DispatchedOnce
<1> QED
  BY <1>1, Invariance, PTL

(* A live run has exactly the wait it stands at, and one that completed or   *)
(* was cancelled has none, in workflows that visit no node twice: two        *)
(* iterations of a loop have one node, and a stale wake of the first resumes *)
(* the second (ResumeAccepts).                                               *)
THEOREM LiveRunsHaveTheirWait ==
  ASSUME NoLoops
  PROVE  Spec => []OneLiveWait
<1>1. OwnInv => OneLiveWait
  BY DEF OwnInv
<1> QED
  BY <1>1, OwnInvariance, PTL

(* Under the same condition a step records the result of its own wait,       *)
(* whatever stale wake a worker still held when it got the lock.             *)
THEOREM StepsKeepTheirOutput ==
  ASSUME NoLoops
  PROVE  Spec => []OwnOutput
<1>1. OwnInv => OwnOutput
  BY DEF OwnInv
<1> QED
  BY <1>1, OwnInvariance, PTL

-----------------------------------------------------------------------------
(* The reconciliation sweep over the waits of all runs, whatever their number*)
(* and the size of its batch.                                                *)
(*                                                                           *)
(* Once the sweep of a period ran, what it should have ended by then is,     *)
(* unless a full batch of older waits kept it out.                           *)
Slack == IF swept THEN 0 ELSE 1

InTime(w) ==
    waitOf[w].status = "ACTIVE" /\ ~PassedOver(w) =>
        /\ KindOf[w] # "TIME" => now <= waitOf[w].created + MaxAge(w) + Slack
        /\ Answerable(w) < Never
             => now <= Latest(Answerable(w), waitOf[w].created + After) + Slack

SweepInv ==
    /\ SweepTypeOK
    /\ \A v \in listed : waitOf[v].status # "absent"
    /\ \A w \in Waits : InTime(w)

WaitRows == [status : Statuses, created : 0..Horizon, due : 0..Horizon]

LEMMA SweepTypes ==
  ASSUME SweepTypeOK
  PROVE  /\ now \in Nat /\ swept \in BOOLEAN /\ Slack \in {0, 1}
         /\ waitOf \in [Waits -> WaitRows] /\ endedAt \in [Waits -> 0..Horizon + 1]
         /\ \A w \in Waits : /\ waitOf[w].created \in Nat /\ waitOf[w].due \in Nat
                             /\ endedAt[w] \in Nat /\ MaxAge(w) \in Nat
                             /\ Answerable(w) \in Nat /\ After <= MaxAge(w)
         /\ listed \subseteq Waits /\ hidden \subseteq Waits
BY SweepAssumption DEF SweepTypeOK, Never, WaitRows, Slack, MaxAge, Answerable

(* A batch that had no room keeps its place as long as its waits do.         *)
LEMMA StaysPassedOver ==
  ASSUME SweepTypeOK, NEW w \in Waits, listed' = listed,
         waitOf'[w].created = waitOf[w].created,
         \A v \in listed : waitOf'[v].created = waitOf[v].created
  PROVE  PassedOver(w)' <=> PassedOver(w)
BY DEF PassedOver

(* Where only the statuses of some waits change, the rest is as before.      *)
LEMMA OthersInTime ==
  ASSUME SweepInv, NEW v \in Waits, waitOf'[v] = waitOf[v],
         UNCHANGED <<now, swept, listed>>, endedAt'[v] = endedAt[v],
         v \in hidden' <=> v \in hidden,
         \A u \in listed : waitOf'[u].created = waitOf[u].created
  PROVE  InTime(v)'
<1>1. PassedOver(v)' <=> PassedOver(v)
  BY StaysPassedOver DEF SweepInv
<1>2. Answerable(v)' = Answerable(v) /\ Slack' = Slack /\ MaxAge(v)' = MaxAge(v)
  BY DEF Answerable, Slack, MaxAge, Never
<1>3. Latest(Answerable(v), waitOf[v].created + After)'
        = Latest(Answerable(v), waitOf[v].created + After)
  BY <1>2 DEF Latest
<1> QED
  BY <1>1, <1>2, <1>3 DEF SweepInv, InTime, Never

LEMMA SweepBegins ==
  ASSUME SweepInit
  PROVE  SweepInv
<1>1. 0 \in 0..Horizon /\ Horizon + 1 \in 0..Horizon + 1
  BY SweepAssumption
<1>2. [status |-> "absent", created |-> 0, due |-> 0] \in WaitRows
  BY <1>1 DEF WaitRows, Statuses
<1>3. SweepTypeOK
  BY <1>1, <1>2 DEF SweepInit, SweepTypeOK, Never, WaitRows
<1>4. \A w \in Waits : waitOf[w].status = "absent"
  BY DEF SweepInit
<1> QED
  BY <1>3, <1>4 DEF SweepInv, SweepInit, InTime

LEMMA SuspendInTime ==
  ASSUME SweepInv, NEW w \in Waits, PersistWait(w)
  PROVE  SweepInv'
<1>1. PICK due \in 0..Horizon :
        waitOf' = [waitOf EXCEPT ![w] = [status |-> "ACTIVE", created |-> now, due |-> due]]
  <2>1. 0 \in 0..Horizon /\ now..Horizon \subseteq 0..Horizon
    BY SweepTypes, SweepAssumption DEF SweepInv
  <2> QED
    BY <2>1 DEF PersistWait
<1>2. PICK new \in WaitRows : new = [status |-> "ACTIVE", created |-> now, due |-> due]
  BY DEF SweepInv, SweepTypeOK, WaitRows, Statuses
<1>3. /\ waitOf' \in [Waits -> WaitRows] /\ waitOf'[w] = new /\ new.created = now
      /\ \A v \in Waits : v # w => waitOf'[v] = waitOf[v]
      /\ UNCHANGED <<now, swept, endedAt, hidden, listed>>
      /\ w \notin listed /\ listed \subseteq Waits
  BY <1>1, <1>2, SweepTypes DEF SweepInv, PersistWait
<1>4. SweepTypeOK'
  BY <1>3 DEF SweepInv, SweepTypeOK, WaitRows
<1>5. InTime(w)'
  <2>1. PICK a \in Nat : a = Answerable(w)'
    BY <1>2, <1>3, SweepTypes DEF SweepInv, Answerable, WaitRows, Never
  <2>2. now <= Latest(a, now + After) + Slack /\ now <= now + MaxAge(w) + Slack
    BY <2>1, SweepTypes, SweepAssumption DEF SweepInv, Latest
  <2> QED
    BY <1>3, <2>1, <2>2 DEF InTime, Slack, MaxAge, Latest
<1>6. ASSUME NEW v \in Waits, v # w
      PROVE  InTime(v)'
  BY <1>3, <1>6, OthersInTime
<1> QED
  BY <1>2, <1>3, <1>4, <1>5, <1>6 DEF SweepInv

LEMMA WorkEndsInTime ==
  ASSUME SweepInv, NEW w \in Waits, WorkSettles(w)
  PROVE  SweepInv'
<1>1. now \in 0..Horizon + 1
  BY SweepTypes, SweepAssumption DEF SweepInv, SweepTypeOK
<1>2. /\ endedAt' \in [Waits -> 0..Horizon + 1] /\ endedAt'[w] = now
      /\ \A v \in Waits : v # w => endedAt'[v] = endedAt[v]
      /\ UNCHANGED <<now, swept, waitOf, listed>> /\ KindOf[w] = "MACHINE"
      /\ hidden' \in {hidden, hidden \cup {w}}
  BY <1>1, SweepTypes DEF SweepInv, WorkSettles
<1>3. SweepTypeOK'
  BY <1>2 DEF SweepInv, SweepTypeOK, Never
<1>4. InTime(w)'
  <2>1. now <= Latest(now, waitOf[w].created + After) + Slack
    BY SweepTypes, SweepAssumption DEF SweepInv, Latest
  <2>2. Answerable(w)' < Never => Answerable(w)' = now
    <3>1. ~(Never < Never) /\ Never' = Never
      BY SweepAssumption DEF Never
    <3>2. Answerable(w)' \in {Never, now}
      BY <1>2, <3>1 DEF Answerable
    <3> QED
      BY <3>1, <3>2
  <2>3. PassedOver(w)' <=> PassedOver(w)
    BY <1>2, StaysPassedOver DEF SweepInv
  <2> QED
    BY <1>2, <2>1, <2>2, <2>3 DEF SweepInv, InTime, Slack, MaxAge, Latest, Never
<1>5. ASSUME NEW v \in Waits, v # w
      PROVE  InTime(v)'
  BY <1>2, <1>5, OthersInTime
<1> QED
  BY <1>2, <1>3, <1>4, <1>5 DEF SweepInv

LEMMA WakeInTime ==
  ASSUME SweepInv, NEW w \in Waits, Wake(w)
  PROVE  SweepInv'
<1>1. waitOf' = [waitOf EXCEPT ![w].status = "COMPLETED"] /\ UNCHANGED <<now, swept, endedAt, hidden, listed>>
  BY DEF Wake, CompleteWait
<1>2. /\ waitOf' \in [Waits -> WaitRows] /\ waitOf'[w].status = "COMPLETED"
      /\ waitOf'[w].created = waitOf[w].created /\ listed \subseteq Waits
      /\ \A v \in Waits : v # w => waitOf'[v] = waitOf[v]
  BY <1>1, SweepTypes DEF SweepInv, WaitRows, Statuses
<1>3. SweepTypeOK'
  BY <1>1, <1>2 DEF SweepInv, SweepTypeOK, WaitRows
<1>4. ASSUME NEW v \in Waits
      PROVE  InTime(v)'
  <2>1. CASE v = w
    BY <1>2, <2>1 DEF InTime
  <2>2. CASE v # w
    BY <1>1, <1>2, <2>2, OthersInTime
  <2> QED
    BY <2>1, <2>2
<1> QED
  BY <1>1, <1>2, <1>3, <1>4 DEF SweepInv

(* Every wait that is still ACTIVE after the sweep is within its ceiling, and*)
(* is too young to look at or has nothing to be woken by.                    *)
LEMMA SweepLeaves ==
  ASSUME SweepInv, ReconcileStaleWaits
  PROVE  SweepInv'
<1>1. PICK b \in Batches :
        waitOf' = [w \in Waits |->
                     IF w \in b /\ Overdue(w) THEN [waitOf[w] EXCEPT !.status = "FAILED"]
                     ELSE IF w \in b /\ Finished(w)
                          THEN [waitOf[w] EXCEPT !.status = "COMPLETED"]
                          ELSE waitOf[w]] /\ listed' = b
  BY DEF ReconcileStaleWaits
<1>2. /\ b \subseteq Stale /\ Stale \subseteq Waits
      /\ \A w \in Stale \ b : \A v \in b : waitOf[v].created <= waitOf[w].created
  BY DEF Batches, Stale, Active
<1>3. UNCHANGED <<now, endedAt, hidden>> /\ swept' = TRUE
  BY DEF ReconcileStaleWaits
<1>4. ASSUME NEW w \in Waits
      PROVE  /\ waitOf'[w] \in WaitRows
             /\ waitOf'[w].created = waitOf[w].created
             /\ \/ waitOf'[w].status \in {"FAILED", "COMPLETED"}
                \/ waitOf'[w] = waitOf[w] /\ (w \in b => ~Overdue(w) /\ ~Finished(w))
  <2>1. waitOf[w] \in WaitRows
    BY SweepTypes DEF SweepInv
  <2>2. [waitOf[w] EXCEPT !.status = "FAILED"] \in WaitRows
    BY <2>1 DEF WaitRows, Statuses
  <2>3. [waitOf[w] EXCEPT !.status = "COMPLETED"] \in WaitRows
    BY <2>1 DEF WaitRows, Statuses
  <2>4. /\ [waitOf[w] EXCEPT !.status = "FAILED"].status = "FAILED"
        /\ [waitOf[w] EXCEPT !.status = "COMPLETED"].status = "COMPLETED"
        /\ [waitOf[w] EXCEPT !.status = "FAILED"].created = waitOf[w].created
        /\ [waitOf[w] EXCEPT !.status = "COMPLETED"].created = waitOf[w].created
    BY <2>1 DEF WaitRows
  <2>5. CASE w \in b /\ Overdue(w)
    BY <1>1, <2>2, <2>4, <2>5
  <2>6. CASE ~(w \in b /\ Overdue(w)) /\ w \in b /\ Finished(w)
    BY <1>1, <2>3, <2>4, <2>6
  <2>7. CASE ~(w \in b /\ Overdue(w)) /\ ~(w \in b /\ Finished(w))
    BY <1>1, <1>2, <2>1, <2>7
  <2> QED
    BY <2>5, <2>6, <2>7
<1>5. SweepTypeOK'
  <2>1. waitOf' \in [Waits -> WaitRows]
    BY <1>1, <1>4
  <2> QED
    BY <1>1, <1>2, <1>3, <2>1 DEF SweepInv, SweepTypeOK, WaitRows
<1>6. ASSUME NEW w \in Stale \ b
      PROVE  PassedOver(w)'
  <2>1. Cardinality(b) = Batch
    <3>1. IsFiniteSet(Stale)
      BY <1>2, FS_Subset, WaitsAssumption
    <3>2. b # Stale /\ b \subseteq Stale
      BY <1>2, <1>6
    <3>3. Cardinality(b) # Cardinality(Stale)
      BY <3>1, <3>2, FS_Subset
    <3>4. Cardinality(b) = IF Cardinality(Stale) < Batch
                           THEN Cardinality(Stale) ELSE Batch
      BY DEF Batches
    <3> QED
      BY <3>3, <3>4
  <2>2. \A v \in b : waitOf'[v].created <= waitOf'[w].created
    BY <1>2, <1>4, <1>6
  <2> QED
    BY <1>1, <1>6, <2>1, <2>2 DEF PassedOver
<1>7. \A v \in listed' : waitOf'[v].status # "absent"
  <2> SUFFICES ASSUME NEW v \in b
               PROVE  waitOf'[v].status # "absent"
    BY <1>1
  <2>1. v \in Waits /\ waitOf[v].status = "ACTIVE"
    BY <1>2 DEF Stale, Active
  <2> QED
    BY <1>4, <2>1
<1>8. ASSUME NEW w \in Waits, waitOf'[w].status = "ACTIVE", ~PassedOver(w)'
      PROVE  InTime(w)'
  <2>1. waitOf'[w] = waitOf[w] /\ waitOf[w].status = "ACTIVE"
    BY <1>4, <1>8
  <2>2. /\ now \in Nat /\ After \in Nat /\ waitOf[w].created \in Nat /\ waitOf[w].due \in Nat
        /\ endedAt[w] \in Nat /\ MaxAge(w) \in Nat /\ After <= MaxAge(w)
    BY SweepTypes, SweepAssumption DEF SweepInv
  <2>3. waitOf[w].created + After <= now
             => w \in Stale /\ ~Overdue(w) /\ ~Finished(w)
    BY <1>4, <1>8, <1>6, <2>1 DEF Stale, Active
  <2>4. KindOf[w] # "TIME" => now < waitOf[w].created + MaxAge(w)
    BY <2>2, <2>3 DEF Overdue, MaxAge
  <2>5. Answerable(w) \in Nat /\ now \in 0..Horizon
    BY SweepTypes DEF SweepInv, SweepTypeOK
  <2>6. now < Answerable(w) \/ now < waitOf[w].created + After
    BY <2>2, <2>3, <2>5, SweepAssumption DEF Finished, Answerable, Never
  <2>7. now <= Latest(Answerable(w), waitOf[w].created + After)
    BY <2>2, <2>6, <2>5 DEF Latest
  <2>8. /\ Answerable(w)' = Answerable(w) /\ MaxAge(w)' = MaxAge(w)
        /\ Slack' = 0
    BY <1>3, <2>1 DEF Answerable, MaxAge, Slack, Never
  <2>9. PICK latest \in Nat :
          latest = Latest(Answerable(w), waitOf[w].created + After)
    BY <2>2, <2>5 DEF Latest
  <2>10. Latest(Answerable(w), waitOf[w].created + After)' = latest
    BY <2>1, <2>8, <2>9 DEF Latest
  <2>11. now <= waitOf[w].created + MaxAge(w) + 0 \/ KindOf[w] = "TIME"
    BY <2>2, <2>4
  <2>12. now <= latest + 0
    BY <2>2, <2>7, <2>9
  <2> QED
    BY <1>3, <2>1, <2>8, <2>10, <2>11, <2>12 DEF InTime
<1>9. \A w \in Waits : InTime(w)'
  BY <1>8 DEF InTime
<1> QED
  BY <1>5, <1>9, <1>7 DEF SweepInv

LEMMA TickInTime ==
  ASSUME SweepInv, Tick
  PROVE  SweepInv'
<1>1. /\ swept /\ now < Horizon /\ now' = now + 1 /\ swept' = FALSE
      /\ UNCHANGED <<waitOf, endedAt, hidden, listed>>
  BY DEF Tick
<1>2. SweepTypeOK'
  <2>1. now + 1 \in 0..Horizon
    BY <1>1, SweepTypes, SweepAssumption DEF SweepInv
  <2> QED
    BY <1>1, <2>1 DEF SweepInv, SweepTypeOK
<1>3. ASSUME NEW w \in Waits
      PROVE  InTime(w)'
  <2>1. Slack = 0 /\ Slack' = 1
    BY <1>1 DEF Slack
  <2>2. PICK latest \in Nat :
          latest = Latest(Answerable(w), waitOf[w].created + After)
    BY SweepTypes, SweepAssumption DEF SweepInv, Latest
  <2>3. Latest(Answerable(w), waitOf[w].created + After)' = latest
    BY <1>1, <2>2 DEF Latest, Answerable, Never
  <2>4. /\ Answerable(w)' = Answerable(w) /\ MaxAge(w)' = MaxAge(w)
        /\ PassedOver(w)' <=> PassedOver(w)
    BY <1>1, StaysPassedOver DEF SweepInv, Answerable, MaxAge, Never
  <2>5. now \in Nat /\ waitOf[w].created \in Nat /\ MaxAge(w) \in Nat
    BY SweepTypes DEF SweepInv
  <2> QED
    BY <1>1, <2>1, <2>2, <2>3, <2>4, <2>5 DEF SweepInv, InTime, Never
<1> QED
  BY <1>1, <1>2, <1>3 DEF SweepInv

(* The sweep keeps every wait in time that its batches reach.                *)
THEOREM SweepInvariance ==
  SweepSpec => []SweepInv
<1>1. SweepInit => SweepInv
  BY SweepBegins
<1>2. ASSUME SweepInv, [SweepNext]_sweepVars
      PROVE  SweepInv'
  <2>1. CASE UNCHANGED sweepVars
    <3>1. UNCHANGED <<now, swept, waitOf, endedAt, hidden, listed>>
      BY <2>1 DEF sweepVars
    <3>2. SweepTypeOK'
      BY <1>2, <3>1 DEF SweepInv, SweepTypeOK
    <3>3. ASSUME NEW w \in Waits
          PROVE  InTime(w)'
      BY <1>2, <3>1, OthersInTime
    <3> QED
      BY <1>2, <3>1, <3>2, <3>3 DEF SweepInv
  <2> QED
    BY <1>2, <2>1, SuspendInTime, WorkEndsInTime, WakeInTime, SweepLeaves, TickInTime
       DEF SweepNext
<1> QED
  BY <1>1, <1>2, PTL DEF SweepSpec

(* A hung step or an unanswered form is failed within a period after its     *)
(* ceiling, for any number of waits and any batch, unless a full batch of    *)
(* waits no younger than it was all the last sweep looked at.                *)
THEOREM NoWaitOverstays ==
  SweepSpec => []NoneOverstays
<1>1. SweepInv => NoneOverstays
  BY SweepTypes DEF SweepInv, InTime, NoneOverstays, WithinCeiling, Active
<1> QED
  BY <1>1, SweepInvariance, PTL

(* A run whose wake was lost moves on within a period after the work behind  *)
(* it ended and the wait is old enough to be looked at, with the same        *)
(* exception.                                                                *)
THEOREM LostWakesAreRecovered ==
  SweepSpec => []LostWakeIsRecovered
<1>1. SweepInv => LostWakeIsRecovered
  <2> SUFFICES ASSUME SweepInv, NEW w \in Waits, waitOf[w].status = "ACTIVE",
                      Answerable(w) < Never, ~PassedOver(w)
               PROVE  now <= Latest(Answerable(w), waitOf[w].created + After) + 1
    BY DEF LostWakeIsRecovered, Active
  <2>1. PICK latest \in Nat :
          latest = Latest(Answerable(w), waitOf[w].created + After)
    BY SweepTypes, SweepAssumption DEF SweepInv, Latest
  <2> QED
    BY <2>1, SweepTypes DEF SweepInv, InTime
<1> QED
  BY <1>1, SweepInvariance, PTL

=============================================================================
