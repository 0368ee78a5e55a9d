-------------------------- MODULE ScheduleRunsProofs -------------------------
(***************************************************************************)
(* Proofs about ScheduleRuns for any occurrences, workers, limits and      *)
(* faults: a target starts once, the ledger tells what the target did, the *)
(* breaker counts every outcome, and no re-armed row is left with nobody.  *)
(***************************************************************************)
EXTENDS ScheduleRuns, FiniteSetTheorems, TLAPS

(* What the ledger and a target may say of each other: an outcome is one end *)
(* of the target, a target that has ended shows its last end, a row nobody   *)
(* has launched has no target, and a launch is counted once.                 *)
Unlaunched == {"absent", "RECEIVED"}

LedgerOf(r) ==
    /\ row[r].outcome # "none" => <<row[r].outcome, row[r].completed>> \in ends[r]
    /\ target[r].status \in Outcomes => <<target[r].status, target[r].at>> \in ends[r]
    /\ row[r].status \in Unlaunched => target[r].status = "none"
    /\ r \in report => target[r].status # "none"
    /\ target[r].status = "none" => ends[r] = {}
    /\ started[r] <= 1 /\ (target[r].status = "none" => started[r] = 0)

LedgerAgrees == \A r \in Rows : LedgerOf(r)

(* A row the breaker passes over.                                            *)
Neutral(e) == e.outcome = "none" /\ e.status # "DEAD_LETTERED"

(* What a worker knows of the row it works on, at each point of its work.    *)
StandsAt(w) ==
    /\ worker[w].at = "idle" => worker[w].cause = "none"
    /\ worker[w].at = "claimed" =>
          /\ worker[w].cause = "fire" /\ Neutral(row[worker[w].row])
          /\ worker[w].staged.status = "PROCESSING" /\ worker[w].staged.outcome = "none"
    /\ worker[w].at = "launched" =>
          worker[w].cause = "fire" /\ target[worker[w].row].status # "none"
    /\ worker[w].at = "settling" =>
          /\ worker[w].staged.status \notin Unlaunched /\ worker[w].cause # "none"
          /\ worker[w].staged.outcome # "none" =>
                <<worker[w].staged.outcome, worker[w].staged.completed>> \in ends[worker[w].row]
          /\ worker[w].cause # "fire" => row[worker[w].row].status \notin Unlaunched
          /\ worker[w].cause = "report" => target[worker[w].row].status # "none"

Holds(w, r) == worker[w].at \in {"claimed", "settling"} /\ worker[w].row = r

LocksExclude ==
    \A r \in Rows : \A v, w \in Workers : Holds(v, r) /\ Holds(w, r) => v = w

WorkersStand == LocksExclude /\ \A w \in Workers : StandsAt(w)

(* The inductive invariant.                                                  *)
IndInv == TypeOK /\ LedgerAgrees /\ WorkersStand /\ BreakerTracksLedger /\ NoneStranded

-----------------------------------------------------------------------------
(* What the helpers of ScheduleRuns do to one worker and to one row: the     *)
(* others stay as they are.                                                  *)
OtherWorkers(w) == \A v \in Workers : v # w => worker'[v] = worker[v]
OtherRows(r) == \A s \in Rows : s # r => row'[s] = row[s]

LEMMA SomeRow == (CHOOSE r \in Rows : TRUE) \in Rows
<1>1. PICK o \in Occurrences : TRUE
  BY SetsAssumption
<1>2. <<o, "first">> \in Rows
  BY DEF Rows
<1> QED
  BY <1>2

WorkerStates == [at : {"idle", "claimed", "launched", "settling"}, row : Rows,
                 staged : Row, cause : {"none", "fire", "report", "sweep"}]
TargetStates == [status : {"none", "running"} \cup Outcomes, at : 0..clock]

LEMMA TypesOf ==
  ASSUME TypeOK
  PROVE  /\ worker \in [Workers -> WorkerStates] /\ target \in [Rows -> TargetStates]
         /\ row \in [Rows -> Row] /\ clock \in Nat
BY DEF TypeOK, WorkerStates, TargetStates

LEMMA AbsentIsRow == Absent \in Row
<1>1. 0 \in 0..MaxAttempts /\ 0 \in Nat
  BY LimitsAssumption
<1> QED
  BY <1>1 DEF Absent, Row, Statuses

(* The ways a row is rewritten stay in its type.                             *)
LEMMA Rewritten ==
  ASSUME NEW e \in Row, NEW s \in Statuses, NEW c \in Nat
  PROVE  /\ [e EXCEPT !.status = s] \in Row
         /\ [e EXCEPT !.status = s].status = s
         /\ [e EXCEPT !.status = s].outcome = e.outcome
         /\ [e EXCEPT !.status = s].completed = e.completed
         /\ [e EXCEPT !.status = s, !.completed = c] \in Row
         /\ [e EXCEPT !.status = s, !.completed = c].status = s
         /\ [e EXCEPT !.status = s, !.completed = c].outcome = e.outcome
BY DEF Row

LEMMA AttemptedRow ==
  ASSUME NEW e \in Row, ~GivenUp(e)
  PROVE  /\ Attempted(e) \in Row /\ Attempted(e).status = "PROCESSING"
         /\ Attempted(e).outcome = e.outcome
<1>1. e.attempts \in 0..MaxAttempts /\ e.attempts + 1 \in 0..MaxAttempts
  BY LimitsAssumption DEF Row, GivenUp
<1>2. "PROCESSING" \in Statuses /\ 0 \in Nat
  BY DEF Statuses
<1>3. PICK n \in 0..MaxAttempts : n = e.attempts + 1
  BY <1>1
<1>4. Attempted(e) = [e EXCEPT !.status = "PROCESSING", !.attempts = n, !.completed = 0]
  BY <1>3 DEF Attempted
<1> QED
  BY <1>2, <1>4 DEF Row

LEMMA DeadLetteredRow ==
  ASSUME TypeOK, NEW e \in Row
  PROVE  /\ DeadLettered(e) \in Row /\ DeadLettered(e).status = "DEAD_LETTERED"
         /\ DeadLettered(e).outcome = e.outcome
<1>1. "DEAD_LETTERED" \in Statuses
  BY DEF Statuses
<1>2. PICK c \in Nat : c = clock + 1
  BY DEF TypeOK
<1>3. DeadLettered(e) = [e EXCEPT !.status = "DEAD_LETTERED", !.completed = c]
  BY <1>2 DEF DeadLettered
<1> QED
  BY <1>1, <1>3 DEF Row

LEMMA ConcludedRow ==
  ASSUME TypeOK, NEW e \in Row, NEW r \in Rows, target[r].status \in Outcomes
  PROVE  /\ Concluded(e, r) \in Row /\ Concluded(e, r).status = e.status
         /\ Concluded(e, r).outcome = target[r].status
         /\ Concluded(e, r).completed = target[r].at
<1>1. target[r].at \in Nat
  BY TypesOf DEF TargetStates
<1> QED
  BY <1>1 DEF Row, Concluded

LEMMA Turning ==
  ASSUME TypeOK, NEW w \in Workers, NEW r \in Rows, NEW staged \in Row,
         NEW at \in {"idle", "claimed", "launched", "settling"},
         NEW cause \in {"none", "fire", "report", "sweep"},
         Turns(w, at, r, staged, cause)
  PROVE  /\ worker' \in [Workers -> WorkerStates] /\ OtherWorkers(w)
         /\ worker'[w].at = at /\ worker'[w].row = r
         /\ worker'[w].staged = staged /\ worker'[w].cause = cause
<1>1. [at |-> at, row |-> r, staged |-> staged, cause |-> cause] \in WorkerStates
  BY DEF WorkerStates
<1> QED
  BY <1>1, TypesOf DEF Turns, OtherWorkers

LEMMA Resting ==
  ASSUME TypeOK, NEW w \in Workers, Rests(w)
  PROVE  /\ worker' \in [Workers -> WorkerStates] /\ OtherWorkers(w)
         /\ worker'[w].at = "idle" /\ worker'[w].cause = "none"
<1>1. AtRest \in WorkerStates /\ AtRest.at = "idle" /\ AtRest.cause = "none"
  BY SomeRow, AbsentIsRow DEF AtRest, WorkerStates
<1> QED
  BY <1>1, TypesOf DEF Rests, OtherWorkers

LEMMA Writing ==
  ASSUME TypeOK, NEW r \in Rows, NEW new \in Row, Writes(r, new)
  PROVE  /\ row' \in [Rows -> Row] /\ OtherRows(r) /\ row'[r] = new
         /\ stale' \in SUBSET Rows
BY TypesOf DEF Writes, OtherRows, TypeOK

-----------------------------------------------------------------------------
(* The breaker.  The count is finite, rows it passes over do not change it,  *)
(* and a ledger without failures counts zero.                                *)
LEMMA RowsAreFinite == IsFiniteSet(Rows)
<1>1. IsFiniteSet({"first", "redrive"})
  <2>1. IsFiniteSet({"first"}) /\ {"first", "redrive"} = {"first"} \cup {"redrive"}
    BY FS_Singleton
  <2> QED
    BY <2>1, FS_AddElement
<1> QED
  BY <1>1, FS_Product, SetsAssumption DEF Rows

LEMMA StreakIsNatural ==
  ASSUME NEW ledger
  PROVE  Streak(ledger) \in Nat
<1> DEFINE counted == {r \in Rows :
        /\ IsFailure(ledger[r])
        /\ \A s \in Rows : IsSuccess(ledger[s]) => ledger[s].completed < ledger[r].completed}
<1>1. counted \subseteq Rows
  OBVIOUS
<1>2. Cardinality(counted) \in Nat
  BY <1>1, RowsAreFinite, FS_Subset, FS_CardinalityType
<1> QED
  BY <1>2 DEF Streak

CountsAlike(e, f) ==
    \/ Neutral(e) /\ Neutral(f)
    \/ e.outcome = f.outcome /\ e.outcome # "none" /\ e.completed = f.completed

LEMMA SameStreak ==
  ASSUME NEW old, NEW new,
         \A r \in Rows : new[r] = old[r] \/ CountsAlike(old[r], new[r])
  PROVE  Streak(new) = Streak(old)
<1>1. ASSUME NEW r \in Rows
      PROVE  /\ IsFailure(new[r]) <=> IsFailure(old[r])
             /\ IsSuccess(new[r]) <=> IsSuccess(old[r])
             /\ IsFailure(old[r]) \/ IsSuccess(old[r]) => new[r].completed = old[r].completed
  <2>1. CASE new[r] = old[r]
    BY <2>1
  <2>2. CASE CountsAlike(old[r], new[r])
    BY <2>2 DEF CountsAlike, Neutral, IsFailure, IsSuccess
  <2> QED
    BY <1>1, <2>1, <2>2
<1>2. ASSUME NEW r \in Rows
      PROVE  (/\ IsFailure(new[r])
              /\ \A s \in Rows : IsSuccess(new[s]) => new[s].completed < new[r].completed)
         <=> (/\ IsFailure(old[r])
              /\ \A s \in Rows : IsSuccess(old[s]) => old[s].completed < old[r].completed)
  <2>1. CASE ~IsFailure(old[r])
    BY <1>1, <2>1
  <2>2. CASE IsFailure(old[r])
    <3>1. IsFailure(new[r]) /\ new[r].completed = old[r].completed
      BY <1>1, <2>2
    <3>2. ASSUME NEW s \in Rows
          PROVE  (IsSuccess(new[s]) => new[s].completed < new[r].completed)
             <=> (IsSuccess(old[s]) => old[s].completed < old[r].completed)
      BY <1>1, <3>1
    <3> QED
      BY <2>2, <3>1, <3>2
  <2> QED
    BY <2>1, <2>2
<1> QED
  BY <1>2 DEF Streak

LEMMA NoFailureNoStreak ==
  ASSUME NEW ledger, {r \in Rows : IsFailure(ledger[r])} = {}
  PROVE  Streak(ledger) = 0
<1>1. {r \in Rows :
        /\ IsFailure(ledger[r])
        /\ \A s \in Rows : IsSuccess(ledger[s]) => ledger[s].completed < ledger[r].completed} = {}
  OBVIOUS
<1> QED
  BY <1>1, FS_EmptySet DEF Streak

LEMMA KeepsBreaker ==
  ASSUME BreakerTracksLedger, UNCHANGED <<streak, forgiven>>, active' => active,
         \A r \in Rows : row'[r] = row[r] \/ CountsAlike(row[r], row'[r])
  PROVE  BreakerTracksLedger'
<1>1. Streak(row') = Streak(row)
  BY SameStreak
<1> QED
  BY <1>1 DEF BreakerTracksLedger

-----------------------------------------------------------------------------
(* What the other parts of the invariant need of a step.                     *)

(* A target once launched stays launched, and what it ended with is kept.    *)
TargetsAdvance ==
    \A r \in Rows :
        /\ target[r].status # "none" => target'[r].status # "none"
        /\ ends[r] \subseteq ends'[r]

LEMMA SameTargets ==
  ASSUME UNCHANGED <<target, ends>>
  PROVE  TargetsAdvance
BY DEF TargetsAdvance

(* A worker that did not move still stands where it stood, if the row it     *)
(* holds was left alone.                                                     *)
LEMMA KeepsStanding ==
  ASSUME TypeOK, NEW w \in Workers, StandsAt(w), worker'[w] = worker[w], TargetsAdvance,
         worker[w].at \in {"claimed", "settling"} => row'[worker[w].row] = row[worker[w].row]
  PROVE  StandsAt(w)'
<1>1. worker[w].row \in Rows /\ worker[w].staged \in Row
  BY TypesOf DEF WorkerStates
<1>3. PICK r \in Rows : r = worker[w].row
  BY <1>1
<1>4. (target[r].status # "none" => target'[r].status # "none") /\ ends[r] \subseteq ends'[r]
  BY DEF TargetsAdvance
<1>6. CASE worker[w].at \in {"claimed", "settling"}
  BY <1>1, <1>3, <1>4, <1>6 DEF StandsAt, Neutral
<1>7. CASE worker[w].at \notin {"claimed", "settling"}
  BY <1>1, <1>3, <1>4, <1>7 DEF StandsAt
<1> QED
  BY <1>6, <1>7

(* A step that leaves the workers and the rows they hold alone.              *)
LEMMA KeepsWorkers ==
  ASSUME TypeOK, WorkersStand, UNCHANGED worker, TargetsAdvance,
         \A w \in Workers : worker[w].at \in {"claimed", "settling"} =>
             row'[worker[w].row] = row[worker[w].row]
  PROVE  WorkersStand'
<1>1. ASSUME NEW w \in Workers
      PROVE  StandsAt(w)'
  BY <1>1, KeepsStanding DEF WorkersStand
<1>2. LocksExclude'
  BY DEF WorkersStand, LocksExclude, Holds
<1> QED
  BY <1>1, <1>2 DEF WorkersStand

(* A step of worker w, which holds afterwards no row but one it held or one  *)
(* that nobody held, and which writes no row but that one.                   *)
LEMMA MovesWorker ==
  ASSUME TypeOK, WorkersStand, NEW w \in Workers, NEW r \in Rows, OtherWorkers(w),
         Holds(w, r) \/ Unlocked(r), TargetsAdvance, OtherRows(r),
         worker'[w].at \in {"claimed", "settling"} => worker'[w].row = r,
         StandsAt(w)'
  PROVE  WorkersStand'
<1>1. ASSUME NEW v \in Workers, v # w, NEW s \in Rows, Holds(v, s)
      PROVE  s # r
  BY <1>1 DEF WorkersStand, LocksExclude, Unlocked, Holds
<1>2. ASSUME NEW v \in Workers, v # w
      PROVE  StandsAt(v)'
  <2>1. worker'[v] = worker[v] /\ worker[v].row \in Rows
    BY <1>2, TypesOf DEF OtherWorkers, WorkerStates
  <2>2. worker[v].at \in {"claimed", "settling"} => row'[worker[v].row] = row[worker[v].row]
    BY <1>1, <1>2, <2>1 DEF Holds, OtherRows
  <2> QED
    BY <2>1, <2>2, KeepsStanding DEF WorkersStand
<1>3. ASSUME NEW s \in Rows, NEW u \in Workers, NEW v \in Workers,
             Holds(u, s)', Holds(v, s)'
      PROVE  u = v
  <2>1. CASE u = w /\ v = w
    BY <2>1
  <2>2. CASE u = w /\ v # w
    BY <1>1, <1>3, <2>2 DEF Holds, OtherWorkers
  <2>3. CASE u # w /\ v = w
    BY <1>1, <1>3, <2>3 DEF Holds, OtherWorkers
  <2>4. CASE u # w /\ v # w
    BY <1>3, <2>4 DEF Holds, OtherWorkers, WorkersStand, LocksExclude
  <2> QED
    BY <2>1, <2>2, <2>3, <2>4
<1> QED
  BY <1>2, <1>3 DEF WorkersStand, LocksExclude

(* The ledger agrees with the targets after a step that writes at most row r.*)
LEMMA KeepsLedger ==
  ASSUME TypeOK, LedgerAgrees, NEW r \in Rows, OtherRows(r), LedgerOf(r)',
         \A s \in Rows : s # r =>
             /\ target'[s] = target[s] /\ started'[s] = started[s] /\ ends'[s] = ends[s]
             /\ s \in report' => s \in report
  PROVE  LedgerAgrees'
BY DEF LedgerAgrees, LedgerOf, OtherRows

LEMMA SameLedger ==
  ASSUME LedgerAgrees, UNCHANGED <<row, target, started, ends>>,
         \A s \in report' : s \in report \/ target[s].status # "none"
  PROVE  LedgerAgrees'
BY DEF LedgerAgrees, LedgerOf

(* A step that takes no fire off its way leaves no row behind.               *)
LEMMA KeepsUnstranded ==
  ASSUME TypeOK, NoneStranded, lost' = 0 => lost = 0, fire \subseteq fire',
         skipped \subseteq skipped',
         \A r \in Rows : row'[r].status = "RECEIVED" => row[r].status = "RECEIVED" \/ r \in fire',
         \A w \in Workers : worker[w].at # "idle" =>
             \/ worker'[w].at # "idle" /\ worker'[w].row = worker[w].row
             \/ row'[worker[w].row].status # "RECEIVED"
             \/ worker[w].row \in fire'
  PROVE  NoneStranded'
<1> SUFFICES ASSUME NEW r \in Rows, lost' = 0, r \notin skipped', row'[r].status = "RECEIVED",
                    r \notin fire'
             PROVE  \E w \in Workers : worker'[w].at # "idle" /\ worker'[w].row = r
  BY DEF NoneStranded
<1>1. PICK w \in Workers : worker[w].at # "idle" /\ worker[w].row = r
  BY DEF NoneStranded
<1> QED
  BY <1>1

-----------------------------------------------------------------------------
(* One lemma for each action: it keeps the inductive invariant.              *)

(* A step that changes neither the ledger, nor the workers, nor a target.    *)
LEMMA QuietStep ==
  ASSUME IndInv, UNCHANGED <<row, worker, target, started, ends>>, report' \subseteq report
  PROVE  LedgerAgrees' /\ WorkersStand'
<1>1. TypeOK /\ LedgerAgrees /\ WorkersStand
  BY DEF IndInv
<1>2. LedgerAgrees'
  BY <1>1, SameLedger
<1>3. WorkersStand'
  BY <1>1, KeepsWorkers, SameTargets
<1> QED
  BY <1>2, <1>3

LEMMA FireStep ==
  ASSUME IndInv, NEW o \in Occurrences, Fire(o)
  PROVE  IndInv'
<1> USE DEF Fire, bounds, history
<1>1. TypeOK /\ BreakerTracksLedger /\ NoneStranded
  BY DEF IndInv
<1>2. <<o, "first">> \in Rows
  BY DEF Rows
<1>3. TypeOK'
  BY <1>1, <1>2, LimitsAssumption DEF TypeOK
<1>4. LedgerAgrees' /\ WorkersStand'
  BY QuietStep
<1>5. BreakerTracksLedger'
  BY <1>1, KeepsBreaker
<1>6. NoneStranded'
  BY <1>1, KeepsUnstranded
<1> QED
  BY <1>3, <1>4, <1>5, <1>6 DEF IndInv

LEMMA LoseReportStep ==
  ASSUME IndInv, NEW r \in Rows, LoseReport(r)
  PROVE  IndInv'
<1> USE DEF LoseReport, schedule, history
<1>1. TypeOK /\ BreakerTracksLedger /\ NoneStranded
  BY DEF IndInv
<1>2. TypeOK'
  BY <1>1, LimitsAssumption DEF TypeOK, Faulty
<1>3. LedgerAgrees' /\ WorkersStand'
  BY QuietStep
<1>4. BreakerTracksLedger'
  BY <1>1, KeepsBreaker
<1>5. NoneStranded'
  BY <1>1, KeepsUnstranded DEF Faulty
<1> QED
  BY <1>2, <1>3, <1>4, <1>5 DEF IndInv

LEMMA LoseFireStep ==
  ASSUME IndInv, NEW r \in Rows, LoseFire(r)
  PROVE  IndInv'
<1> USE DEF LoseFire, schedule, history
<1>1. TypeOK /\ BreakerTracksLedger /\ NoneStranded
  BY DEF IndInv
<1>2. TypeOK'
  BY <1>1, LimitsAssumption DEF TypeOK
<1>3. LedgerAgrees' /\ WorkersStand'
  BY QuietStep
<1>4. BreakerTracksLedger'
  BY <1>1, KeepsBreaker
<1>5. lost' # 0
  BY <1>1, LimitsAssumption DEF TypeOK
<1>6. NoneStranded'
  BY <1>5 DEF NoneStranded
<1> QED
  BY <1>2, <1>3, <1>4, <1>6 DEF IndInv

LEMMA DuplicateFireStep ==
  ASSUME IndInv, NEW r \in Rows, DuplicateFire(r)
  PROVE  IndInv'
<1> USE DEF DuplicateFire, schedule, history
<1>1. TypeOK /\ BreakerTracksLedger /\ NoneStranded
  BY DEF IndInv
<1>2. TypeOK'
  BY <1>1, LimitsAssumption DEF TypeOK, Faulty
<1>3. LedgerAgrees' /\ WorkersStand'
  BY QuietStep
<1>4. BreakerTracksLedger'
  BY <1>1, KeepsBreaker
<1>5. NoneStranded'
  BY <1>1, KeepsUnstranded DEF Faulty
<1> QED
  BY <1>2, <1>3, <1>4, <1>5 DEF IndInv

LEMMA AgeStep ==
  ASSUME IndInv, NEW r \in Rows, Age(r)
  PROVE  IndInv'
<1> USE DEF Age, schedule, history, bounds
<1>1. TypeOK /\ BreakerTracksLedger /\ NoneStranded
  BY DEF IndInv
<1>2. TypeOK'
  BY <1>1 DEF TypeOK
<1>3. LedgerAgrees' /\ WorkersStand'
  BY QuietStep
<1>4. BreakerTracksLedger'
  BY <1>1, KeepsBreaker
<1>5. NoneStranded'
  BY <1>1, KeepsUnstranded
<1> QED
  BY <1>2, <1>3, <1>4, <1>5 DEF IndInv

LEMMA ToggleStep ==
  ASSUME IndInv, Toggle
  PROVE  IndInv'
<1> USE DEF Toggle, history
<1>1. TypeOK /\ BreakerTracksLedger /\ NoneStranded
  BY DEF IndInv
<1>2. TypeOK'
  <2>1. byHand' \in 0..MaxByHand
    BY <1>1, LimitsAssumption DEF TypeOK
  <2>2. active' \in BOOLEAN /\ streak' \in Nat /\ forgiven' \in SUBSET Rows
    BY <1>1 DEF TypeOK
  <2> QED
    BY <1>1, <2>1, <2>2 DEF TypeOK
<1>3. LedgerAgrees' /\ WorkersStand'
  BY QuietStep
<1>4. BreakerTracksLedger'
  <2>1. CASE active
    BY <1>1, <2>1, KeepsBreaker
  <2>2. CASE ~active
    <3> SUFFICES ASSUME forgiven' = {}
                 PROVE  streak' = Streak(row') /\ streak' < Threshold
      BY DEF BreakerTracksLedger
    <3>1. {r \in Rows : IsFailure(row'[r])} = {}
      BY <2>2
    <3>2. Streak(row') = 0
      BY <3>1, NoFailureNoStreak
    <3> QED
      BY <2>2, <3>2, LimitsAssumption
  <2> QED
    BY <2>1, <2>2
<1>5. NoneStranded'
  BY <1>1, KeepsUnstranded
<1> QED
  BY <1>2, <1>3, <1>4, <1>5 DEF IndInv

LEMMA TargetEndsStep ==
  ASSUME IndInv, NEW r \in Rows, TargetEnds(r)
  PROVE  IndInv'
<1> USE DEF TargetEnds, schedule, history, bounds
<1>1. TypeOK /\ LedgerAgrees /\ WorkersStand /\ BreakerTracksLedger /\ NoneStranded
  BY DEF IndInv
<1>2. PICK outcome \in Outcomes :
          /\ target' = [target EXCEPT ![r] = [status |-> outcome, at |-> clock + 1]]
          /\ ends' = [ends EXCEPT ![r] = @ \cup {<<outcome, clock + 1>>}]
  OBVIOUS
<1>3. target \in [Rows -> TargetStates] /\ clock \in Nat
  BY <1>1, TypesOf
<1>4. /\ target'[r].status = outcome /\ target'[r].at = clock + 1
      /\ \A s \in Rows : s # r => target'[s] = target[s]
  BY <1>2, <1>3
<1>5. \A s \in Rows : target'[s] \in [status : {"none", "running"} \cup Outcomes, at : 0..clock']
  <2>1. [status |-> outcome, at |-> clock + 1]
            \in [status : {"none", "running"} \cup Outcomes, at : 0..clock']
    BY <1>3
  <2>2. target'[r] = [status |-> outcome, at |-> clock + 1]
    BY <1>2, <1>3
  <2>3. ASSUME NEW t \in TargetStates
        PROVE  t \in [status : {"none", "running"} \cup Outcomes, at : 0..clock']
    <3>1. 0..clock \subseteq 0..clock'
      BY <1>3
    <3> QED
      BY <3>1 DEF TargetStates
  <2> QED
    BY <1>3, <1>4, <2>1, <2>2, <2>3
<1>6. target' \in [Rows -> [status : {"none", "running"} \cup Outcomes, at : 0..clock']]
  BY <1>2, <1>3, <1>5
<1>7. /\ ends'[r] = ends[r] \cup {<<outcome, clock + 1>>}
      /\ \A s \in Rows : s # r => ends'[s] = ends[s]
      /\ ends' \in [Rows -> SUBSET (Outcomes \X Nat)]
  <2>1. ends \in [Rows -> SUBSET (Outcomes \X Nat)] /\ <<outcome, clock + 1>> \in Outcomes \X Nat
    BY <1>1, <1>3 DEF TypeOK
  <2> QED
    BY <1>2, <2>1
<1>8. TypeOK'
  BY <1>1, <1>3, <1>6, <1>7 DEF TypeOK
<1>9. TargetsAdvance
  <2>1. "none" \notin Outcomes
    BY DEF Outcomes
  <2> QED
    BY <1>4, <1>7, <2>1 DEF TargetsAdvance
<1>10. LedgerAgrees'
  <2>1. LedgerOf(r) /\ target[r].status = "running" /\ "none" \notin Outcomes
    BY <1>1 DEF LedgerAgrees, Outcomes
  <2>2. LedgerOf(r)'
    BY <1>4, <1>7, <2>1 DEF LedgerOf
  <2> QED
    BY <1>1, <1>4, <1>7, <2>2, KeepsLedger DEF OtherRows
<1>11. WorkersStand'
  BY <1>1, <1>9, KeepsWorkers
<1>12. BreakerTracksLedger'
  BY <1>1, KeepsBreaker
<1>13. NoneStranded'
  BY <1>1, KeepsUnstranded
<1> QED
  BY <1>8, <1>10, <1>11, <1>12, <1>13 DEF IndInv

(* A reply has the target running again; what it ended with stays known.     *)
LEMMA TargetRunsAgainStep ==
  ASSUME IndInv, NEW r \in Rows, TargetRunsAgain(r)
  PROVE  IndInv'
<1> USE DEF TargetRunsAgain, schedule, history
<1>1. TypeOK /\ LedgerAgrees /\ WorkersStand /\ BreakerTracksLedger /\ NoneStranded
  BY DEF IndInv
<1>2. target \in [Rows -> TargetStates] /\ clock \in Nat
  BY <1>1, TypesOf
<1>3. /\ target' \in [Rows -> TargetStates] /\ target'[r].status = "running"
      /\ \A s \in Rows : s # r => target'[s] = target[s]
  <2>1. [status |-> "running", at |-> 0] \in TargetStates
    BY <1>2 DEF TargetStates
  <2> QED
    BY <1>2, <2>1
<1>4. byHand' \in 0..MaxByHand
  BY <1>1, LimitsAssumption DEF TypeOK
<1>5. TypeOK'
  BY <1>1, <1>3, <1>4 DEF TypeOK, TargetStates
<1>6. TargetsAdvance
  BY <1>3 DEF TargetsAdvance
<1>7. LedgerAgrees'
  <2>1. LedgerOf(r) /\ target[r].status # "none" /\ "running" \notin Outcomes
    BY <1>1 DEF LedgerAgrees, Outcomes
  <2>2. LedgerOf(r)'
    BY <1>3, <2>1 DEF LedgerOf
  <2> QED
    BY <1>1, <1>3, <2>2, KeepsLedger DEF OtherRows
<1>8. WorkersStand'
  BY <1>1, <1>6, KeepsWorkers
<1>9. BreakerTracksLedger' /\ NoneStranded'
  BY <1>1, KeepsBreaker, KeepsUnstranded
<1> QED
  BY <1>5, <1>7, <1>8, <1>9 DEF IndInv

LEMMA RedriveStep ==
  ASSUME IndInv, NEW o \in Occurrences, Redrive(o)
  PROVE  IndInv'
<1> DEFINE r == <<o, "redrive">>
           new == [Absent EXCEPT !.status = "RECEIVED"]
<1> USE DEF schedule, history
<1>1. TypeOK /\ LedgerAgrees /\ WorkersStand /\ BreakerTracksLedger /\ NoneStranded
  BY DEF IndInv
<1>2. /\ r \in Rows /\ row[r] = Absent /\ Writes(r, new) /\ fire' = fire \cup {r}
      /\ byHand < MaxByHand /\ byHand' = byHand + 1
      /\ UNCHANGED <<schedule, target, fired, report, worker, clock, history, faults, lost>>
  BY DEF Redrive, Rows
<1>3. new \in Row /\ new.status = "RECEIVED" /\ new.outcome = "none"
  BY AbsentIsRow DEF Row, Absent, Statuses
<1> HIDE DEF r, new
<1>4. /\ row' \in [Rows -> Row] /\ OtherRows(r) /\ row'[r] = new
      /\ stale' \in SUBSET Rows
  BY <1>1, <1>2, <1>3, Writing
<1>5. TypeOK'
  <2>1. byHand' \in 0..MaxByHand
    BY <1>1, <1>2, LimitsAssumption DEF TypeOK
  <2> QED
    BY <1>1, <1>2, <1>4, <2>1 DEF TypeOK
<1>6. row[r].status = "absent" /\ row[r].outcome = "none"
  BY <1>2 DEF Absent
<1>7. LedgerAgrees'
  <2>1. LedgerOf(r)'
    BY <1>1, <1>2, <1>3, <1>4, <1>6 DEF LedgerAgrees, LedgerOf, Unlaunched
  <2> QED
    BY <1>1, <1>2, <1>4, <2>1, KeepsLedger
<1>8. WorkersStand'
  <2>1. ASSUME NEW w \in Workers
        PROVE  StandsAt(w)'
    <3>1. worker[w].row \in Rows /\ StandsAt(w)
      BY <1>1, TypesOf DEF WorkerStates, WorkersStand
    <3>2. CASE worker[w].row = r
      <4>1. PICK s \in Rows : s = worker[w].row
        BY <3>1
      <4>2. row'[s].status = "RECEIVED" /\ row'[s].outcome = "none" /\ row[s].status = "absent"
        BY <1>3, <1>4, <1>6, <3>2, <4>1
      <4> QED
        BY <1>2, <3>1, <4>1, <4>2 DEF StandsAt, Neutral, Unlaunched
    <3>3. CASE worker[w].row # r
      <4>1. row'[worker[w].row] = row[worker[w].row]
        BY <1>4, <3>1, <3>3 DEF OtherRows
      <4> QED
        BY <1>1, <1>2, <3>1, <4>1, KeepsStanding, SameTargets
    <3> QED
      BY <3>2, <3>3
  <2>2. LocksExclude'
    BY <1>1, <1>2 DEF WorkersStand, LocksExclude, Holds
  <2> QED
    BY <2>1, <2>2 DEF WorkersStand
<1>9. BreakerTracksLedger'
  <2>1. CountsAlike(row[r], row'[r])
    BY <1>3, <1>4, <1>6 DEF CountsAlike, Neutral
  <2> QED
    BY <1>1, <1>2, <1>4, <2>1, KeepsBreaker DEF OtherRows
<1>10. NoneStranded'
  <2>1. \A s \in Rows : row'[s].status = "RECEIVED" => row[s].status = "RECEIVED" \/ s \in fire'
    BY <1>2, <1>4 DEF OtherRows
  <2> QED
    BY <1>1, <1>2, <2>1, KeepsUnstranded
<1> QED
  BY <1>5, <1>7, <1>8, <1>9, <1>10 DEF IndInv

(* A worker takes up a row nobody holds; the ledger is not written yet.      *)
LEMMA ClaimStep ==
  ASSUME IndInv, NEW w \in Workers, NEW r \in Rows, Claim(w, r)
  PROVE  IndInv'
<1> USE DEF schedule, bounds
<1>1. TypeOK /\ LedgerAgrees /\ WorkersStand /\ BreakerTracksLedger /\ NoneStranded
  BY DEF IndInv
<1>2. /\ IsIdle(w) /\ r \in fire /\ Unlocked(r) /\ fire' = fire \ {r}
      /\ UNCHANGED <<schedule, row, stale, target, fired, report, started, ends, bounds>>
  BY DEF Claim
<1>3. row[r] \in Row /\ row \in [Rows -> Row] /\ clock \in Nat
  BY <1>1, TypesOf
<1>4. skipped' \in SUBSET Rows /\ skipped \ {r} \subseteq skipped'
  BY <1>1 DEF Claim, TypeOK
<1>5. LedgerAgrees'
  BY <1>1, <1>2, SameLedger
<1>6. BreakerTracksLedger'
  BY <1>1, <1>2, KeepsBreaker
<1>7. CASE ~Accepts(r) \/ ~Claimable(r)
  <2>1. UNCHANGED <<worker, clock>>
    BY <1>7 DEF Claim
  <2>2. TypeOK'
    BY <1>1, <1>2, <1>4, <2>1 DEF TypeOK
  <2>3. WorkersStand'
    BY <1>1, <1>2, <2>1, KeepsWorkers, SameTargets
  <2>4. row[r].status = "RECEIVED" => r \in skipped'
    <3>1. CASE ~Accepts(r)
      BY <3>1 DEF Claim
    <3>2. CASE Accepts(r)
      <4>1. ~Claimable(r)
        BY <1>7, <3>2
      <4>2. row[r].outcome # "none" => ends[r] # {}
        BY <1>1 DEF LedgerAgrees, LedgerOf
      <4>3. row[r].status = "RECEIVED" => ends[r] = {}
        BY <1>1 DEF LedgerAgrees, LedgerOf, Unlaunched
      <4>4. row[r].outcome = "none" => row[r].status # "RECEIVED"
        BY <4>1 DEF Claimable
      <4> QED
        BY <4>2, <4>3, <4>4
    <3> QED
      BY <3>1, <3>2
  <2>5. NoneStranded'
    BY <1>1, <1>2, <1>4, <2>1, <2>4 DEF NoneStranded
  <2> QED
    BY <1>5, <1>6, <2>2, <2>3, <2>5 DEF IndInv
<1>8. CASE Accepts(r) /\ Claimable(r)
  <2>1. PICK at \in {"claimed", "settling"}, staged \in Row :
            /\ Turns(w, at, r, staged, "fire")
            /\ clock' \in Nat /\ clock <= clock'
            /\ staged.outcome = "none"
            /\ at = "claimed" => staged.status = "PROCESSING"
            /\ staged.status \notin Unlaunched
    <3>1. row[r].outcome = "none"
      BY <1>8 DEF Claimable
    <3>2. CASE GivenUp(row[r])
      <4>1. Turns(w, "settling", r, DeadLettered(row[r]), "fire") /\ clock' = clock + 1
        BY <1>8, <3>2 DEF Claim, Settles
      <4>2. /\ DeadLettered(row[r]) \in Row /\ DeadLettered(row[r]).status = "DEAD_LETTERED"
            /\ DeadLettered(row[r]).outcome = "none"
        BY <1>1, <1>3, <3>1, DeadLetteredRow
      <4>3. clock' \in Nat /\ clock <= clock'
        BY <1>3, <4>1
      <4> QED
        BY <4>1, <4>2, <4>3 DEF Unlaunched
    <3>3. CASE ~GivenUp(row[r])
      <4>1. Turns(w, "claimed", r, Attempted(row[r]), "fire") /\ clock' = clock
        BY <1>8, <3>3 DEF Claim
      <4>2. /\ Attempted(row[r]) \in Row /\ Attempted(row[r]).status = "PROCESSING"
            /\ Attempted(row[r]).outcome = "none"
        BY <1>3, <3>1, <3>3, AttemptedRow
      <4>3. clock' \in Nat /\ clock <= clock'
        BY <1>3, <4>1
      <4> QED
        BY <4>1, <4>2, <4>3 DEF Unlaunched
    <3> QED
      BY <3>2, <3>3
  <2>2. /\ worker' \in [Workers -> WorkerStates] /\ OtherWorkers(w)
        /\ worker'[w].at = at /\ worker'[w].row = r
        /\ worker'[w].staged = staged /\ worker'[w].cause = "fire"
    BY <1>1, <2>1, Turning
  <2>3. TypeOK'
    <3>1. target \in [Rows -> [status : {"none", "running"} \cup Outcomes, at : 0..clock']]
      <4>1. 0..clock \subseteq 0..clock'
        BY <1>3, <2>1
      <4>2. target \in [Rows -> [status : {"none", "running"} \cup Outcomes, at : 0..clock]]
        BY <1>1 DEF TypeOK
      <4> QED
        BY <4>1, <4>2
    <3> QED
      BY <1>1, <1>2, <1>4, <2>1, <2>2, <3>1 DEF TypeOK, WorkerStates
  <2>4. StandsAt(w)'
    <3>1. Neutral(row[r])
      BY <1>8 DEF Claimable, Neutral
    <3> QED
      BY <1>2, <2>1, <2>2, <3>1 DEF StandsAt
  <2>5. WorkersStand'
    BY <1>1, <1>2, <2>2, <2>4, MovesWorker, SameTargets DEF OtherRows
  <2>6. NoneStranded'
    <3> SUFFICES ASSUME NEW s \in Rows, s # r, lost = 0, s \notin skipped,
                        row[s].status = "RECEIVED", s \notin fire
                 PROVE  \E v \in Workers : worker'[v].at # "idle" /\ worker'[v].row = s
      BY <1>2, <1>4, <2>2 DEF NoneStranded
    <3>1. PICK v \in Workers : worker[v].at # "idle" /\ worker[v].row = s
      BY <1>1 DEF NoneStranded
    <3>2. v # w
      BY <1>2, <3>1 DEF IsIdle
    <3> QED
      BY <2>2, <3>1, <3>2 DEF OtherWorkers
  <2> QED
    BY <1>5, <1>6, <2>3, <2>5, <2>6 DEF IndInv
<1> QED
  BY <1>7, <1>8

(* The outcome event of a target that has ended is staged.                   *)
LEMMA ReportStep ==
  ASSUME IndInv, NEW w \in Workers, NEW r \in Rows, Report(w, r)
  PROVE  IndInv'
<1> USE DEF schedule, history, bounds
<1>1. TypeOK /\ LedgerAgrees /\ WorkersStand /\ BreakerTracksLedger /\ NoneStranded
  BY DEF IndInv
<1>2. /\ IsIdle(w) /\ r \in report /\ Unlocked(r) /\ report' = report \ {r}
      /\ UNCHANGED <<schedule, row, stale, target, fired, fire, clock, history, bounds>>
  BY DEF Report
<1>3. LedgerAgrees' /\ BreakerTracksLedger'
  BY <1>1, <1>2, SameLedger, KeepsBreaker
<1>4. CASE ~(target[r].status \in Outcomes /\ Reportable(r))
  <2>1. UNCHANGED worker
    BY <1>4 DEF Report
  <2>2. TypeOK'
    BY <1>1, <1>2, <2>1 DEF TypeOK
  <2>3. WorkersStand' /\ NoneStranded'
    BY <1>1, <1>2, <2>1, KeepsWorkers, SameTargets, KeepsUnstranded
  <2> QED
    BY <1>3, <2>2, <2>3 DEF IndInv
<1>5. CASE target[r].status \in Outcomes /\ Reportable(r)
  <2>1. /\ row[r] \in Row /\ target[r].status \in Outcomes /\ target[r].status # "none"
        /\ <<target[r].status, target[r].at>> \in ends[r]
    BY <1>1, <1>5, TypesOf DEF LedgerAgrees, LedgerOf, Outcomes
  <2>2. PICK staged \in Row : staged = Concluded(row[r], r)
    BY <1>1, <2>1, ConcludedRow
  <2>3. /\ staged.status = row[r].status /\ staged.outcome = target[r].status
        /\ staged.completed = target[r].at
    BY <1>1, <2>1, <2>2, ConcludedRow
  <2>4. row[r].status \notin Unlaunched
    BY <1>5 DEF Reportable, Unlaunched
  <2>5. Turns(w, "settling", r, staged, "report")
    BY <1>5, <2>2 DEF Report, Settles
  <2>6. /\ worker' \in [Workers -> WorkerStates] /\ OtherWorkers(w)
        /\ worker'[w].at = "settling" /\ worker'[w].row = r
        /\ worker'[w].staged = staged /\ worker'[w].cause = "report"
    BY <1>1, <2>5, Turning
  <2>7. TypeOK'
    BY <1>1, <1>2, <2>6 DEF TypeOK, WorkerStates
  <2>8. StandsAt(w)'
    BY <1>2, <2>1, <2>3, <2>4, <2>6 DEF StandsAt
  <2>9. WorkersStand'
    BY <1>1, <1>2, <2>6, <2>8, MovesWorker, SameTargets DEF OtherRows
  <2>10. NoneStranded'
    <3>1. ASSUME NEW v \in Workers, worker[v].at # "idle"
          PROVE  worker'[v].at # "idle" /\ worker'[v].row = worker[v].row
      BY <1>2, <2>6, <3>1 DEF OtherWorkers, IsIdle
    <3> QED
      BY <1>1, <1>2, <3>1, KeepsUnstranded
  <2> QED
    BY <1>3, <2>7, <2>9, <2>10 DEF IndInv
<1> QED
  BY <1>4, <1>5

(* The sweep repairs or re-arms a row at once.                               *)
LEMMA SweepWritesStep ==
  ASSUME IndInv, NEW r \in Rows, Swept(r), Unlocked(r), RepairInFlight(r) \/ Redeliver(r),
         UNCHANGED <<schedule, target, fired, report, history, bounds>>
  PROVE  IndInv'
<1> USE DEF schedule, history, bounds
<1>1. TypeOK /\ LedgerAgrees /\ WorkersStand /\ BreakerTracksLedger /\ NoneStranded
  BY DEF IndInv
<1>2. PICK status \in {"DISPATCHED", "RECEIVED"} :
        /\ Writes(r, [row[r] EXCEPT !.status = status, !.completed = 0])
        /\ UNCHANGED <<worker, clock>> /\ fire \subseteq fire' /\ fire' \subseteq Rows
        /\ status = "RECEIVED" => target[r].status = "none" /\ r \in fire'
  <2>1. CASE RepairInFlight(r)
    BY <1>1, <2>1 DEF RepairInFlight, TypeOK
  <2>2. CASE Redeliver(r)
    BY <1>1, <2>2 DEF Redeliver, TypeOK
  <2> QED
    BY <2>1, <2>2
<1>3. row[r] \in Row /\ 0 \in Nat /\ status \in Statuses
  BY <1>1, TypesOf DEF Statuses
<1>4. PICK new \in Row : new = [row[r] EXCEPT !.status = status, !.completed = 0]
  BY <1>3 DEF Row
<1>5. new.status = status /\ new.outcome = row[r].outcome
  BY <1>3, <1>4 DEF Row
<1>6. /\ row' \in [Rows -> Row] /\ OtherRows(r) /\ row'[r] = new
      /\ stale' \in SUBSET Rows
  BY <1>1, <1>2, <1>4, Writing
<1>7. row[r].outcome = "none" /\ Neutral(row[r]) /\ Neutral(new)
  BY <1>2, <1>5 DEF Swept, Neutral
<1>8. TypeOK'
  BY <1>1, <1>2, <1>6 DEF TypeOK
<1>9. LedgerAgrees'
  <2>1. LedgerOf(r)'
    BY <1>1, <1>2, <1>5, <1>6, <1>7 DEF LedgerAgrees, LedgerOf, Unlaunched
  <2> QED
    BY <1>1, <1>6, <2>1, KeepsLedger
<1>10. WorkersStand'
  <2>1. ASSUME NEW w \in Workers, worker[w].at \in {"claimed", "settling"}
        PROVE  row'[worker[w].row] = row[worker[w].row]
    <3>1. worker[w].row \in Rows /\ worker[w].row # r
      BY <1>1, <2>1, TypesOf DEF WorkerStates, Unlocked
    <3> QED
      BY <1>6, <3>1 DEF OtherRows
  <2> QED
    BY <1>1, <1>2, <2>1, KeepsWorkers, SameTargets
<1>11. BreakerTracksLedger'
  <2>1. CountsAlike(row[r], row'[r])
    BY <1>6, <1>7 DEF CountsAlike
  <2> QED
    BY <1>1, <1>6, <2>1, KeepsBreaker DEF OtherRows
<1>12. NoneStranded'
  <2>1. \A s \in Rows : row'[s].status = "RECEIVED" => row[s].status = "RECEIVED" \/ s \in fire'
    BY <1>2, <1>5, <1>6 DEF OtherRows
  <2> QED
    BY <1>1, <1>2, <2>1, KeepsUnstranded
<1> QED
  BY <1>8, <1>9, <1>10, <1>11, <1>12 DEF IndInv

(* The sweep stages a final change and commits it with the recount.          *)
LEMMA SweepSettlesStep ==
  ASSUME IndInv, NEW w \in Workers, NEW r \in Rows, IsIdle(w), Swept(r), Unlocked(r),
         SettleAgainstTarget(w, r) \/ Abandon(w, r),
         UNCHANGED <<schedule, target, fired, report, history, bounds>>
  PROVE  IndInv'
<1> USE DEF schedule, history, bounds
<1>1. TypeOK /\ LedgerAgrees /\ WorkersStand /\ BreakerTracksLedger /\ NoneStranded
  BY DEF IndInv
<1>2. row[r] \in Row /\ clock \in Nat
  BY <1>1, TypesOf
<1>3. row[r].status \notin Unlaunched /\ row[r].outcome = "none"
  BY DEF Swept, Unlaunched
<1>4. PICK staged \in Row :
        /\ Turns(w, "settling", r, staged, "sweep")
        /\ UNCHANGED <<row, stale, fire>> /\ clock' \in Nat /\ clock <= clock'
        /\ staged.status \notin Unlaunched
        /\ staged.outcome # "none" => <<staged.outcome, staged.completed>> \in ends[r]
  <2>1. CASE SettleAgainstTarget(w, r)
    <3>1. PICK e \in Row : e = [row[r] EXCEPT !.status = "DISPATCHED"]
      BY <1>2 DEF Row, Statuses
    <3>2. e.status = "DISPATCHED" /\ target[r].status \in Outcomes
      BY <1>2, <2>1, <3>1 DEF Row, SettleAgainstTarget
    <3>3. /\ Concluded(e, r) \in Row /\ Concluded(e, r).status = "DISPATCHED"
          /\ <<Concluded(e, r).outcome, Concluded(e, r).completed>> \in ends[r]
      BY <1>1, <3>2, ConcludedRow DEF LedgerAgrees, LedgerOf
    <3>4. Turns(w, "settling", r, Concluded(e, r), "sweep") /\ UNCHANGED <<row, stale, fire, clock>>
      BY <2>1, <3>1 DEF SettleAgainstTarget, Settles
    <3>5. PICK staged \in Row : staged = Concluded(e, r)
      BY <3>3
    <3> QED
      BY <1>2, <3>3, <3>4, <3>5 DEF Unlaunched
  <2>2. CASE Abandon(w, r)
    <3>1. /\ Turns(w, "settling", r, DeadLettered(row[r]), "sweep")
          /\ UNCHANGED <<row, stale, fire>> /\ clock' = clock + 1
      BY <2>2 DEF Abandon, Settles
    <3>2. /\ DeadLettered(row[r]) \in Row /\ DeadLettered(row[r]).status = "DEAD_LETTERED"
          /\ DeadLettered(row[r]).outcome = "none"
      BY <1>1, <1>2, <1>3, DeadLetteredRow
    <3>3. clock' \in Nat /\ clock <= clock'
      BY <1>2, <3>1
    <3> QED
      BY <3>1, <3>2, <3>3 DEF Unlaunched
  <2> QED
    BY <2>1, <2>2
<1>5. /\ worker' \in [Workers -> WorkerStates] /\ OtherWorkers(w)
      /\ worker'[w].at = "settling" /\ worker'[w].row = r
      /\ worker'[w].staged = staged /\ worker'[w].cause = "sweep"
  BY <1>1, <1>4, Turning
<1>6. TypeOK'
  <2>1. 0..clock \subseteq 0..clock'
    BY <1>2, <1>4
  <2>2. target \in [Rows -> [status : {"none", "running"} \cup Outcomes, at : 0..clock]]
    BY <1>1 DEF TypeOK
  <2>3. target \in [Rows -> [status : {"none", "running"} \cup Outcomes, at : 0..clock']]
    BY <2>1, <2>2
  <2> QED
    BY <1>1, <1>4, <1>5, <2>3 DEF TypeOK, WorkerStates
<1>7. LedgerAgrees' /\ BreakerTracksLedger'
  BY <1>1, <1>4, SameLedger, KeepsBreaker
<1>8. StandsAt(w)'
  BY <1>3, <1>4, <1>5 DEF StandsAt
<1>9. WorkersStand'
  BY <1>1, <1>4, <1>5, <1>8, MovesWorker, SameTargets DEF OtherRows
<1>10. NoneStranded'
  <2>1. ASSUME NEW v \in Workers, worker[v].at # "idle"
        PROVE  worker'[v].at # "idle" /\ worker'[v].row = worker[v].row
    BY <1>5, <2>1 DEF OtherWorkers, IsIdle
  <2> QED
    BY <1>1, <1>4, <2>1, KeepsUnstranded
<1> QED
  BY <1>6, <1>7, <1>9, <1>10 DEF IndInv

LEMMA SweepStep ==
  ASSUME IndInv, NEW w \in Workers, NEW r \in Rows, Sweep(w, r)
  PROVE  IndInv'
<1>1. /\ IsIdle(w) /\ Swept(r) /\ Unlocked(r)
      /\ UNCHANGED <<schedule, target, fired, report, history, bounds>>
  BY DEF Sweep
<1>2. CASE RepairInFlight(r) \/ Redeliver(r)
  BY <1>1, <1>2, SweepWritesStep
<1>3. CASE SettleAgainstTarget(w, r) \/ Abandon(w, r)
  BY <1>1, <1>3, SweepSettlesStep
<1> QED
  BY <1>2, <1>3 DEF Sweep

(* start_run commits: the row and its target, if none was there, together.   *)
LEMMA LaunchStep ==
  ASSUME IndInv, NEW w \in Workers, Launch(w)
  PROVE  IndInv'
<1> USE DEF schedule, bounds
<1>1. TypeOK /\ LedgerAgrees /\ WorkersStand /\ BreakerTracksLedger /\ NoneStranded
  BY DEF IndInv
<1>2. PICK r \in Rows, staged \in Row : r = worker[w].row /\ staged = worker[w].staged
  BY <1>1, TypesOf DEF WorkerStates
<1>3. /\ worker[w].at = "claimed" /\ Writes(r, staged)
      /\ Turns(w, "launched", r, Absent, "fire")
      /\ IF Reserved(r) THEN UNCHANGED <<target, started>>
         ELSE /\ target' = [target EXCEPT ![r] = [status |-> "running", at |-> 0]]
              /\ started' = [started EXCEPT ![r] = @ + 1]
      /\ UNCHANGED <<schedule, fired, fire, report, clock, skipped, ends, bounds>>
  BY <1>2 DEF Launch
<1>4. /\ staged.status = "PROCESSING" /\ staged.outcome = "none"
      /\ Neutral(row[r]) /\ Holds(w, r)
  BY <1>1, <1>2, <1>3 DEF WorkersStand, StandsAt, Holds
<1>5. /\ row' \in [Rows -> Row] /\ OtherRows(r) /\ row'[r] = staged
      /\ stale' \in SUBSET Rows
  BY <1>1, <1>3, Writing
<1>6. /\ worker' \in [Workers -> WorkerStates] /\ OtherWorkers(w)
      /\ worker'[w].at = "launched" /\ worker'[w].row = r /\ worker'[w].cause = "fire"
  BY <1>1, <1>3, AbsentIsRow, Turning
<1>7. target \in [Rows -> TargetStates] /\ started \in [Rows -> Nat] /\ clock \in Nat
  BY <1>1, TypesOf DEF TypeOK
<1>8. /\ target' \in [Rows -> TargetStates] /\ started' \in [Rows -> Nat]
      /\ \A s \in Rows : s # r => target'[s] = target[s] /\ started'[s] = started[s]
      /\ target[r].status # "none" => target'[r] = target[r] /\ started'[r] = started[r]
      /\ target[r].status = "none" =>
            target'[r].status = "running" /\ started'[r] = started[r] + 1
  <2>1. CASE Reserved(r)
    BY <1>3, <1>7, <2>1 DEF Reserved
  <2>2. CASE ~Reserved(r)
    <3>1. 0 \in 0..clock
      BY <1>7
    <3>2. [status |-> "running", at |-> 0] \in TargetStates
      BY <3>1 DEF TargetStates
    <3> QED
      BY <1>3, <1>7, <2>2, <3>2 DEF Reserved
  <2> QED
    BY <2>1, <2>2
<1>9. TargetsAdvance /\ target'[r].status # "none"
  BY <1>3, <1>8 DEF TargetsAdvance
<1>10. TypeOK'
  BY <1>1, <1>3, <1>5, <1>6, <1>8 DEF TypeOK, WorkerStates, TargetStates
<1>11. LedgerAgrees'
  <2>1. started[r] \in Nat /\ LedgerOf(r)
    BY <1>1, <1>7 DEF LedgerAgrees
  <2>2. started'[r] <= 1
    BY <1>8, <2>1 DEF LedgerOf
  <2>3. ends'[r] = ends[r] /\ "running" \notin Outcomes
    BY <1>3 DEF Outcomes
  <2>4. LedgerOf(r)'
    BY <1>4, <1>5, <1>8, <1>9, <2>1, <2>2, <2>3 DEF LedgerOf, Unlaunched
  <2> QED
    BY <1>1, <1>3, <1>5, <1>8, <2>4, KeepsLedger
<1>12. StandsAt(w)'
  BY <1>6, <1>9 DEF StandsAt
<1>13. WorkersStand'
  BY <1>1, <1>4, <1>5, <1>6, <1>9, <1>12, MovesWorker
<1>14. BreakerTracksLedger'
  <2>1. CountsAlike(row[r], row'[r])
    BY <1>4, <1>5 DEF CountsAlike, Neutral
  <2> QED
    BY <1>1, <1>3, <1>5, <2>1, KeepsBreaker DEF OtherRows
<1>15. NoneStranded'
  <2>1. \A s \in Rows : row'[s].status = "RECEIVED" => row[s].status = "RECEIVED"
    BY <1>4, <1>5 DEF OtherRows
  <2>2. ASSUME NEW v \in Workers, worker[v].at # "idle"
        PROVE  worker'[v].at # "idle" /\ worker'[v].row = worker[v].row
    BY <1>2, <1>6, <2>2 DEF OtherWorkers
  <2> QED
    BY <1>1, <1>3, <2>1, <2>2, KeepsUnstranded
<1> QED
  BY <1>10, <1>11, <1>13, <1>14, <1>15 DEF IndInv

(* A worker is done with row r and leaves it either as it was or in a status *)
(* the breaker passes over as it did before; nobody holds the row then.      *)
LEMMA LeavesRow ==
  ASSUME IndInv, NEW w \in Workers, NEW r \in Rows, worker[w].at # "idle", worker[w].row = r,
         Holds(w, r) \/ Unlocked(r), Rests(w), NEW new \in Row,
         row' = [row EXCEPT ![r] = new], stale' \in SUBSET Rows,
         CountsAlike(row[r], new) \/ row[r] = new,
         new.status \notin Unlaunched, new.outcome = row[r].outcome,
         UNCHANGED <<schedule, target, fired, fire, report, clock, history>>,
         faults' \in 0..MaxFaults, UNCHANGED <<lost, byHand>>
  PROVE  IndInv'
<1> USE DEF schedule, history
<1>1. TypeOK /\ LedgerAgrees /\ WorkersStand /\ BreakerTracksLedger /\ NoneStranded
  BY DEF IndInv
<1>2. /\ worker' \in [Workers -> WorkerStates] /\ OtherWorkers(w)
      /\ worker'[w].at = "idle" /\ worker'[w].cause = "none"
  BY <1>1, Resting
<1>3. row' \in [Rows -> Row] /\ OtherRows(r) /\ row'[r] = new
  BY <1>1, TypesOf DEF OtherRows
<1>4. TypeOK'
  BY <1>1, <1>2, <1>3 DEF TypeOK, WorkerStates
<1>5. LedgerAgrees'
  <2>1. new.outcome # "none" => new.completed = row[r].completed
    BY DEF CountsAlike, Neutral
  <2>2. LedgerOf(r)'
    BY <1>1, <1>3, <2>1 DEF LedgerAgrees, LedgerOf
  <2> QED
    BY <1>1, <1>3, <2>2, KeepsLedger
<1>6. StandsAt(w)'
  BY <1>2 DEF StandsAt
<1>7. WorkersStand'
  BY <1>1, <1>2, <1>3, <1>6, MovesWorker, SameTargets
<1>8. BreakerTracksLedger'
  BY <1>1, <1>3, KeepsBreaker DEF OtherRows
<1>9. NoneStranded'
  <2>1. \A s \in Rows : row'[s].status = "RECEIVED" => row[s].status = "RECEIVED"
    BY <1>3 DEF OtherRows, Unlaunched
  <2>2. ASSUME NEW v \in Workers, worker[v].at # "idle"
        PROVE  \/ worker'[v].at # "idle" /\ worker'[v].row = worker[v].row
               \/ row'[worker[v].row].status # "RECEIVED"
    BY <1>2, <1>3, <2>2 DEF OtherWorkers, Unlaunched
  <2> QED
    BY <1>1, <2>1, <2>2, KeepsUnstranded
<1> QED
  BY <1>4, <1>5, <1>7, <1>8, <1>9 DEF IndInv

LEMMA MarkDispatchedStep ==
  ASSUME IndInv, NEW w \in Workers, MarkDispatched(w)
  PROVE  IndInv'
<1> USE DEF bounds
<1>1. TypeOK /\ LedgerAgrees /\ WorkersStand
  BY DEF IndInv
<1>2. PICK r \in Rows : r = worker[w].row
  BY <1>1, TypesOf DEF WorkerStates
<1>3. /\ worker[w].at = "launched" /\ Unlocked(r) /\ Rests(w)
      /\ IF row[r].status = "PROCESSING"
         THEN Writes(r, [row[r] EXCEPT !.status = "DISPATCHED"])
         ELSE UNCHANGED <<row, stale>>
      /\ UNCHANGED <<schedule, target, fired, fire, report, clock, history, bounds>>
  BY <1>2 DEF MarkDispatched
<1>4. row \in [Rows -> Row] /\ row[r] \in Row /\ stale \in SUBSET Rows /\ faults \in 0..MaxFaults
  BY <1>1, TypesOf DEF TypeOK
<1>5. row[r].status \notin Unlaunched
  BY <1>1, <1>2, <1>3 DEF WorkersStand, StandsAt, LedgerAgrees, LedgerOf
<1>6. CASE row[r].status = "PROCESSING"
  <2>1. PICK new \in Row : new = [row[r] EXCEPT !.status = "DISPATCHED"]
    BY <1>4 DEF Row, Statuses
  <2>2. /\ new.status = "DISPATCHED" /\ new.outcome = row[r].outcome
        /\ new.completed = row[r].completed
    BY <1>4, <2>1 DEF Row
  <2>3. CountsAlike(row[r], new)
    BY <1>6, <2>2 DEF CountsAlike, Neutral
  <2>4. row' = [row EXCEPT ![r] = new] /\ stale' \in SUBSET Rows
    BY <1>3, <1>4, <1>6, <2>1 DEF Writes
  <2> QED
    BY <1>2, <1>3, <1>4, <2>2, <2>3, <2>4, LeavesRow DEF Unlaunched
<1>7. CASE row[r].status # "PROCESSING"
  <2>1. row' = [row EXCEPT ![r] = row[r]] /\ stale' \in SUBSET Rows
    BY <1>3, <1>4, <1>7
  <2> QED
    BY <1>2, <1>3, <1>4, <1>5, <2>1, LeavesRow
<1> QED
  BY <1>6, <1>7

(* mark_failed: leave the row to others, fail it for now, or give it up.     *)
LEMMA FailWithStep ==
  ASSUME IndInv, NEW w \in Workers, NEW r \in Rows, NEW e \in Row,
         worker[w].row = r, worker[w].at \in {"claimed", "launched"},
         Holds(w, r) \/ Unlocked(r),
         e.outcome # "none" \/ e.status # "PROCESSING" => row[r].status \notin Unlaunched,
         e.outcome = "none" /\ e.status = "PROCESSING" => Neutral(row[r]),
         FailWith(w, r, e), Faulty,
         UNCHANGED <<schedule, target, fired, fire, report, history>>
  PROVE  IndInv'
<1> USE DEF schedule, history
<1>1. TypeOK /\ LedgerAgrees /\ WorkersStand /\ BreakerTracksLedger /\ NoneStranded
  BY DEF IndInv
<1>2. row \in [Rows -> Row] /\ row[r] \in Row /\ stale \in SUBSET Rows /\ clock \in Nat
  BY <1>1, TypesOf DEF TypeOK
<1>3. faults' \in 0..MaxFaults /\ UNCHANGED <<lost, byHand>>
  BY <1>1, LimitsAssumption DEF Faulty, TypeOK
<1>4. CASE e.outcome # "none" \/ e.status # "PROCESSING"
  <2>1. Rests(w) /\ UNCHANGED <<row, stale, clock>>
    BY <1>4 DEF FailWith
  <2>2. row[r].status \notin Unlaunched
    BY <1>4
  <2>3. row' = [row EXCEPT ![r] = row[r]] /\ stale' \in SUBSET Rows
    BY <1>2, <2>1
  <2> QED
    BY <1>2, <1>3, <2>1, <2>2, <2>3, LeavesRow
<1>5. CASE e.outcome = "none" /\ e.status = "PROCESSING" /\ ~GivenUp(e)
  <2>1. PICK new \in Row : new = [e EXCEPT !.status = "FAILED"]
    BY DEF Row, Statuses
  <2>2. new.status = "FAILED" /\ new.outcome = "none"
    BY <1>5, <2>1 DEF Row
  <2>3. Writes(r, new) /\ Rests(w) /\ UNCHANGED clock
    BY <1>5, <2>1 DEF FailWith
  <2>4. CountsAlike(row[r], new) /\ row[r].outcome = "none"
    BY <1>5, <2>2 DEF CountsAlike, Neutral
  <2>5. row' = [row EXCEPT ![r] = new] /\ stale' \in SUBSET Rows
    BY <1>2, <2>3 DEF Writes
  <2> QED
    BY <1>2, <1>3, <2>2, <2>3, <2>4, <2>5, LeavesRow DEF Unlaunched
<1>6. CASE e.outcome = "none" /\ e.status = "PROCESSING" /\ GivenUp(e)
  <2>1. PICK staged \in Row : staged = DeadLettered(e)
    BY <1>1, DeadLetteredRow
  <2>2. staged.status = "DEAD_LETTERED" /\ staged.outcome = "none"
    BY <1>1, <1>6, <2>1, DeadLetteredRow
  <2>3. /\ Turns(w, "settling", r, staged, "fire") /\ clock' = clock + 1
        /\ UNCHANGED <<row, stale>>
    BY <1>6, <2>1 DEF FailWith, Settles
  <2>4. /\ worker' \in [Workers -> WorkerStates] /\ OtherWorkers(w)
        /\ worker'[w].at = "settling" /\ worker'[w].row = r
        /\ worker'[w].staged = staged /\ worker'[w].cause = "fire"
    BY <1>1, <2>3, Turning
  <2>5. TypeOK'
    <3>1. 0..clock \subseteq 0..clock'
      BY <1>2, <2>3
    <3>2. target \in [Rows -> [status : {"none", "running"} \cup Outcomes, at : 0..clock]]
      BY <1>1 DEF TypeOK
    <3>3. target \in [Rows -> [status : {"none", "running"} \cup Outcomes, at : 0..clock']]
      BY <3>1, <3>2
    <3>4. clock' \in Nat
      BY <1>2, <2>3
    <3> QED
      BY <1>1, <1>3, <2>3, <2>4, <3>3, <3>4 DEF TypeOK, WorkerStates
  <2>6. LedgerAgrees' /\ BreakerTracksLedger'
    BY <1>1, <2>3, SameLedger, KeepsBreaker
  <2>7. StandsAt(w)'
    BY <2>2, <2>4 DEF StandsAt, Unlaunched
  <2>8. WorkersStand'
    BY <1>1, <2>3, <2>4, <2>7, MovesWorker, SameTargets DEF OtherRows
  <2>9. NoneStranded'
    <3>1. ASSUME NEW v \in Workers, worker[v].at # "idle"
          PROVE  worker'[v].at # "idle" /\ worker'[v].row = worker[v].row
      BY <2>4, <3>1 DEF OtherWorkers
    <3> QED
      BY <1>1, <1>3, <2>3, <3>1, KeepsUnstranded
  <2> QED
    BY <2>5, <2>6, <2>8, <2>9 DEF IndInv
<1> QED
  BY <1>4, <1>5, <1>6

LEMMA MarkFailedStep ==
  ASSUME IndInv, NEW w \in Workers, MarkFailed(w)
  PROVE  IndInv'
<1>1. TypeOK /\ LedgerAgrees /\ WorkersStand
  BY DEF IndInv
<1>2. PICK r \in Rows, staged \in Row : r = worker[w].row /\ staged = worker[w].staged
  BY <1>1, TypesOf DEF WorkerStates
<1>3. row[r] \in Row /\ Faulty /\ UNCHANGED <<schedule, target, fired, fire, report, history>>
  BY <1>1, TypesOf DEF MarkFailed
<1>4. CASE worker[w].at = "claimed" /\ FailWith(w, r, staged)
  <2>1. Neutral(row[r]) /\ staged.outcome = "none" /\ staged.status = "PROCESSING" /\ Holds(w, r)
    BY <1>1, <1>2, <1>4 DEF WorkersStand, StandsAt, Neutral, Holds
  <2> QED
    BY <1>2, <1>3, <1>4, <2>1, FailWithStep
<1>5. CASE worker[w].at = "launched" /\ Unlocked(r) /\ FailWith(w, r, row[r])
  <2>1. row[r].status \notin Unlaunched
    BY <1>1, <1>2, <1>5 DEF WorkersStand, StandsAt, LedgerAgrees, LedgerOf
  <2>2. PICK e \in Row : e = row[r]
    BY <1>3
  <2>3. /\ e.outcome # "none" \/ e.status # "PROCESSING" => row[r].status \notin Unlaunched
        /\ e.outcome = "none" /\ e.status = "PROCESSING" => Neutral(row[r])
    BY <2>1, <2>2 DEF Neutral
  <2>4. FailWith(w, r, e)
    BY <1>5, <2>2
  <2> QED
    BY <1>2, <1>3, <1>5, <2>3, <2>4, FailWithStep
<1> QED
  BY <1>2, <1>4, <1>5 DEF MarkFailed

(* A final change commits, and the breaker counts the ledger it left.        *)
LEMMA CommitSettledStep ==
  ASSUME IndInv, NEW w \in Workers, CommitSettled(w)
  PROVE  IndInv'
<1> USE DEF history, bounds
<1>1. TypeOK /\ LedgerAgrees /\ WorkersStand /\ BreakerTracksLedger /\ NoneStranded
  BY DEF IndInv
<1>2. PICK r \in Rows, staged \in Row : r = worker[w].row /\ staged = worker[w].staged
  BY <1>1, TypesOf DEF WorkerStates
<1>3. /\ worker[w].at = "settling" /\ Writes(r, staged) /\ Recount(row') /\ Rests(w)
      /\ UNCHANGED <<forgiven, target, fired, fire, report, clock, history, bounds>>
  BY <1>2 DEF CommitSettled
<1>4. /\ staged.status \notin Unlaunched /\ Holds(w, r)
      /\ staged.outcome # "none" => <<staged.outcome, staged.completed>> \in ends[r]
  BY <1>1, <1>2, <1>3 DEF WorkersStand, StandsAt, Holds
<1>5. /\ row' \in [Rows -> Row] /\ OtherRows(r) /\ row'[r] = staged
      /\ stale' \in SUBSET Rows
  BY <1>1, <1>3, Writing
<1>6. /\ worker' \in [Workers -> WorkerStates] /\ OtherWorkers(w)
      /\ worker'[w].at = "idle" /\ worker'[w].cause = "none"
  BY <1>1, <1>3, Resting
<1>7. /\ streak' = Streak(row') /\ streak' \in Nat
      /\ active' = (active /\ Streak(row') < Threshold)
  BY <1>3, StreakIsNatural DEF Recount
<1>8. active' \in BOOLEAN
  BY <1>7
<1>9. TypeOK'
  BY <1>1, <1>3, <1>5, <1>6, <1>7, <1>8 DEF TypeOK, WorkerStates
<1>10. LedgerAgrees'
  <2>1. LedgerOf(r)'
    BY <1>1, <1>3, <1>4, <1>5 DEF LedgerAgrees, LedgerOf
  <2> QED
    BY <1>1, <1>3, <1>5, <2>1, KeepsLedger
<1>11. StandsAt(w)'
  BY <1>6 DEF StandsAt
<1>12. WorkersStand'
  BY <1>1, <1>3, <1>4, <1>5, <1>6, <1>11, MovesWorker, SameTargets
<1>13. BreakerTracksLedger'
  BY <1>7 DEF BreakerTracksLedger
<1>14. NoneStranded'
  <2>1. \A s \in Rows : row'[s].status = "RECEIVED" => row[s].status = "RECEIVED"
    BY <1>4, <1>5 DEF OtherRows, Unlaunched
  <2>2. ASSUME NEW v \in Workers, worker[v].at # "idle"
        PROVE  \/ worker'[v].at # "idle" /\ worker'[v].row = worker[v].row
               \/ row'[worker[v].row].status # "RECEIVED"
    BY <1>2, <1>4, <1>5, <1>6, <2>2 DEF OtherWorkers, Unlaunched
  <2> QED
    BY <1>1, <1>3, <2>1, <2>2, KeepsUnstranded
<1> QED
  BY <1>9, <1>10, <1>12, <1>13, <1>14 DEF IndInv

(* The process dies: the row is as it was, and what brought it comes again.  *)
LEMMA CrashStep ==
  ASSUME IndInv, NEW w \in Workers, Crash(w)
  PROVE  IndInv'
<1> USE DEF schedule, history
<1>1. TypeOK /\ LedgerAgrees /\ WorkersStand /\ BreakerTracksLedger /\ NoneStranded
  BY DEF IndInv
<1>2. PICK r \in Rows : r = worker[w].row
  BY <1>1, TypesOf DEF WorkerStates
<1>3. /\ worker[w].at # "idle" /\ Faulty /\ Rests(w)
      /\ fire' = IF worker[w].cause = "fire" THEN fire \cup {r} ELSE fire
      /\ report' = IF worker[w].cause = "report" THEN report \cup {r} ELSE report
      /\ UNCHANGED <<schedule, row, stale, target, fired, clock, history>>
  BY <1>2 DEF Crash, IsIdle
<1>4. StandsAt(w) /\ LedgerOf(r) /\ worker[w] \in WorkerStates
  BY <1>1, TypesOf DEF WorkersStand, LedgerAgrees
<1>5. /\ worker' \in [Workers -> WorkerStates] /\ OtherWorkers(w)
      /\ worker'[w].at = "idle" /\ worker'[w].cause = "none"
  BY <1>1, <1>3, Resting
<1>6. faults' \in 0..MaxFaults /\ UNCHANGED <<lost, byHand>>
  BY <1>1, <1>3, LimitsAssumption DEF Faulty, TypeOK
<1>7. fire \subseteq fire' /\ fire' \subseteq Rows /\ report' \subseteq Rows
  BY <1>1, <1>3 DEF TypeOK
<1>8. worker[w].cause = "fire" \/ row[r].status \notin Unlaunched
  BY <1>2, <1>3, <1>4 DEF StandsAt, WorkerStates
<1>9. worker[w].cause = "report" => target[r].status # "none"
  BY <1>2, <1>3, <1>4 DEF StandsAt, WorkerStates
<1>10. TypeOK'
  BY <1>1, <1>3, <1>5, <1>6, <1>7 DEF TypeOK, WorkerStates
<1>11. LedgerAgrees'
  BY <1>1, <1>3, <1>9, SameLedger
<1>12. WorkersStand'
  <2>1. ASSUME NEW v \in Workers
        PROVE  StandsAt(v)'
    <3>1. CASE v = w
      BY <1>5, <3>1 DEF StandsAt
    <3>2. CASE v # w
      <4>1. worker'[v] = worker[v] /\ StandsAt(v) /\ UNCHANGED row /\ TargetsAdvance
        BY <1>1, <1>3, <1>5, <3>2, SameTargets DEF OtherWorkers, WorkersStand
      <4> QED
        BY <1>1, <4>1, KeepsStanding
    <3> QED
      BY <3>1, <3>2
  <2>2. LocksExclude'
    BY <1>1, <1>5 DEF WorkersStand, LocksExclude, Holds, OtherWorkers
  <2> QED
    BY <2>1, <2>2 DEF WorkersStand
<1>13. BreakerTracksLedger'
  BY <1>1, <1>3, KeepsBreaker
<1>14. NoneStranded'
  <2>1. ASSUME NEW v \in Workers, worker[v].at # "idle"
        PROVE  \/ worker'[v].at # "idle" /\ worker'[v].row = worker[v].row
               \/ row'[worker[v].row].status # "RECEIVED"
               \/ worker[v].row \in fire'
    BY <1>2, <1>3, <1>5, <1>8, <2>1 DEF OtherWorkers, Unlaunched
  <2> QED
    BY <1>1, <1>3, <1>6, <1>7, <2>1, KeepsUnstranded
<1> QED
  BY <1>10, <1>11, <1>12, <1>13, <1>14 DEF IndInv

-----------------------------------------------------------------------------
LEMMA Initially == Init => IndInv
<1> SUFFICES ASSUME Init PROVE IndInv
  OBVIOUS
<1> USE DEF Init
<1>1. AtRest \in WorkerStates /\ AtRest.at = "idle" /\ AtRest.cause = "none"
  BY SomeRow, AbsentIsRow DEF AtRest, WorkerStates
<1>2. \A w \in Workers : worker[w] = AtRest
  OBVIOUS
<1>3. /\ 0 \in 0..MaxFaults /\ 0 \in 0..MaxLost /\ 0 \in 0..MaxByHand
      /\ 0 \in 0..clock /\ 0 \in Nat
  BY LimitsAssumption
<1>4. target \in [Rows -> [status : {"none", "running"} \cup Outcomes, at : 0..clock]]
  BY <1>3
<1>5. TypeOK
  BY <1>1, <1>3, <1>4, AbsentIsRow DEF TypeOK, WorkerStates
<1>6. \A r \in Rows : /\ row[r].outcome = "none" /\ row[r].status = "absent"
                      /\ target[r].status = "none" /\ started[r] = 0 /\ ends[r] = {}
  BY DEF Absent
<1>7. LedgerAgrees
  BY <1>3, <1>6 DEF LedgerAgrees, LedgerOf, Outcomes
<1>8. WorkersStand
  BY <1>1, <1>2 DEF WorkersStand, StandsAt, LocksExclude, Holds
<1>9. BreakerTracksLedger
  <2>1. {r \in Rows : IsFailure(row[r])} = {}
    BY <1>6 DEF IsFailure
  <2>2. Streak(row) = 0
    BY <2>1, NoFailureNoStreak
  <2> QED
    BY <2>2, LimitsAssumption DEF BreakerTracksLedger
<1>10. NoneStranded
  BY <1>6 DEF NoneStranded
<1> QED
  BY <1>5, <1>7, <1>8, <1>9, <1>10 DEF IndInv

LEMMA StutterStep ==
  ASSUME IndInv, UNCHANGED vars
  PROVE  IndInv'
<1> USE DEF vars
<1>1. TypeOK /\ LedgerAgrees /\ WorkersStand /\ BreakerTracksLedger /\ NoneStranded
  BY DEF IndInv
<1>2. TypeOK'
  BY <1>1 DEF TypeOK
<1>3. LedgerAgrees' /\ WorkersStand'
  BY QuietStep
<1>4. BreakerTracksLedger' /\ NoneStranded'
  BY <1>1, KeepsBreaker, KeepsUnstranded
<1> QED
  BY <1>2, <1>3, <1>4 DEF IndInv

LEMMA Inductive == IndInv /\ [Next]_vars => IndInv'
<1> SUFFICES ASSUME IndInv, [Next]_vars PROVE IndInv'
  OBVIOUS
<1>1. ASSUME NEW o \in Occurrences, Fire(o) \/ Redrive(o) PROVE IndInv'
  BY <1>1, FireStep, RedriveStep
<1>2. ASSUME NEW w \in Workers, NEW r \in Rows, Claim(w, r) \/ Report(w, r) \/ Sweep(w, r)
      PROVE  IndInv'
  BY <1>2, ClaimStep, ReportStep, SweepStep
<1>3. ASSUME NEW w \in Workers, \/ Launch(w) \/ MarkDispatched(w) \/ MarkFailed(w)
                                \/ CommitSettled(w) \/ Crash(w)
      PROVE  IndInv'
  BY <1>3, LaunchStep, MarkDispatchedStep, MarkFailedStep, CommitSettledStep, CrashStep
<1>4. ASSUME NEW r \in Rows, \/ TargetEnds(r) \/ TargetRunsAgain(r) \/ LoseReport(r)
                             \/ LoseFire(r) \/ DuplicateFire(r) \/ Age(r)
      PROVE  IndInv'
  BY <1>4, TargetEndsStep, TargetRunsAgainStep, LoseReportStep, LoseFireStep,
     DuplicateFireStep, AgeStep
<1> QED
  BY <1>1, <1>2, <1>3, <1>4, ToggleStep, StutterStep DEF Next

(* Ledger, locks, workers and breaker stand in every state.                  *)
THEOREM Invariance == Spec => []IndInv
BY Initially, Inductive, PTL DEF Spec

-----------------------------------------------------------------------------
(* The state is of its type: no row is attempted more often than the limit,  *)
(* and an outcome is recorded only of a target that has one.                 *)
THEOREM TypeCorrectness == Spec => []TypeOK
<1>1. IndInv => TypeOK
  BY DEF IndInv
<1> QED
  BY <1>1, Invariance, PTL

(* A target is launched once, however often its fire is delivered, retried   *)
(* or swept and whoever dies in between (claim, start_run).                  *)
THEOREM TargetsStartOnce == Spec => []StartedOnce
<1>1. IndInv => StartedOnce
  BY DEF IndInv, LedgerAgrees, LedgerOf, StartedOnce
<1> QED
  BY <1>1, Invariance, PTL

(* What the ledger records is one end of the target, its outcome with its    *)
(* time, whichever of the launch, the outcome event and the sweep reached    *)
(* the row, and although a reply may have the target running again.          *)
THEOREM LedgerTellsTheTruth == Spec => []OutcomeIsTruth
<1>1. IndInv => OutcomeIsTruth
  BY DEF IndInv, LedgerAgrees, LedgerOf, OutcomeIsTruth
<1> QED
  BY <1>1, Invariance, PTL

(* Until a reactivation forgives failures, consecutive_failures is what the  *)
(* ledger shows, and a schedule at its threshold is off (_apply_breaker).    *)
THEOREM BreakerCountsTheLedger == Spec => []BreakerTracksLedger
<1>1. IndInv => BreakerTracksLedger
  BY DEF IndInv
<1> QED
  BY <1>1, Invariance, PTL

(* A row the sweep or a person re-armed has a fire on its way or a worker on *)
(* it, unless a fire was lost or came while the schedule was paused.         *)
THEOREM NoRowIsStranded == Spec => []NoneStranded
<1>1. IndInv => NoneStranded
  BY DEF IndInv
<1> QED
  BY <1>1, Invariance, PTL

=============================================================================
