-------------------------- MODULE FunctionRunProofs -------------------------
(***************************************************************************)
(* Proofs about FunctionRun for any set of dispatchers and any bound on    *)
(* their deaths: user code begins once, one event ends the run, and a run  *)
(* is COMPLETED only when its code ran.                                    *)
(***************************************************************************)
EXTENDS FunctionRun, TLAPS

(* A dispatcher that won start_execution and has still to send the request. *)
Holds(d) == pc[d] \in {"started", "again"}

(* Who may send is one, sends to a sandbox that has nothing, and exists only *)
(* once the row has left PENDING.                                            *)
OneSender ==
    /\ \A d, e \in Dispatchers : Holds(d) /\ Holds(e) => d = e
    /\ \A d \in Dispatchers : Holds(d) => status # "PENDING" /\ began + inflight = 0

(* What the sandbox holds and reports comes from user code that began.       *)
ResultsAreReal ==
    /\ alive \/ result # "none" => began > 0
    /\ handlers > 0 => result # "none"
    /\ \A d \in Dispatchers : pc[d] = "answered" => result # "none"

Safe == StartedOnce /\ OneSender /\ ResultsAreReal /\ CompletedRan

(* The inductive invariant. *)
IndInv == TypeOK /\ EndedOnce /\ Safe

(* The events that may end a run, as TypeOK has them. *)
Endings ==
    [status : TERMINAL_RUN_STATES, by : {"dispatcher", "runtime", "cancel", "sweep"}]

-----------------------------------------------------------------------------
(* Ending a row that had not ended leaves one event that tells its status.  *)
LEMMA Finishing ==
  ASSUME IndInv, status \notin TERMINAL_RUN_STATES,
         NEW end \in TERMINAL_RUN_STATES,
         NEW who \in {"dispatcher", "runtime", "cancel", "sweep"}, FinishRow(end, who)
  PROVE  /\ status' = end /\ ends' = <<[status |-> end, by |-> who]>>
         /\ ends' \in Seq(Endings) /\ EndedOnce'
<1> DEFINE ending == [status |-> end, by |-> who]
<1>1. ends = << >>
  BY DEF IndInv, EndedOnce
<1>2. ending \in Endings
  BY DEF Endings
<1>3. status' = end /\ ends' = <<ending>>
  BY <1>1 DEF FinishRow
<1>4. Len(<<ending>>) = 1 /\ <<ending>>[1] = ending /\ <<ending>> \in Seq(Endings)
  BY <1>2
<1>5. ending.status = end
  OBVIOUS
<1> HIDE DEF ending
<1>6. EndedOnce'
  BY <1>3, <1>4, <1>5 DEF EndedOnce
<1> QED
  BY <1>3, <1>4, <1>6 DEF ending

(* The row keeps a status and the events that tell it.                      *)
RowKept ==
    /\ status' \in {"PENDING", "RUNNING"} \cup TERMINAL_RUN_STATES
    /\ ends' \in Seq(Endings) /\ EndedOnce'
    /\ status' = "PENDING" => status = "PENDING"

(* A step that leaves the row alone keeps it.                               *)
LEMMA RowUntouched ==
  ASSUME IndInv, UNCHANGED rowVars
  PROVE  RowKept
BY DEF IndInv, TypeOK, EndedOnce, RowKept, rowVars, Endings

(* _finish_without_result: the run ends as it is told to or had ended.      *)
LEMMA FinishingWithoutResult ==
  ASSUME IndInv, NEW end \in {"FAILED", "CANCELLED"},
         NEW who \in {"dispatcher", "cancel"}, FinishWithoutResult(end, who)
  PROVE  RowKept /\ status' # "PENDING" /\ (status' = "COMPLETED" => status = "COMPLETED")
<1>1. CASE status \in TERMINAL_RUN_STATES
  BY <1>1, RowUntouched DEF FinishWithoutResult, rowVars, TERMINAL_RUN_STATES
<1>2. CASE status \notin TERMINAL_RUN_STATES
  <2>1. end \in TERMINAL_RUN_STATES /\ FinishRow(end, who)
    BY <1>2 DEF FinishWithoutResult, TERMINAL_RUN_STATES
  <2> QED
    BY <1>2, <2>1, Finishing DEF RowKept, TERMINAL_RUN_STATES
<1> QED
  BY <1>1, <1>2

(* complete: only a RUNNING run takes the result.                           *)
LEMMA Completing ==
  ASSUME IndInv, result # "none", Complete("runtime")
  PROVE  /\ RowKept
         /\ status' = "COMPLETED" => status = "COMPLETED" \/ result = "completed"
         /\ status = "PENDING" <=> status' = "PENDING"
<1>1. CASE status = "RUNNING"
  <2> DEFINE end == IF result = "completed" THEN "COMPLETED" ELSE "FAILED"
  <2>1. end \in TERMINAL_RUN_STATES /\ FinishRow(end, "runtime")
    BY <1>1 DEF Complete, TERMINAL_RUN_STATES
  <2>2. status \notin TERMINAL_RUN_STATES
    BY <1>1 DEF TERMINAL_RUN_STATES
  <2>3. status' = end /\ ends' \in Seq(Endings) /\ EndedOnce'
    BY <2>1, <2>2, Finishing
  <2> QED
    BY <1>1, <2>1, <2>3 DEF RowKept, TERMINAL_RUN_STATES
<1>2. CASE status # "RUNNING"
  BY <1>2, RowUntouched DEF Complete, rowVars
<1> QED
  BY <1>1, <1>2

-----------------------------------------------------------------------------
(* The first state satisfies the invariant. *)
LEMMA Initially == Init => IndInv
<1> SUFFICES ASSUME Init PROVE IndInv
  OBVIOUS
<1>1. TypeOK
  <2>1. age \in YOUNG .. GRACE_OVER /\ crashes \in 0 .. MaxCrashes
        /\ handlers \in 0 .. MAX_CALLBACKS
    BY MaxCrashesAssumption DEF Init, YOUNG, GRACE_OVER, MAX_CALLBACKS
  <2>2. ends \in Seq(Endings)
    BY DEF Init
  <2> QED
    BY <2>1, <2>2 DEF Init, TypeOK, Endings, PCs
<1>2. EndedOnce
  BY DEF Init, EndedOnce, TERMINAL_RUN_STATES
<1>3. Safe
  BY DEF Init, Safe, StartedOnce, OneSender, ResultsAreReal, CompletedRan, Holds
<1> QED
  BY <1>1, <1>2, <1>3 DEF IndInv

-----------------------------------------------------------------------------
(* Each action of Next preserves the invariant.                              *)
(* Enqueueing touches the queue only.                                       *)
LEMMA EnqueueRunStep ==
  ASSUME IndInv, EnqueueRun
  PROVE  IndInv'
<1>1. RowKept
  BY RowUntouched DEF EnqueueRun
<1>2. TypeOK'
  BY <1>1 DEF EnqueueRun, RowKept, IndInv, TypeOK, Endings, sandboxVars
<1>3. Safe'
  BY <1>1, <1>2 DEF EnqueueRun, RowKept, IndInv, TypeOK, Safe, StartedOnce,
     OneSender, ResultsAreReal, CompletedRan, Holds, rowVars, sandboxVars
<1> QED
  BY <1>1, <1>2, <1>3 DEF RowKept, IndInv

(* A delivered task gives a dispatcher nothing to send yet.                 *)
LEMMA DeliverStep ==
  ASSUME IndInv, NEW d \in Dispatchers, Deliver(d)
  PROVE  IndInv'
<1>1. RowKept
  BY RowUntouched DEF Deliver
<1>2. TypeOK'
  BY <1>1 DEF Deliver, RowKept, IndInv, TypeOK, Endings, PCs, sandboxVars
<1>3. Safe'
  BY <1>1, <1>2 DEF Deliver, RowKept, IndInv, TypeOK, Safe, StartedOnce, OneSender,
     ResultsAreReal, CompletedRan, Holds, rowVars, sandboxVars
<1> QED
  BY <1>1, <1>2, <1>3 DEF RowKept, IndInv

(* Resolving reads the row.                                                 *)
LEMMA ResolveDispatchStep ==
  ASSUME IndInv, NEW d \in Dispatchers, ResolveDispatch(d)
  PROVE  IndInv'
<1>1. RowKept
  BY RowUntouched DEF ResolveDispatch
<1>2. TypeOK'
  BY <1>1 DEF ResolveDispatch, RowKept, IndInv, TypeOK, Endings, PCs, InDispatch,
     queueVars, sandboxVars
<1>3. Safe'
  BY <1>1, <1>2 DEF ResolveDispatch, RowKept, IndInv, TypeOK, Safe, StartedOnce,
     OneSender, ResultsAreReal, CompletedRan, Holds, rowVars, sandboxVars
<1> QED
  BY <1>1, <1>2, <1>3 DEF RowKept, IndInv

(* Only a PENDING row makes a sender, so there was none.                    *)
LEMMA StartExecutionStep ==
  ASSUME IndInv, NEW d \in Dispatchers, StartExecution(d)
  PROVE  IndInv'
<1>1. RowKept
  BY DEF StartExecution, IndInv, TypeOK, EndedOnce, RowKept, TERMINAL_RUN_STATES,
     Endings
<1>2. TypeOK'
  BY <1>1 DEF StartExecution, RowKept, IndInv, TypeOK, Endings, PCs, InDispatch,
     queueVars, sandboxVars
<1>3. Safe'
  BY <1>1, <1>2 DEF StartExecution, RowKept, IndInv, TypeOK, Safe, StartedOnce,
     OneSender, ResultsAreReal, CompletedRan, Holds, sandboxVars
<1> QED
  BY <1>1, <1>2, <1>3 DEF RowKept, IndInv

(* The one sender spends its right to send.                                 *)
LEMMA InvokeRuntimeStep ==
  ASSUME IndInv, NEW d \in Dispatchers, InvokeRuntime(d)
  PROVE  IndInv'
<1>1. RowKept
  BY RowUntouched DEF InvokeRuntime
<1>2. TypeOK'
  BY <1>1 DEF InvokeRuntime, RowKept, IndInv, TypeOK, Endings, PCs, InDispatch,
     queueVars
<1>3. Safe'
  BY <1>1, <1>2 DEF InvokeRuntime, RowKept, IndInv, TypeOK, Safe, StartedOnce,
     OneSender, ResultsAreReal, CompletedRan, Holds, rowVars
<1> QED
  BY <1>1, <1>2, <1>3 DEF RowKept, IndInv

(* A refused connection leaves the sandbox empty and the sender the same.   *)
LEMMA NeverReachedStep ==
  ASSUME IndInv, NEW d \in Dispatchers, NeverReached(d)
  PROVE  IndInv'
<1>1. RowKept
  BY RowUntouched DEF NeverReached
<1>2. TypeOK'
  BY <1>1 DEF NeverReached, RowKept, IndInv, TypeOK, Endings, PCs, InDispatch,
     queueVars, sandboxVars
<1>3. Safe'
  BY <1>1, <1>2 DEF NeverReached, RowKept, IndInv, TypeOK, Safe, StartedOnce,
     OneSender, ResultsAreReal, CompletedRan, Holds, rowVars, sandboxVars
<1> QED
  BY <1>1, <1>2, <1>3 DEF RowKept, IndInv

(* A dispatch that raises loses the right to send.                          *)
LEMMA DispatchRaisesStep ==
  ASSUME IndInv, NEW d \in Dispatchers, DispatchRaises(d)
  PROVE  IndInv'
<1>1. RowKept
  BY RowUntouched DEF DispatchRaises
<1>2. TypeOK'
  BY <1>1 DEF DispatchRaises, RowKept, IndInv, TypeOK, Endings, PCs, InDispatch,
     queueVars, sandboxVars
<1>3. Safe'
  BY <1>1, <1>2 DEF DispatchRaises, RowKept, IndInv, TypeOK, Safe, StartedOnce,
     OneSender, ResultsAreReal, CompletedRan, Holds, rowVars, sandboxVars
<1> QED
  BY <1>1, <1>2, <1>3 DEF RowKept, IndInv

(* An accepted job is in the runtime's hands.                               *)
LEMMA AcceptedStep ==
  ASSUME IndInv, NEW d \in Dispatchers, Accepted(d)
  PROVE  IndInv'
<1>1. RowKept
  BY RowUntouched DEF Accepted
<1>2. TypeOK'
  BY <1>1 DEF Accepted, RowKept, IndInv, TypeOK, Endings, PCs, queueVars,
     sandboxVars
<1>3. Safe'
  BY <1>1, <1>2 DEF Accepted, RowKept, IndInv, TypeOK, Safe, StartedOnce, OneSender,
     ResultsAreReal, CompletedRan, Holds, rowVars, sandboxVars
<1> QED
  BY <1>1, <1>2, <1>3 DEF RowKept, IndInv

(* An answer carries a result.                                              *)
LEMMA AnsweredStep ==
  ASSUME IndInv, NEW d \in Dispatchers, Answered(d)
  PROVE  IndInv'
<1>1. RowKept
  BY RowUntouched DEF Answered
<1>2. TypeOK'
  BY <1>1 DEF Answered, RowKept, IndInv, TypeOK, Endings, PCs, InDispatch,
     queueVars, sandboxVars
<1>3. Safe'
  BY <1>1, <1>2 DEF Answered, RowKept, IndInv, TypeOK, Safe, StartedOnce, OneSender,
     ResultsAreReal, CompletedRan, Holds, rowVars, sandboxVars
<1> QED
  BY <1>1, <1>2, <1>3 DEF RowKept, IndInv

(* A lost invocation is not sent again.                                     *)
LEMMA InvocationLostStep ==
  ASSUME IndInv, NEW d \in Dispatchers, InvocationLost(d)
  PROVE  IndInv'
<1>1. RowKept
  BY RowUntouched DEF InvocationLost
<1>2. TypeOK'
  BY <1>1 DEF InvocationLost, RowKept, IndInv, TypeOK, Endings, PCs, queueVars
<1>3. Safe'
  BY <1>1, <1>2 DEF InvocationLost, RowKept, IndInv, TypeOK, Safe, StartedOnce,
     OneSender, ResultsAreReal, CompletedRan, Holds, rowVars
<1> QED
  BY <1>1, <1>2, <1>3 DEF RowKept, IndInv

(* The answer of an API run completes its row.                              *)
LEMMA CompleteDispatchStep ==
  ASSUME IndInv, NEW d \in Dispatchers, CompleteDispatch(d)
  PROVE  IndInv'
<1>1. RowKept
  BY Completing DEF CompleteDispatch, IndInv, Safe, ResultsAreReal
<1>2. TypeOK'
  BY <1>1 DEF CompleteDispatch, RowKept, IndInv, TypeOK, Endings, PCs, queueVars,
     sandboxVars
<1>3. Safe'
  BY <1>1, Completing, <1>2 DEF CompleteDispatch, RowKept, IndInv, TypeOK, Safe,
     StartedOnce, OneSender, ResultsAreReal, CompletedRan, Holds, sandboxVars
<1> QED
  BY <1>1, <1>2, <1>3 DEF RowKept, IndInv

(* A failed dispatch ends the row unless it had ended.                      *)
LEMMA FailDispatchStep ==
  ASSUME IndInv, NEW d \in Dispatchers, FailDispatch(d)
  PROVE  IndInv'
<1>1. RowKept
  BY FinishingWithoutResult DEF FailDispatch
<1>2. TypeOK'
  BY <1>1 DEF FailDispatch, RowKept, IndInv, TypeOK, Endings, PCs, queueVars,
     sandboxVars
<1>3. Safe'
  BY <1>1, FinishingWithoutResult, <1>2 DEF FailDispatch, RowKept, IndInv, TypeOK,
     Safe, StartedOnce, OneSender, ResultsAreReal, CompletedRan, Holds, sandboxVars
<1> QED
  BY <1>1, <1>2, <1>3 DEF RowKept, IndInv

(* A cancelled dispatch ends the row unless it had ended.                   *)
LEMMA DispatchCancelledStep ==
  ASSUME IndInv, NEW d \in Dispatchers, DispatchCancelled(d)
  PROVE  IndInv'
<1>1. RowKept
  BY FinishingWithoutResult DEF DispatchCancelled
<1>2. TypeOK'
  BY <1>1 DEF DispatchCancelled, RowKept, IndInv, TypeOK, Endings, PCs, InDispatch,
     queueVars, sandboxVars
<1>3. Safe'
  BY <1>1, FinishingWithoutResult, <1>2 DEF DispatchCancelled, RowKept, IndInv,
     TypeOK, Safe, StartedOnce, OneSender, ResultsAreReal, CompletedRan, Holds,
     sandboxVars
<1> QED
  BY <1>1, <1>2, <1>3 DEF RowKept, IndInv

(* Stopping the sandbox may end the user's task.                            *)
LEMMA BestEffortCancelStep ==
  ASSUME IndInv, NEW d \in Dispatchers, BestEffortCancel(d)
  PROVE  IndInv'
<1>1. RowKept
  BY RowUntouched DEF BestEffortCancel
<1>2. TypeOK'
  BY <1>1 DEF BestEffortCancel, RowKept, IndInv, TypeOK, Endings, PCs, queueVars
<1>3. Safe'
  BY <1>1, <1>2 DEF BestEffortCancel, RowKept, IndInv, TypeOK, Safe, StartedOnce,
     OneSender, ResultsAreReal, CompletedRan, Holds, rowVars
<1> QED
  BY <1>1, <1>2, <1>3 DEF RowKept, IndInv

(* A dispatcher that dies sends nothing.                                    *)
LEMMA CrashStep ==
  ASSUME IndInv, NEW d \in Dispatchers, Crash(d)
  PROVE  IndInv'
<1>1. RowKept
  BY RowUntouched DEF Crash
<1>2. TypeOK'
  <2>1. crashes' \in 0 .. MaxCrashes
    BY MaxCrashesAssumption DEF Crash, IndInv, TypeOK
  <2> QED
    BY <1>1, <2>1 DEF Crash, RowKept, IndInv, TypeOK, Endings, PCs, sandboxVars
<1>3. Safe'
  BY <1>1, <1>2 DEF Crash, RowKept, IndInv, TypeOK, Safe, StartedOnce, OneSender,
     ResultsAreReal, CompletedRan, Holds, rowVars, sandboxVars
<1> QED
  BY <1>1, <1>2, <1>3 DEF RowKept, IndInv

(* The cancel request reads the row.                                        *)
LEMMA SeeActiveStep ==
  ASSUME IndInv, SeeActive
  PROVE  IndInv'
<1>1. RowKept
  BY RowUntouched DEF SeeActive
<1>2. TypeOK'
  BY <1>1 DEF SeeActive, RowKept, IndInv, TypeOK, Endings, queueVars, sandboxVars
<1>3. Safe'
  BY <1>1, <1>2 DEF SeeActive, RowKept, IndInv, TypeOK, Safe, StartedOnce,
     OneSender, ResultsAreReal, CompletedRan, Holds, rowVars, sandboxVars
<1> QED
  BY <1>1, <1>2, <1>3 DEF RowKept, IndInv

(* The cancel request ends the row unless it had ended.                     *)
LEMMA CancelRunStep ==
  ASSUME IndInv, CancelRun
  PROVE  IndInv'
<1>1. RowKept
  BY FinishingWithoutResult DEF CancelRun
<1>2. TypeOK'
  BY <1>1 DEF CancelRun, RowKept, IndInv, TypeOK, Endings, queueVars, sandboxVars
<1>3. Safe'
  BY <1>1, FinishingWithoutResult, <1>2 DEF CancelRun, RowKept, IndInv, TypeOK,
     Safe, StartedOnce, OneSender, ResultsAreReal, CompletedRan, Holds, sandboxVars
<1> QED
  BY <1>1, <1>2, <1>3 DEF RowKept, IndInv

(* Stopping the sandbox may end the user's task.                            *)
LEMMA StopRuntimeStep ==
  ASSUME IndInv, StopRuntime
  PROVE  IndInv'
<1>1. RowKept
  BY RowUntouched DEF StopRuntime
<1>2. TypeOK'
  BY <1>1 DEF StopRuntime, RowKept, IndInv, TypeOK, Endings, queueVars
<1>3. Safe'
  BY <1>1, <1>2 DEF StopRuntime, RowKept, IndInv, TypeOK, Safe, StartedOnce,
     OneSender, ResultsAreReal, CompletedRan, Holds, rowVars
<1> QED
  BY <1>1, <1>2, <1>3 DEF RowKept, IndInv

(* User code begins for an invocation on its way.                           *)
LEMMA RuntimeBeginsStep ==
  ASSUME IndInv, RuntimeBegins
  PROVE  IndInv'
<1>1. RowKept
  BY RowUntouched DEF RuntimeBegins
<1>2. TypeOK'
  BY <1>1 DEF RuntimeBegins, RowKept, IndInv, TypeOK, Endings, queueVars
<1>3. Safe'
  BY <1>1, <1>2 DEF RuntimeBegins, RowKept, IndInv, TypeOK, Safe, StartedOnce,
     OneSender, ResultsAreReal, CompletedRan, Holds, rowVars
<1> QED
  BY <1>1, <1>2, <1>3 DEF RowKept, IndInv

(* An invocation may be lost.                                               *)
LEMMA RequestDiesStep ==
  ASSUME IndInv, RequestDies
  PROVE  IndInv'
<1>1. RowKept
  BY RowUntouched DEF RequestDies
<1>2. TypeOK'
  BY <1>1 DEF RequestDies, RowKept, IndInv, TypeOK, Endings, queueVars
<1>3. Safe'
  BY <1>1, <1>2 DEF RequestDies, RowKept, IndInv, TypeOK, Safe, StartedOnce,
     OneSender, ResultsAreReal, CompletedRan, Holds, rowVars
<1> QED
  BY <1>1, <1>2, <1>3 DEF RowKept, IndInv

(* Only code that began ends.                                               *)
LEMMA RuntimeEndsStep ==
  ASSUME IndInv, RuntimeEnds
  PROVE  IndInv'
<1>1. RowKept
  BY RowUntouched DEF RuntimeEnds
<1>2. TypeOK'
  BY <1>1 DEF RuntimeEnds, RowKept, IndInv, TypeOK, Endings, queueVars
<1>3. Safe'
  BY <1>1, <1>2 DEF RuntimeEnds, RowKept, IndInv, TypeOK, Safe, StartedOnce,
     OneSender, ResultsAreReal, CompletedRan, Holds, rowVars
<1> QED
  BY <1>1, <1>2, <1>3 DEF RowKept, IndInv

(* The sandbox may be lost.                                                 *)
LEMMA RuntimeGoneStep ==
  ASSUME IndInv, RuntimeGone
  PROVE  IndInv'
<1>1. RowKept
  BY RowUntouched DEF RuntimeGone
<1>2. TypeOK'
  BY <1>1 DEF RuntimeGone, RowKept, IndInv, TypeOK, Endings, queueVars
<1>3. Safe'
  BY <1>1, <1>2 DEF RuntimeGone, RowKept, IndInv, TypeOK, Safe, StartedOnce,
     OneSender, ResultsAreReal, CompletedRan, Holds, rowVars
<1> QED
  BY <1>1, <1>2, <1>3 DEF RowKept, IndInv

(* A callback is only posted with a result.                                 *)
LEMMA TerminalAuthorizedStep ==
  ASSUME IndInv, TerminalAuthorized
  PROVE  IndInv'
<1>1. RowKept
  BY RowUntouched DEF TerminalAuthorized
<1>2. TypeOK'
  BY <1>1 DEF TerminalAuthorized, RowKept, IndInv, TypeOK, Endings, queueVars,
     MAX_CALLBACKS, MayReport
<1>3. Safe'
  BY <1>1, <1>2 DEF TerminalAuthorized, RowKept, IndInv, TypeOK, Safe, StartedOnce,
     OneSender, ResultsAreReal, CompletedRan, Holds, rowVars, CanPost
<1> QED
  BY <1>1, <1>2, <1>3 DEF RowKept, IndInv

(* A callback completes the row with the result it carries.                 *)
LEMMA TerminalCompletesStep ==
  ASSUME IndInv, TerminalCompletes
  PROVE  IndInv'
<1>1. RowKept
  BY Completing DEF TerminalCompletes, IndInv, Safe, ResultsAreReal
<1>2. TypeOK'
  <2>1. handlers' \in 0 .. MAX_CALLBACKS
    BY DEF TerminalCompletes, IndInv, TypeOK, MAX_CALLBACKS
  <2>2. alive' \in BOOLEAN
    BY DEF TerminalCompletes, IndInv, TypeOK
  <2> QED
    BY <1>1, <2>1, <2>2 DEF TerminalCompletes, RowKept, IndInv, TypeOK, Endings,
       queueVars
<1>3. Safe'
  BY <1>1, Completing, <1>2 DEF TerminalCompletes, RowKept, IndInv, TypeOK, Safe,
     StartedOnce, OneSender, ResultsAreReal, CompletedRan, Holds
<1> QED
  BY <1>1, <1>2, <1>3 DEF RowKept, IndInv

(* A callback may be lost in its handler.                                   *)
LEMMA TerminalDiesStep ==
  ASSUME IndInv, TerminalDies
  PROVE  IndInv'
<1>1. RowKept
  BY RowUntouched DEF TerminalDies
<1>2. TypeOK'
  BY <1>1 DEF TerminalDies, RowKept, IndInv, TypeOK, Endings, queueVars,
     MAX_CALLBACKS
<1>3. Safe'
  BY <1>1, <1>2 DEF TerminalDies, RowKept, IndInv, TypeOK, Safe, StartedOnce,
     OneSender, ResultsAreReal, CompletedRan, Holds, rowVars
<1> QED
  BY <1>1, <1>2, <1>3 DEF RowKept, IndInv

(* The cron lists the run.                                                  *)
LEMMA ListPendingStep ==
  ASSUME IndInv, ListPending
  PROVE  IndInv'
<1>1. RowKept
  BY RowUntouched DEF ListPending
<1>2. TypeOK'
  BY <1>1 DEF ListPending, RowKept, IndInv, TypeOK, Endings, sandboxVars
<1>3. Safe'
  BY <1>1, <1>2 DEF ListPending, RowKept, IndInv, TypeOK, Safe, StartedOnce,
     OneSender, ResultsAreReal, CompletedRan, Holds, rowVars, sandboxVars
<1> QED
  BY <1>1, <1>2, <1>3 DEF RowKept, IndInv

(* The cron publishes the run again.                                        *)
LEMMA RepublishStep ==
  ASSUME IndInv, Republish
  PROVE  IndInv'
<1>1. RowKept
  BY RowUntouched DEF Republish
<1>2. TypeOK'
  BY <1>1 DEF Republish, RowKept, IndInv, TypeOK, Endings, sandboxVars
<1>3. Safe'
  BY <1>1, <1>2 DEF Republish, RowKept, IndInv, TypeOK, Safe, StartedOnce,
     OneSender, ResultsAreReal, CompletedRan, Holds, rowVars, sandboxVars
<1> QED
  BY <1>1, <1>2, <1>3 DEF RowKept, IndInv

(* The sweep ends a run that has not ended.                                 *)
LEMMA FailExpiredStep ==
  ASSUME IndInv, FailExpired
  PROVE  IndInv'
<1>1. RowKept
  BY Finishing DEF FailExpired, Expired, RowKept, TERMINAL_RUN_STATES
<1>2. TypeOK'
  BY <1>1 DEF FailExpired, RowKept, IndInv, TypeOK, Endings, queueVars, sandboxVars
<1>3. Safe'
  BY <1>1, Finishing, <1>2 DEF FailExpired, RowKept, IndInv, TypeOK, Safe,
     StartedOnce, OneSender, ResultsAreReal, CompletedRan, Holds, sandboxVars,
     Expired, TERMINAL_RUN_STATES
<1> QED
  BY <1>1, <1>2, <1>3 DEF RowKept, IndInv

(* Time passes.                                                             *)
LEMMA TickStep ==
  ASSUME IndInv, Tick
  PROVE  IndInv'
<1>1. RowKept
  BY RowUntouched DEF Tick
<1>2. TypeOK'
  BY <1>1 DEF Tick, RowKept, IndInv, TypeOK, Endings, queueVars, sandboxVars,
     GRACE_OVER, YOUNG
<1>3. Safe'
  BY <1>1, <1>2 DEF Tick, RowKept, IndInv, TypeOK, Safe, StartedOnce, OneSender,
     ResultsAreReal, CompletedRan, Holds, rowVars, sandboxVars
<1> QED
  BY <1>1, <1>2, <1>3 DEF RowKept, IndInv

-----------------------------------------------------------------------------
(* The invariant is inductive: case by case of Next.                        *)
THEOREM Inductive == IndInv /\ [Next]_vars => IndInv'
<1> SUFFICES ASSUME IndInv, [Next]_vars PROVE IndInv'
  OBVIOUS
<1>1. CASE EnqueueRun
  BY <1>1, EnqueueRunStep
<1>2. ASSUME NEW d \in Dispatchers, Dispatch(d) PROVE IndInv'
  BY <1>2, DeliverStep, ResolveDispatchStep, StartExecutionStep, InvokeRuntimeStep,
     NeverReachedStep, DispatchRaisesStep, AcceptedStep, AnsweredStep,
     InvocationLostStep, CompleteDispatchStep, FailDispatchStep,
     DispatchCancelledStep, BestEffortCancelStep, CrashStep DEF Dispatch
<1>3. CASE SeeActive \/ CancelRun \/ StopRuntime
  BY <1>3, SeeActiveStep, CancelRunStep, StopRuntimeStep
<1>4. CASE Runtime
  BY <1>4, RuntimeBeginsStep, RequestDiesStep, RuntimeEndsStep, RuntimeGoneStep,
     TerminalAuthorizedStep, TerminalCompletesStep, TerminalDiesStep DEF Runtime
<1>5. CASE ListPending \/ Republish \/ FailExpired \/ Tick
  BY <1>5, ListPendingStep, RepublishStep, FailExpiredStep, TickStep
<1>6. CASE UNCHANGED vars
  BY <1>6 DEF vars, IndInv, TypeOK, EndedOnce, Safe, StartedOnce, OneSender,
              ResultsAreReal, CompletedRan, Holds
<1> QED
  BY <1>1, <1>2, <1>3, <1>4, <1>5, <1>6 DEF Next

(* Every reachable state satisfies the inductive invariant.                 *)
THEOREM Invariance == Spec => []IndInv
<1>1. Init => IndInv
  BY Initially
<1>2. IndInv /\ [Next]_vars => IndInv'
  BY Inductive
<1> QED
  BY <1>1, <1>2, PTL DEF Spec

(* Every reachable state of a run is well typed.                            *)
THEOREM TypeCorrect == Spec => []TypeOK
<1>1. IndInv => TypeOK
  BY DEF IndInv, Safe
<1> QED
  BY <1>1, Invariance, PTL

(* User code begins at most once for a run, and never before its row left   *)
(* PENDING, for any number of dispatchers, redeliveries and refusals.        *)
THEOREM CodeBeginsOnce == Spec => []StartedOnce
<1>1. IndInv => StartedOnce
  BY DEF IndInv, Safe
<1> QED
  BY <1>1, Invariance, PTL

(* Result, failure, cancellation and sweep end a run once, and its one event *)
(* tells the status of the row.                                             *)
THEOREM OneEndingPerRun == Spec => []EndedOnce
<1>1. IndInv => EndedOnce
  BY DEF IndInv, Safe
<1> QED
  BY <1>1, Invariance, PTL

(* A run is COMPLETED only when its user code ran to its end and said so.   *)
THEOREM CompletedMeansRan == Spec => []CompletedRan
<1>1. IndInv => CompletedRan
  BY DEF IndInv, Safe
<1> QED
  BY <1>1, Invariance, PTL
=============================================================================
