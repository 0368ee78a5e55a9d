-------------------------- MODULE AgentTurnsProofs --------------------------
(***************************************************************************)
(* Proofs about AgentTurns for any messages, any number of runs and any    *)
(* bounds: the types, OneActiveRun and NoneStranded.                       *)
(***************************************************************************)
EXTENDS AgentTurns, TLAPS

USE DEF history

\* Jobs, unfinished finishes and events are about runs that were created: what
\* makes a finish read a status of the two kinds it can have.
Known ==
    /\ \A r \in Runs : job[r] # "none" => Created(r)
    /\ \A f \in finishes : Created(f.run)
    /\ \A e \in events : Created(e.run)

\* The inductive invariant.
IndInv == TypeOK /\ Known /\ OneActiveRun /\ NoneStranded

\* The first state satisfies the invariant.
LEMMA Initially == Init => IndInv
<1> SUFFICES ASSUME Init PROVE IndInv
  OBVIOUS
<1>1. msg \in [Messages -> MessageRows]
  BY BoundsAssumption DEF Init, MessageRows
<1>2. spent \in [DOMAIN Bounds -> Nat]
  BY DEF Init
<1>3. TypeOK
  BY <1>1, <1>2 DEF Init, TypeOK, Jobs, Waits
<1>4. Known
  BY DEF Init, Known
<1>5. OneActiveRun /\ NoneStranded
  BY DEF Init, OneActiveRun, NoneStranded, Active
<1> QED
  BY <1>3, <1>4, <1>5 DEF IndInv

\* A run that starts while none is active is the only active one
\* (create_agent_run under the conversation's lock).
LEMMA Starting ==
  ASSUME IndInv, NEW q \in Runs, StartRun(q), Idle
  PROVE  /\ status' \in [Runs -> {"absent"} \cup Active \cup Ended]
         /\ conv' \in Active /\ waits' \in Waits
         /\ events' \subseteq Events
         /\ \A r \in Runs : Created(r) => Created(r)'
         /\ \A e \in events' : Created(e.run)'
         /\ OneActiveRun' /\ ~Idle'
<1>1. /\ status' = [status EXCEPT ![q] = "RUNNING"] /\ conv' = "RUNNING"
      /\ waits' = "none"
      /\ events' = events \cup {[type |-> "started", run |-> q]}
  BY DEF StartRun
<1> QED
  BY <1>1 DEF IndInv, TypeOK, Known, OneActiveRun, Idle, Created, Active, Ended, Events,
             Waits

\* Starting a run adds an event about that run only.
LEMMA StartingKnown ==
  ASSUME IndInv, NEW q \in Runs, StartRun(q), Idle, UNCHANGED <<job, finishes>>
  PROVE  Known'
<1>1. \A f \in finishes : f.run \in Runs
  BY DEF IndInv, TypeOK, Finishes
<1>2. \A r \in Runs : Created(r) => Created(r)'
  BY Starting
<1>3. \A e \in events' : Created(e.run)'
  BY Starting
<1> QED
  BY <1>1, <1>2, <1>3 DEF IndInv, Known

\* A claim keeps the message rows well formed (claim_queued_user_messages).
LEMMA Claiming ==
  ASSUME TypeOK, NEW q \in Runs, NEW ms, Claim(ms, q)
  PROVE  msg' \in [Messages -> MessageRows]
<1>1. q \in 0..MaxRuns
  BY BoundsAssumption DEF Runs
<1>2. ASSUME NEW m \in Messages PROVE [msg[m] EXCEPT !.claim = q] \in MessageRows
  BY <1>1 DEF TypeOK, MessageRows
<1> QED
  BY <1>2 DEF TypeOK, Claim

\* Every bound is a number that only grows.
LEMMA Spending ==
  ASSUME TypeOK, NEW b \in DOMAIN Bounds, Spend(b)
  PROVE  spent' \in [DOMAIN Bounds -> Nat]
<1>1. spent[b] + 1 \in Nat
  BY DEF TypeOK
<1> QED
  BY <1>1 DEF TypeOK, Spend

\* A finish that begins has read a status a created run can have.
LEMMA Beginning ==
  ASSUME TypeOK, NEW r \in Runs, NEW as \in Ended, NEW shown \in Answers,
         NEW words \in BOOLEAN, NEW by \in {"worker", "sweep", "handler"}, Created(r),
         BeginFinishAs(r, as, shown, words, by)
  PROVE  finishes' \subseteq Finishes
<1>1. status[r] \in Active \cup Ended
  BY DEF TypeOK, Created
<1>2. [run |-> r, as |-> as, conv |-> shown, words |-> words, saw |-> status[r],
       by |-> by] \in Finishes
  BY <1>1 DEF Finishes
<1> QED
  BY <1>2 DEF TypeOK, BeginFinishAs

\* A finish that adds nothing about the conversation.
LEMMA BeginningPlain ==
  ASSUME TypeOK, NEW r \in Runs, NEW as \in Ended,
         NEW by \in {"worker", "sweep", "handler"}, Created(r), BeginFinish(r, as, by)
  PROVE  finishes' \subseteq Finishes
<1>1. "none" \in Answers /\ FALSE \in BOOLEAN
  BY DEF Answers
<1> QED
  BY <1>1, Beginning DEF BeginFinish

\* The safety properties speak of the two statuses only.
LEMMA Quiet ==
  ASSUME IndInv, UNCHANGED <<status, conv>>
  PROVE  OneActiveRun' /\ NoneStranded'
BY DEF IndInv, OneActiveRun, NoneStranded, Idle

\* What is known of jobs, finishes and events survives a step that adds none
\* about a run that was not created.
LEMMA Keeping ==
  ASSUME IndInv, UNCHANGED status, events' \subseteq events,
         \A r \in Runs : job'[r] # "none" => job[r] # "none" \/ Created(r),
         \A f \in finishes' : f \in finishes \/ Created(f.run)
  PROVE  Known'
BY DEF IndInv, Known, Created

-----------------------------------------------------------------------------
\* Each action of Next preserves the invariant: first what the person does.
LEMMA JoinStep ==
  ASSUME IndInv, NEW m \in Messages, NEW r \in Runs, Join(m, r)
  PROVE  IndInv'
<1>0. [run |-> r, queued |-> TRUE, claim |-> 0] \in MessageRows
  BY BoundsAssumption DEF MessageRows, Runs
<1>1. TypeOK'
  BY <1>0 DEF Join, IndInv, TypeOK
<1>2. Known'
  BY Keeping DEF Join
<1>3. OneActiveRun' /\ NoneStranded'
  BY Quiet DEF Join
<1> QED
  BY <1>1, <1>2, <1>3 DEF IndInv

\* Send: a message that starts a run.
LEMMA SendStep ==
  ASSUME IndInv, NEW m \in Messages, NEW r \in Runs, Send(m, r)
  PROVE  IndInv'
<1>1. StartRun(r) /\ Idle /\ UNCHANGED <<decided, job, finishes, owing, spent, read, refused>>
  BY DEF Send
<1>2. msg' \in [Messages -> MessageRows]
  <2>1. r \in 0..MaxRuns
    BY BoundsAssumption DEF Runs
  <2>2. [msg[m] EXCEPT !.run = r] \in MessageRows
    BY <2>1 DEF IndInv, TypeOK, MessageRows
  <2> QED
    BY <2>2 DEF Send, IndInv, TypeOK
<1>3. TypeOK'
  BY <1>1, <1>2, Starting DEF Send, IndInv, TypeOK
<1>4. Known'
  BY <1>1, StartingKnown
<1> QED
  BY <1>1, <1>3, <1>4, Starting DEF IndInv, NoneStranded

\* StopRun: a stop that finds a run.
LEMMA StopRunStep ==
  ASSUME IndInv, NEW r \in Runs, StopRun(r)
  PROVE  IndInv'
<1>1. spent' \in [DOMAIN Bounds -> Nat]
  BY Spending DEF StopRun, IndInv, Bounds
<1>2. TypeOK'
  BY <1>1 DEF StopRun, IndInv, TypeOK, Active, Events
<1>3. Known'
  BY DEF StopRun, IndInv, TypeOK, Known, Created
<1>4. OneActiveRun' /\ NoneStranded'
  BY DEF StopRun, IndInv, TypeOK, OneActiveRun, NoneStranded, Idle, Active
<1> QED
  BY <1>2, <1>3, <1>4 DEF IndInv

\* StopPause: a stop that finds none.
LEMMA StopPauseStep ==
  ASSUME IndInv, StopPause
  PROVE  IndInv'
<1>1. spent' \in [DOMAIN Bounds -> Nat]
  BY Spending DEF StopPause, IndInv, Bounds
<1>2. TypeOK'
  BY <1>1 DEF StopPause, IndInv, TypeOK, Ended
<1>3. Known'
  BY Keeping DEF StopPause
<1>4. OneActiveRun' /\ NoneStranded'
  BY DEF StopPause, IndInv, OneActiveRun, NoneStranded, Active
<1> QED
  BY <1>2, <1>3, <1>4 DEF IndInv

\* Decide: an answered question.
LEMMA DecideStep ==
  ASSUME IndInv, NEW r \in Runs, Decide(r)
  PROVE  IndInv'
<1>1. TypeOK'
  BY DEF Decide, IndInv, TypeOK
<1>2. Known'
  BY Keeping DEF Decide
<1>3. OneActiveRun' /\ NoneStranded'
  BY Quiet DEF Decide
<1> QED
  BY <1>1, <1>2, <1>3 DEF IndInv

\* Resume: the resume after it.
LEMMA ResumeStep ==
  ASSUME IndInv, NEW r \in Runs, Resume(r)
  PROVE  IndInv'
<1> USE DEF Resume
<1>1. CASE Idle /\ r \notin asked
  <2>1. PICK q \in Runs : StartRun(q)
    BY <1>1
  <2>2. TypeOK'
    BY <1>1, <2>1, Starting DEF IndInv, TypeOK
  <2>3. Known'
    BY <1>1, <2>1, StartingKnown
  <2> QED
    BY <1>1, <2>1, <2>2, <2>3, Starting DEF IndInv, NoneStranded
<1>2. CASE ~(Idle /\ r \notin asked)
  <2>1. TypeOK'
    BY <1>2 DEF IndInv, TypeOK
  <2> QED
    BY <1>2, <2>1, Keeping, Quiet DEF IndInv
<1> QED
  BY <1>1, <1>2

\* JobStarts: a job that loads its run.
LEMMA JobStartsStep ==
  ASSUME IndInv, NEW r \in Runs, JobStarts(r)
  PROVE  IndInv'
<1>1. Created(r)
  BY DEF JobStarts, IndInv, Known
<1>2. finishes' \subseteq Finishes
  <2>1. CASE status[r] = "RUNNING"
    BY <2>1 DEF JobStarts, IndInv, TypeOK
  <2>2. CASE status[r] # "RUNNING"
    <3> DEFINE as == IF status[r] \in Ended THEN status[r] ELSE "STOPPED"
    <3>1. BeginFinish(r, as, "worker")
      BY <2>2 DEF JobStarts
    <3>2. as \in Ended
      BY DEF Ended
    <3> QED
      BY <1>1, <3>1, <3>2, BeginningPlain DEF IndInv
  <2> QED
    BY <2>1, <2>2
<1>3. \A f \in finishes' : f \in finishes \/ Created(f.run)
  BY <1>1 DEF JobStarts, BeginFinish, BeginFinishAs
<1>4. job' \in [Runs -> Jobs] /\ read' \subseteq Messages
  BY DEF JobStarts, IndInv, TypeOK, Jobs, Executing
<1>5. TypeOK'
  BY <1>2, <1>4 DEF JobStarts, IndInv, TypeOK
<1>6. Known'
  BY <1>1, <1>3, Keeping DEF JobStarts, IndInv, TypeOK
<1> QED
  BY <1>5, <1>6, Quiet DEF JobStarts, IndInv

\* Steer: queued messages taken by a run.
LEMMA SteerStep ==
  ASSUME IndInv, NEW r \in Runs, Steer(r)
  PROVE  IndInv'
<1>1. msg' \in [Messages -> MessageRows]
  BY Claiming DEF Steer, IndInv
<1>2. TypeOK'
  BY <1>1 DEF Steer, IndInv, TypeOK, Queue
<1> QED
  BY <1>2, Keeping, Quiet DEF Steer, IndInv

\* Ask: a question asked.
LEMMA AskStep ==
  ASSUME IndInv, NEW r \in Runs, Ask(r)
  PROVE  IndInv'
<1>1. spent' \in [DOMAIN Bounds -> Nat]
  BY Spending DEF Ask, IndInv, Bounds
<1>2. TypeOK'
  BY <1>1 DEF Ask, IndInv, TypeOK, Jobs, Executing
<1>3. Known'
  BY Keeping DEF Ask, IndInv, TypeOK
<1> QED
  BY <1>2, <1>3, Quiet DEF Ask, IndInv

\* Ends: a harness that ends.
LEMMA EndsStep ==
  ASSUME IndInv, NEW r \in Runs, Ends(r)
  PROVE  IndInv'
<1>1. Created(r)
  BY DEF Ends, IndInv, Known
<1>2. PICK as \in Ended, shown \in Answers, words \in BOOLEAN :
        BeginFinishAs(r, as, shown, words, "worker")
  <2> DEFINE End(as, shown, words) == BeginFinishAs(r, as, shown, words, "worker")
             Some == \E as \in Ended, shown \in Answers, words \in BOOLEAN :
                         End(as, shown, words)
  <2>1. /\ {"COMPLETED", "FAILED", "STOPPED"} \subseteq Ended
        /\ {"none", "WAITING"} \subseteq Answers
    BY DEF Ended, Answers
  <2>2. ASSUME NEW as \in Ended, NEW answer \in Answers, FinalAnswer(r, as, answer)
        PROVE  Some
    <3>1. End(as, answer, answer = "WAITING")
      BY <2>2 DEF FinalAnswer
    <3> HIDE DEF End
    <3>2. (answer = "WAITING") \in BOOLEAN
      OBVIOUS
    <3> QED
      BY <3>1, <3>2
  <2>3. \/ FinalAnswer(r, "FAILED", "none")
        \/ \E answer \in Answers :
               FinalAnswer(r, IF answer = "FAILED" THEN "FAILED" ELSE "COMPLETED", answer)
        \/ \E answer \in Answers : FinalAnswer(r, "STOPPED", answer)
        \/ End("COMPLETED", "WAITING", FALSE)
    BY DEF Ends
  <2>4. ASSUME End("COMPLETED", "WAITING", FALSE)
        PROVE  Some
    <3>1. "COMPLETED" \in Ended /\ "WAITING" \in Answers /\ FALSE \in BOOLEAN
      BY <2>1
    <3>2. \E words \in BOOLEAN : End("COMPLETED", "WAITING", words)
      <4> WITNESS FALSE \in BOOLEAN
      <4> QED
        BY <2>4
    <3> HIDE DEF End
    <3> QED
      BY <3>1, <3>2
  <2>5. ASSUME FinalAnswer(r, "FAILED", "none")
        PROVE  Some
    BY <2>1, <2>2, <2>5
  <2>6. ASSUME NEW answer \in Answers,
               FinalAnswer(r, IF answer = "FAILED" THEN "FAILED" ELSE "COMPLETED", answer)
        PROVE  Some
    <3> DEFINE as == IF answer = "FAILED" THEN "FAILED" ELSE "COMPLETED"
    <3>1. as \in Ended
      BY <2>1
    <3>2. FinalAnswer(r, as, answer)
      BY <2>6
    <3> HIDE DEF as, Some
    <3> QED
      BY <2>2, <3>1, <3>2
  <2>7. ASSUME NEW answer \in Answers, FinalAnswer(r, "STOPPED", answer)
        PROVE  Some
    BY <2>1, <2>2, <2>7
  <2>8. Some
    <3> HIDE DEF Some, End
    <3> QED
      BY <2>3, <2>4, <2>5, <2>6, <2>7
  <2> QED
    BY <2>8
<1>3. spent' \in [DOMAIN Bounds -> Nat]
  <2>1. UNCHANGED spent \/ Spend("pauses")
    BY DEF Ends, FinalAnswer
  <2> QED
    BY <2>1, Spending DEF IndInv, TypeOK, Bounds
<1>4. finishes' \subseteq Finishes
  BY <1>1, <1>2, Beginning DEF IndInv
<1>5. TypeOK'
  BY <1>4, <1>3 DEF Ends, history, IndInv, TypeOK, Jobs, Executing
<1>6. \A f \in finishes' : f \in finishes \/ Created(f.run)
  <2> DEFINE begun == [run |-> r, as |-> as, conv |-> shown, words |-> words,
                       saw |-> status[r], by |-> "worker"]
  <2>1. finishes' = finishes \cup {begun}
    BY <1>2 DEF BeginFinishAs
  <2>2. begun.run = r
    OBVIOUS
  <2> HIDE DEF begun
  <2> QED
    BY <1>1, <2>1, <2>2
<1>7. Known'
  <2>1. UNCHANGED <<status, events>> /\ job' = [job EXCEPT ![r] = "finishing"]
    BY DEF Ends
  <2>2. \A q \in Runs : job'[q] # "none" => job[q] # "none" \/ Created(q)
    BY <1>1, <2>1 DEF IndInv, TypeOK
  <2> QED
    BY <1>6, <2>1, <2>2, Keeping
<1> QED
  BY <1>5, <1>7, Quiet DEF Ends, IndInv

\* Finish: the commit of a finish.
LEMMA FinishStep ==
  ASSUME IndInv, NEW f \in finishes, Finish(f)
  PROVE  IndInv'
<1>1. f \in Finishes /\ Created(f.run) /\ finishes' \subseteq finishes
  BY DEF Finish, IndInv, TypeOK, Known
<1>2. job' \in [Runs -> Jobs]
      /\ \A r \in Runs : job'[r] # "none" => job[r] # "none" \/ r = f.run
  BY <1>1 DEF Finish, IndInv, TypeOK, Jobs, Finishes
<1>3. CASE f.saw \in Ended
  <2>1. TypeOK'
    BY <1>1, <1>2, <1>3 DEF Finish, Repaired, IndInv, TypeOK
  <2>2. OneActiveRun' /\ NoneStranded'
    BY <1>3 DEF Finish, Repaired, IndInv, OneActiveRun, NoneStranded, Idle, Active, Ended
  <2>3. Known'
    BY <1>1, <1>2, <1>3, Keeping DEF Finish, Finishes
  <2> QED
    BY <2>1, <2>2, <2>3 DEF IndInv
<1>4. CASE f.saw \notin Ended
  <2>1. Outcome(f) \in Ended
    BY <1>1 DEF Outcome, Finishes, Ended
  <2> DEFINE e == [type |-> "completed", run |-> f.run, status |-> Outcome(f)]
  <2>2. /\ status' = [status EXCEPT ![f.run] = Outcome(f)]
        /\ conv' \in {"WAITING"} \cup Ended
        /\ events' = events \cup {e}
        /\ waits' \in Waits
    BY <1>1, <1>4, <2>1 DEF Finish, Shown, Finishes, Answers, Ended, WaitsFor, Waits
  <2>3. e \in Events
    BY <1>1, <2>1 DEF Events, Finishes
  <2>4. TypeOK'
    BY <1>2, <2>1, <2>2, <2>3 DEF Finish, IndInv, TypeOK
  <2>5. OneActiveRun' /\ NoneStranded'
    BY <1>1, <2>1, <2>2 DEF IndInv, TypeOK, OneActiveRun, NoneStranded, Active, Ended
  <2>6. \A r \in Runs : Created(r) => Created(r)'
    BY <2>1, <2>2 DEF IndInv, TypeOK, Created, Ended
  <2>7. f.run \in Runs /\ Created(f.run)'
    BY <1>1, <2>6 DEF Finishes
  <2>8. Known'
    <3>1. \A r \in Runs : job'[r] # "none" => Created(r)'
      BY <1>2, <2>6, <2>7 DEF IndInv, Known
    <3>2. \A g \in finishes' : Created(g.run)'
      BY <1>1, <2>6 DEF IndInv, TypeOK, Known, Finishes
    <3>3. \A d \in events : d.run \in Runs
      BY DEF IndInv, TypeOK, Events
    <3>4. \A d \in events' : Created(d.run)'
      BY <2>2, <2>6, <2>7, <3>3 DEF IndInv, Known
    <3> QED
      BY <3>1, <3>2, <3>4 DEF Known
  <2> QED
    BY <2>4, <2>5, <2>8 DEF IndInv
<1> QED
  BY <1>3, <1>4

\* FinishFails: a finish that fails.
LEMMA FinishFailsStep ==
  ASSUME IndInv, NEW f \in finishes, FinishFails(f)
  PROVE  IndInv'
<1>1. spent' \in [DOMAIN Bounds -> Nat]
  BY Spending DEF FinishFails, IndInv, Bounds
<1>2. f.run \in Runs /\ Created(f.run)
  BY DEF IndInv, TypeOK, Known, Finishes
<1>3. TypeOK'
  BY <1>1, <1>2 DEF FinishFails, IndInv, TypeOK, Jobs
<1>4. Known'
  BY <1>2, Keeping DEF FinishFails, IndInv, TypeOK
<1> QED
  BY <1>3, <1>4, Quiet DEF FinishFails, IndInv

\* WorkerDies: a worker that dies.
LEMMA WorkerDiesStep ==
  ASSUME IndInv, NEW r \in Runs, WorkerDies(r)
  PROVE  IndInv'
<1>1. spent' \in [DOMAIN Bounds -> Nat]
  BY Spending DEF WorkerDies, IndInv, Bounds
<1>2. Created(r)
  BY DEF WorkerDies, IndInv, Known, Executing
<1>3. job' \in [Runs -> Jobs]
      /\ \A q \in Runs : job'[q] # "none" => job[q] # "none" \/ Created(q)
  BY <1>2 DEF WorkerDies, IndInv, TypeOK, Jobs
<1>4. TypeOK'
  BY <1>1, <1>3 DEF WorkerDies, IndInv, TypeOK
<1>5. Known'
  BY <1>3, Keeping DEF WorkerDies
<1> QED
  BY <1>4, <1>5, Quiet DEF WorkerDies, IndInv

\* Sweep: the recovery sweep.
LEMMA SweepStep ==
  ASSUME IndInv, NEW r \in Runs, Sweep(r)
  PROVE  IndInv'
<1>1. Created(r)
  BY DEF Sweep, Abandoned, Created, Active
<1>2. finishes' \subseteq Finishes
  BY <1>1, BeginningPlain DEF Sweep, IndInv, Ended
<1>3. TypeOK'
  BY <1>2 DEF Sweep, IndInv, TypeOK
<1>4. Known'
  BY <1>1, Keeping DEF Sweep, BeginFinish, BeginFinishAs
<1> QED
  BY <1>3, <1>4, Quiet DEF Sweep, IndInv

\* SweepErrs: a false alarm of the sweep.
LEMMA SweepErrsStep ==
  ASSUME IndInv, NEW r \in Runs, SweepErrs(r)
  PROVE  IndInv'
<1>1. Created(r)
  BY DEF SweepErrs, Created, Active
<1>2. finishes' \subseteq Finishes
  BY <1>1, BeginningPlain DEF SweepErrs, IndInv, Ended
<1>3. spent' \in [DOMAIN Bounds -> Nat]
  BY Spending DEF SweepErrs, IndInv, Bounds
<1>4. TypeOK'
  BY <1>2, <1>3 DEF SweepErrs, IndInv, TypeOK
<1>5. Known'
  BY <1>1, Keeping DEF SweepErrs, BeginFinish, BeginFinishAs
<1> QED
  BY <1>4, <1>5, Quiet DEF SweepErrs, IndInv

\* HandleStarted: a started event.
LEMMA HandleStartedStep ==
  ASSUME IndInv, NEW r \in Runs, HandleStarted(r)
  PROVE  IndInv'
<1>1. Created(r)
  BY DEF HandleStarted, Take, IndInv, Known
<1>2. TypeOK'
  BY DEF HandleStarted, Take, IndInv, TypeOK, Jobs
<1>3. Known'
  BY <1>1, Keeping DEF HandleStarted, Take, IndInv, TypeOK
<1> QED
  BY <1>2, <1>3, Quiet DEF HandleStarted, IndInv

\* HandleStop: a stop event.
LEMMA HandleStopStep ==
  ASSUME IndInv, NEW r \in Runs, HandleStop(r)
  PROVE  IndInv'
<1>1. Created(r)
  BY DEF HandleStop, Take, IndInv, Known
<1>2. finishes' \subseteq Finishes
  BY <1>1, BeginningPlain DEF HandleStop, IndInv, TypeOK, Ended
<1>3. TypeOK'
  BY <1>2 DEF HandleStop, Take, IndInv, TypeOK
<1>4. Known'
  BY <1>1, Keeping DEF HandleStop, Take, BeginFinish, BeginFinishAs
<1> QED
  BY <1>3, <1>4, Quiet DEF HandleStop, IndInv

\* HandleCompleted: a completed event.
LEMMA HandleCompletedStep ==
  ASSUME IndInv, NEW r \in Runs, NEW s \in Ended, HandleCompleted(r, s)
  PROVE  IndInv'
<1>1. TypeOK'
  BY DEF HandleCompleted, Take, IndInv, TypeOK
<1>2. Known'
  BY Keeping DEF HandleCompleted, Take
<1> QED
  BY <1>1, <1>2, Quiet DEF HandleCompleted, IndInv

\* FollowUp: a follow-up.
LEMMA FollowUpStep ==
  ASSUME IndInv, NEW r \in Runs, FollowUp(r)
  PROVE  IndInv'
<1> USE DEF FollowUp
<1>1. CASE Idle
  <2>1. PICK q \in Runs : StartRun(q) /\ Claim(Queue(r), q)
    BY <1>1
  <2>2. msg' \in [Messages -> MessageRows]
    BY <2>1, Claiming DEF IndInv
  <2>3. TypeOK'
    BY <1>1, <2>1, <2>2, Starting DEF IndInv, TypeOK
  <2>4. Known'
    BY <1>1, <2>1, StartingKnown
  <2> QED
    BY <1>1, <2>1, <2>3, <2>4, Starting DEF IndInv, NoneStranded
<1>2. CASE ~Idle
  <2>1. TypeOK'
    BY <1>2 DEF IndInv, TypeOK
  <2> QED
    BY <1>2, <2>1, Keeping, Quiet DEF IndInv
<1> QED
  BY <1>1, <1>2

\* FollowUpFails: a follow-up refused.
LEMMA FollowUpFailsStep ==
  ASSUME IndInv, NEW r \in Runs, FollowUpFails(r)
  PROVE  IndInv'
<1>1. spent' \in [DOMAIN Bounds -> Nat]
  BY Spending DEF FollowUpFails, IndInv, Bounds
<1>2. TypeOK'
  BY <1>1 DEF FollowUpFails, IndInv, TypeOK
<1> QED
  BY <1>2, Keeping, Quiet DEF FollowUpFails, IndInv

-----------------------------------------------------------------------------
\* The invariant is inductive: case by case of Next.
THEOREM Inductive == IndInv /\ [Next]_vars => IndInv'
<1> SUFFICES ASSUME IndInv, [Next]_vars PROVE IndInv'
  OBVIOUS
<1>1. ASSUME NEW m \in Messages, NEW r \in Runs, Person(m, r) PROVE IndInv'
  BY <1>1, JoinStep, SendStep DEF Person
<1>2. ASSUME NEW r \in Runs, StopRun(r) \/ Decide(r) \/ Steer(r) \/ Ask(r) PROVE IndInv'
  BY <1>2, StopRunStep, DecideStep, SteerStep, AskStep
<1>3. CASE StopPause
  BY <1>3, StopPauseStep
<1>4. ASSUME NEW r \in Runs, Work(r) PROVE IndInv'
  BY <1>4, JobStartsStep, EndsStep, SweepStep DEF Work
<1>5. ASSUME NEW r \in Runs, Handle(r) PROVE IndInv'
  BY <1>5, HandleStartedStep, HandleStopStep, HandleCompletedStep, FollowUpStep,
     ResumeStep DEF Handle
<1>6. ASSUME NEW r \in Runs, Mishap(r) PROVE IndInv'
  BY <1>6, WorkerDiesStep, SweepErrsStep, FollowUpFailsStep DEF Mishap
<1>7. ASSUME NEW f \in finishes, Finish(f) \/ FinishFails(f) PROVE IndInv'
  BY <1>7, FinishStep, FinishFailsStep
<1>8. CASE UNCHANGED vars
  BY <1>8 DEF vars, IndInv, TypeOK, Known, OneActiveRun, NoneStranded, Idle, Created
<1> QED
  BY <1>1, <1>2, <1>3, <1>4, <1>5, <1>6, <1>7, <1>8 DEF Next

\* Every reachable state satisfies the inductive invariant.
THEOREM Invariance == Spec => []IndInv
<1>1. Init => IndInv
  BY Initially
<1>2. IndInv /\ [Next]_vars => IndInv'
  BY Inductive
<1> QED
  BY <1>1, <1>2, PTL DEF Spec

\* Every reachable state of a conversation's turns is well typed: no run is
\* ever given a status outside AgentRunStatus.
THEOREM TypeCorrect == Spec => []TypeOK
<1>1. IndInv => TypeOK
  BY DEF IndInv
<1> QED
  BY <1>1, Invariance, PTL

\* No conversation ever has two active runs, whatever messages, follow-ups,
\* resumes, stops and sweeps meet.
THEOREM OneRunAtATime == Spec => []OneActiveRun
<1>1. IndInv => OneActiveRun
  BY DEF IndInv
<1> QED
  BY <1>1, Invariance, PTL

\* No conversation shows an active status while none of its runs is active,
\* although every finish writes from a row it read without a lock.
THEOREM NoConversationStranded == Spec => []NoneStranded
<1>1. IndInv => NoneStranded
  BY DEF IndInv
<1> QED
  BY <1>1, Invariance, PTL
=============================================================================
