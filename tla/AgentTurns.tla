----------------------------- MODULE AgentTurns -----------------------------
(***************************************************************************)
(* The turns of one conversation with an agent: messages a person sends,   *)
(* the runs that answer them, and everything that starts, ends, stops,     *)
(* pauses, resumes or gives up a run (app/modules/agent: services/         *)
(* conversation_turns.py, pause_resume.py, agent_runner_service.py,        *)
(* events/handlers.py, events/queued_followup.py).                         *)
(*                                                                         *)
(* Runs are numbered in the order they are created.  A run is executed by  *)
(* a job the queue delivers at least once; its start, its stop and its end *)
(* are events a group handles at least once.  Whoever ends a run reads its *)
(* row without locking it and writes it at the commit: a finish is a       *)
(* record in `finishes` from the one to the other.                         *)
(***************************************************************************)
EXTENDS Naturals

CONSTANTS
    Messages,      \* what the person sends, each once
    MaxRuns,       \* runs of the conversation; more than the bounds let start
    MaxStops,      \* bound: stops the person asks for
    MaxPauses,     \* bound: questions the agent asks
    MaxMishaps     \* bound: deaths of a worker, lost writes, false alarms

ASSUME BoundsAssumption ==
    /\ MaxRuns \in Nat /\ MaxStops \in Nat
    /\ MaxPauses \in Nat /\ MaxMishaps \in Nat

Runs == 1..MaxRuns

VARIABLES
    status,     \* agent_runs.status
    conv,       \* agent_conversations.status
    msg,        \* agent_messages of the person
    asked,      \* runs with a pausing call nobody has decided
    decided,    \* runs whose call was decided, the resume still to come
    job,        \* the job agent-run:<id> in the queue
    finishes,   \* finish_agent_run calls between their SELECT and the commit
    events,     \* events of the agent stream not handled yet
    owing,      \* runs whose completion handler found a queue to answer
    spent,      \* how much of each bound is used up
    read,       \* messages some run was given, by its history or by a claim
    refused,    \* runs whose queue could not get a turn
    waits       \* what a WAITING conversation was left waiting for, see Finish

vars == <<status, conv, msg, asked, decided, job, finishes, events, owing, spent,
          read, refused, waits>>

history == <<refused, waits>>

Active == {"RUNNING", "STOP_REQUESTED"}      \* ACTIVE_AGENT_RUN_STATUSES
Ended == {"COMPLETED", "FAILED", "STOPPED"}  \* TERMINAL_AGENT_RUN_STATUSES

Executing == {"working", "pausing", "finishing"}
Jobs == {"none", "queued", "relinquished", "lost", "done"} \cup Executing

\* agent_run_id, during_active_run and steered_into_run; run 0 is none.
MessageRows == [run: 0..MaxRuns, queued: BOOLEAN, claim: 0..MaxRuns]

\* A pausing call, the words of a final answer, an answer that came too early.
Waits == {"none", "call", "words", "late"}

\* What final_answer may say of the conversation; none when it was not called.
Answers == {"none", "WAITING", "COMPLETED", "FAILED"}

Finishes == [run: Runs, as: Ended, conv: Answers, words: BOOLEAN,
             saw: Active \cup Ended, by: {"worker", "sweep", "handler"}]

Events == [type: {"started", "stop"}, run: Runs]
          \cup [type: {"completed"}, run: Runs, status: Ended]

Bounds == [stops |-> MaxStops, pauses |-> MaxPauses, mishaps |-> MaxMishaps]

TypeOK ==
    /\ status \in [Runs -> {"absent"} \cup Active \cup Ended]
    /\ conv \in {"none", "WAITING"} \cup Active \cup Ended
    /\ msg \in [Messages -> MessageRows]
    /\ asked \subseteq Runs /\ decided \subseteq Runs
    /\ job \in [Runs -> Jobs]
    /\ finishes \subseteq Finishes /\ events \subseteq Events
    /\ owing \subseteq Runs /\ refused \subseteq Runs
    /\ waits \in Waits
    /\ spent \in [DOMAIN Bounds -> Nat]
    /\ read \subseteq Messages

Init ==
    /\ status = [r \in Runs |-> "absent"] /\ conv = "none"
    /\ msg = [m \in Messages |-> [run |-> 0, queued |-> FALSE, claim |-> 0]]
    /\ asked = {} /\ decided = {}
    /\ job = [r \in Runs |-> "none"]
    /\ finishes = {} /\ events = {} /\ owing = {}
    /\ spent = [b \in DOMAIN Bounds |-> 0]
    /\ read = {} /\ refused = {} /\ waits = "none"

-----------------------------------------------------------------------------
\* Variants a plausible bug would give the definitions below.
Idle_ForgetsStopping == \A r \in Runs : status[r] # "RUNNING"

Outcome_KeepsStopRequest(f) == IF f.saw = "STOP_REQUESTED" THEN f.saw ELSE f.as

Shown_InferredFromWhatWasRead(f, s) == IF f.conv = "none" THEN f.saw ELSE f.conv

HandleCompleted_SuccessOnly(r, s) ==
    /\ [type |-> "completed", run |-> r, status |-> s] \in events
    /\ events' = events \ {[type |-> "completed", run |-> r, status |-> s]}
    /\ owing' = IF s = "COMPLETED" /\ conv # "WAITING"
                   /\ \E m \in Messages : msg[m].run = r /\ msg[m].queued
                                          /\ msg[m].claim = 0
                THEN owing \cup {r} ELSE owing
    /\ UNCHANGED <<status, conv, msg, asked, decided, job, finishes, spent, read,
                   history>>

-----------------------------------------------------------------------------
Spend(b) == spent[b] < Bounds[b] /\ spent' = [spent EXCEPT ![b] = @ + 1]

\* get_active_agent_run_for_update finds no run.
Idle == \A r \in Runs : status[r] \notin Active

Created(r) == status[r] # "absent"

NextRun(r) == ~Created(r) /\ \A q \in Runs : q < r => Created(q)

\* create_agent_run and the event that has it executed.
StartRun(r) ==
    /\ NextRun(r)
    /\ status' = [status EXCEPT ![r] = "RUNNING"]
    /\ conv' = "RUNNING" /\ waits' = "none"
    /\ events' = events \cup {[type |-> "started", run |-> r]}

\* unclaimed_queued_messages.
Queue(r) == {m \in Messages : msg[m].run = r /\ msg[m].queued /\ msg[m].claim = 0}

Claim(ms, r) ==
    msg' = [m \in Messages |->
              IF m \in ms THEN [msg[m] EXCEPT !.claim = r] ELSE msg[m]]

-----------------------------------------------------------------------------
\* The person.  TurnCoordinator.start: a message joins the active run ...
Join(m, r) ==
    /\ msg[m].run = 0 /\ status[r] \in Active
    /\ msg' = [msg EXCEPT ![m] = [run |-> r, queued |-> TRUE, claim |-> 0]]
    /\ UNCHANGED <<status, conv, asked, decided, job, finishes, events, owing,
                   spent, read, history>>

\* ... or starts one, which denies every question still open.
Send(m, r) ==
    /\ msg[m].run = 0 /\ Idle
    /\ StartRun(r)
    /\ msg' = [msg EXCEPT ![m].run = r]
    /\ asked' = {}
    /\ UNCHANGED <<decided, job, finishes, owing, spent, read, refused>>

\* stop_conversation with an active run ...
StopRun(r) ==
    /\ status[r] \in Active
    /\ Spend("stops")
    /\ status' = [status EXCEPT ![r] = "STOP_REQUESTED"]
    /\ conv' = "STOP_REQUESTED"
    /\ events' = events \cup {[type |-> "stop", run |-> r]}
    /\ UNCHANGED <<msg, asked, decided, job, finishes, owing, read, history>>

\* ... and with none: open questions are denied, nothing resumes.
StopPause ==
    /\ Idle /\ asked # {}
    /\ Spend("stops")
    /\ asked' = {} /\ conv' = "STOPPED"
    /\ UNCHANGED <<status, msg, decided, job, finishes, events, owing, read, history>>

\* The person answers, or what a wait_for waited for comes: the decision and
\* the tool return are committed ...
Decide(r) ==
    /\ r \in asked
    /\ asked' = asked \ {r} /\ decided' = decided \cup {r}
    /\ UNCHANGED <<status, conv, msg, job, finishes, events, owing, spent, read,
                   history>>

\* ... then start_resume_run_if_ready, unless the run that asked or another one
\* is active: that one is taken to carry on.
Resume(r) ==
    /\ r \in decided
    /\ decided' = decided \ {r}
    /\ IF Idle /\ r \notin asked THEN \E q \in Runs : StartRun(q)
       ELSE UNCHANGED <<status, conv, events, waits>>
    /\ UNCHANGED <<msg, asked, job, finishes, owing, spent, read, refused>>

-----------------------------------------------------------------------------
\* finish_agent_run up to its SELECT.
BeginFinishAs(r, as, shown, words, by) ==
    /\ \A f \in finishes : ~(f.run = r /\ f.by = by)
    /\ finishes' = finishes \cup
         {[run |-> r, as |-> as, conv |-> shown, words |-> words, saw |-> status[r],
           by |-> by]}

BeginFinish(r, as, by) == BeginFinishAs(r, as, "none", FALSE, by)

\* process_agent_run: the job loads the run and its history, and executes it
\* unless it is no longer RUNNING.
JobStarts(r) ==
    /\ job[r] \in {"queued", "relinquished"}
    /\ IF status[r] = "RUNNING"
       THEN /\ job' = [job EXCEPT ![r] = "working"]
            /\ read' = {m \in Messages : msg[m].run # 0}
            /\ UNCHANGED finishes
       ELSE /\ job' = [job EXCEPT ![r] = "finishing"]
            /\ BeginFinish(r, IF status[r] \in Ended THEN status[r] ELSE "STOPPED",
                           "worker")
            /\ UNCHANGED read
    /\ UNCHANGED <<status, conv, msg, asked, decided, events, owing, spent, history>>

\* PendingUserMessagesCapability: before a node the run takes what was queued.
Steer(r) ==
    /\ job[r] = "working" /\ Queue(r) # {}
    /\ Claim(Queue(r), r)
    /\ read' = read \cup Queue(r)
    /\ UNCHANGED <<status, conv, asked, decided, job, finishes, events, owing, spent,
                   history>>

\* A pausing tool call is saved; it is shown before the run is finished.
Ask(r) ==
    /\ job[r] = "working"
    /\ Spend("pauses")
    /\ asked' = asked \cup {r}
    /\ job' = [job EXCEPT ![r] = "pausing"]
    /\ UNCHANGED <<status, conv, msg, decided, finishes, events, owing, read, history>>

\* The harness's terminal event, after a final answer that may name the status of
\* the conversation itself.
FinalAnswer(r, as, answer) ==
    /\ BeginFinishAs(r, as, answer, answer = "WAITING", "worker")
    /\ IF answer = "WAITING" THEN Spend("pauses") ELSE UNCHANGED spent

Ends(r) ==
    /\ \/ /\ job[r] = "working"                              \* ERROR, REJECTED
          /\ FinalAnswer(r, "FAILED", "none")
       \/ /\ job[r] = "working"                              \* COMPLETED
          /\ \E answer \in Answers :
                 FinalAnswer(r, IF answer = "FAILED" THEN "FAILED" ELSE "COMPLETED", answer)
       \/ /\ job[r] = "working"                              \* STOPPED
          /\ status[r] \in {"STOP_REQUESTED", "STOPPED"}
          /\ \E answer \in Answers : FinalAnswer(r, "STOPPED", answer)
       \/ /\ job[r] = "pausing"                              \* WAITING
          /\ BeginFinishAs(r, "COMPLETED", "WAITING", FALSE, "worker")
          /\ UNCHANGED spent
    /\ job' = [job EXCEPT ![r] = "finishing"]
    /\ UNCHANGED <<status, conv, msg, asked, decided, events, owing, read, history>>

-----------------------------------------------------------------------------
\* What finish_agent_run makes of what it saw: a run asked to stop is STOPPED.
Outcome(f) == IF f.saw = "STOP_REQUESTED" THEN "STOPPED" ELSE f.as

Shown(f, s) == IF f.conv = "none" THEN s ELSE f.conv

\* reconcile_conversation_to_terminal: the run had ended already.
Repaired(f) ==
    IF conv \in Active /\ Shown(f, f.saw) \in Ended THEN Shown(f, f.saw) ELSE conv

WaitsFor(f) ==
    IF f.conv # "WAITING" THEN "none"
    ELSE IF f.words THEN "words"
    ELSE IF f.run \in asked \cup decided THEN "call" ELSE "late"

\* The write and the commit of finish_agent_run, with the event.
Finish(f) ==
    /\ finishes' = finishes \ {f}
    /\ IF f.saw \in Ended
       THEN conv' = Repaired(f) /\ UNCHANGED <<status, events, waits>>
       ELSE /\ status' = [status EXCEPT ![f.run] = Outcome(f)]
            /\ conv' = Shown(f, Outcome(f))
            /\ waits' = WaitsFor(f)
            /\ events' = events \cup
                 {[type |-> "completed", run |-> f.run, status |-> Outcome(f)]}
    /\ job' = IF f.by = "worker" THEN [job EXCEPT ![f.run] = "done"] ELSE job
    /\ UNCHANGED <<msg, asked, decided, owing, spent, read, refused>>

\* finalize_safely swallows a write that failed.
FinishFails(f) ==
    /\ f.by = "worker"
    /\ Spend("mishaps")
    /\ finishes' = finishes \ {f}
    /\ job' = [job EXCEPT ![f.run] = "done"]
    /\ UNCHANGED <<status, conv, msg, asked, decided, events, owing, read, history>>

\* The worker goes away: the queue delivers the job again, or nobody hands it
\* back.  A job that is done may not have been acknowledged.
WorkerDies(r) ==
    /\ job[r] \in Executing \cup {"done"}
    /\ Spend("mishaps")
    /\ job' \in {[job EXCEPT ![r] = "relinquished"], [job EXCEPT ![r] = "lost"]}
    /\ finishes' = {f \in finishes : f.run # r \/ f.by # "worker"}
    /\ UNCHANGED <<status, conv, msg, asked, decided, events, owing, read, history>>

\* reconcile_orphaned_agent_runs.  A run nobody executes is found by the
\* heartbeat of its job, a stop by how long it has been ignored.
Abandoned(r) ==
    /\ status[r] \in Active /\ job[r] \notin Executing
    /\ job[r] \in {"relinquished", "lost", "done"} \/ status[r] = "STOP_REQUESTED"

Sweep(r) ==
    /\ Abandoned(r)
    /\ BeginFinish(r, "FAILED", "sweep")
    /\ UNCHANGED <<status, conv, msg, asked, decided, job, events, owing, spent, read,
                   history>>

\* The heartbeat of a live job expired, or a run waited in the queue for hours.
SweepErrs(r) ==
    /\ status[r] \in Active /\ ~Abandoned(r)
    /\ Spend("mishaps")
    /\ BeginFinish(r, "FAILED", "sweep")
    /\ UNCHANGED <<status, conv, msg, asked, decided, job, events, owing, read, history>>

-----------------------------------------------------------------------------
\* _process_agent_control_event, per type of event.
Take(e) == e \in events /\ events' = events \ {e}

\* enqueue_agent_run: the job id keeps a second delivery from adding a job.
HandleStarted(r) ==
    /\ Take([type |-> "started", run |-> r])
    /\ job' = IF job[r] = "none" THEN [job EXCEPT ![r] = "queued"] ELSE job
    /\ UNCHANGED <<status, conv, msg, asked, decided, finishes, owing, spent, read,
                   history>>

\* A job that runs will see the stop; streaq also reports a lost one as running.
HandleStop(r) ==
    /\ Take([type |-> "stop", run |-> r])
    /\ \/ job[r] \in Executing \cup {"relinquished", "lost"} /\ UNCHANGED finishes
       \/ job[r] \notin Executing \cup {"lost"}
          /\ BeginFinish(r, "STOPPED", "handler")
    /\ UNCHANGED <<status, conv, msg, asked, decided, job, owing, spent, read, history>>

\* start_followup_run_for_queued_messages up to the lock.
HandleCompleted(r, s) ==
    /\ Take([type |-> "completed", run |-> r, status |-> s])
    /\ owing' = IF s # "STOPPED" /\ conv # "WAITING" /\ Queue(r) # {}
                THEN owing \cup {r} ELSE owing
    /\ UNCHANGED <<status, conv, msg, asked, decided, job, finishes, spent, read,
                   history>>

\* start_queued_followup under the conversation's lock.
FollowUp(r) ==
    /\ r \in owing
    /\ owing' = owing \ {r}
    /\ IF Idle
       THEN /\ \E q \in Runs : StartRun(q) /\ Claim(Queue(r), q)
            /\ asked' = {}
       ELSE UNCHANGED <<status, conv, events, msg, asked, waits>>
    /\ UNCHANGED <<decided, job, finishes, spent, read, refused>>

\* No allowance is left, or the database fails: the exception is swallowed.
FollowUpFails(r) ==
    /\ r \in owing
    /\ Spend("mishaps")
    /\ owing' = owing \ {r} /\ refused' = refused \cup {r}
    /\ UNCHANGED <<status, conv, msg, asked, decided, job, finishes, events, read,
                   waits>>

-----------------------------------------------------------------------------
Person(m, r) == Join(m, r) \/ Send(m, r)

Work(r) == JobStarts(r) \/ Ends(r) \/ Sweep(r)

Handle(r) ==
    \/ HandleStarted(r) \/ HandleStop(r) \/ FollowUp(r) \/ Resume(r)
    \/ \E s \in Ended : HandleCompleted(r, s)

Mishap(r) == WorkerDies(r) \/ SweepErrs(r) \/ FollowUpFails(r)

Next ==
    \/ \E m \in Messages, r \in Runs : Person(m, r)
    \/ \E r \in Runs : StopRun(r) \/ Decide(r) \/ Steer(r) \/ Ask(r)
    \/ StopPause
    \/ \E r \in Runs : Work(r) \/ Handle(r) \/ Mishap(r)
    \/ \E f \in finishes : Finish(f) \/ FinishFails(f)

Spec == Init /\ [][Next]_vars

\* Jobs are taken up and end, the sweep runs, events are handled, a resume once
\* decided is tried, and what began to finish commits.  The bounds leave only
\* finite behaviours, so it is enough that not all of it stands still.
Progress ==
    \/ \E r \in Runs : Work(r) \/ Handle(r)
    \/ \E f \in finishes : Finish(f)

FairSpec == Spec /\ WF_vars(Progress)
-----------------------------------------------------------------------------
\* Messages, follow-ups, resumes, stops and sweeps never leave a conversation
\* with two active runs, whoever finishes what at the same time
\* (lock_conversation with the active-run check).  A run swept by mistake is no
\* longer active, although its job may still be at work.
OneActiveRun ==
    \A q, r \in Runs : status[q] \in Active /\ status[r] \in Active => q = r

\* A conversation never shows an active status with no run active: what waits on
\* conversation.status, a schedule's recovery or a workflow's step, would wait
\* for ever (list_conversations_stranded_by_a_finished_run).
NoneStranded == conv \in Active => ~Idle

\* The run a message waits for: the one that claimed it or it was sent to.
Holder(m) == IF msg[m].claim # 0 THEN msg[m].claim ELSE msg[m].run

\* The person is being asked something, by a call or in words: the answer starts
\* the run that reads what is queued.
BeingAsked == conv = "WAITING" /\ (waits = "words" \/ asked \cup decided # {})

\* Why a message may stay unread: its run was stopped, or failed with it in
\* hand; a later run, which would have read it, ended so; the person is being
\* asked or has stopped the conversation; or its turn could not be started.
Excused(m) ==
    \/ status[Holder(m)] = "STOPPED"
    \/ status[Holder(m)] = "FAILED" /\ m \notin Queue(msg[m].run)
    \/ \E r \in Runs : r > Holder(m) /\ status[r] \in {"FAILED", "STOPPED"}
    \/ BeingAsked \/ conv = "STOPPED"
    \/ msg[m].run \in refused

Answered(m) == msg[m].run # 0 => m \in read \/ Excused(m)

\* What the code does not keep: a run finished WAITING after its question had been
\* answered, so that nothing asks, nothing resumes and no follow-up starts.
LostResume == conv = "WAITING" /\ waits = "late"

\* Every turn comes to its end and every message was then read by some run,
\* unless one of the excuses or the lost resume holds: no message is lost between
\* the run that had loaded its history and the one its completion starts ("each
\* leaves a person waiting on an answer that will otherwise never come",
\* queued_followup.py).
EveryTurnSettles == []<>(Idle /\ (LostResume \/ \A m \in Messages : Answered(m)))

\* "The queue does not need it: their answer starts a run whose history rebuild
\* picks these messages up" (conversation_turns.py:267): the same with nothing
\* said of a lost resume.
WaitingLosesNothing == []<>(Idle /\ \A m \in Messages : Answered(m))

\* While a run is active its conversation shows it.  The repair of a
\* conversation is for one "its finished run left behind", and "an ordinary
\* second finalize writes nothing" (conversation_status_repair.py).
ActiveRunShows == ~Idle => conv \in Active

\* A run the person stopped ends as STOPPED ("Stopped, not failed",
\* conversation_repository.py).
StopIsHonoured ==
    [][\A r \in Runs : status[r] = "STOP_REQUESTED"
                         => status'[r] \in {"STOP_REQUESTED", "STOPPED"}]_vars
=============================================================================
