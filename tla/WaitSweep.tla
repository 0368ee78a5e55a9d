------------------------------ MODULE WaitSweep -----------------------------
(***************************************************************************)
(* The reconciliation sweep seen from all the runs of a deployment: waits  *)
(* whose completion may be lost, and a cron that looks at the Batch oldest *)
(* of them (app/modules/workflow/services/run_resume_service.py).          *)
(*                                                                         *)
(* Time counts periods of the cron.  Waits that suspend on an agent behave *)
(* as MACHINE, or as HUMAN while the agent itself waits for a person.      *)
(***************************************************************************)
EXTENDS Naturals, FiniteSets

CONSTANTS
    Waits,
    KindOf,          \* kind of each wait
    Batch,           \* RECONCILE_BATCH
    After,           \* RECONCILE_AFTER
    MachineCeiling,  \* workflow_wait_max_age_seconds
    HumanCeiling,    \* the same times HUMAN_WAIT_CEILING_MULTIPLIER
    Horizon          \* bound on time, and the furthest a timer is set

WaitKinds == {"MACHINE", "HUMAN", "TIME"}

ASSUME WaitsAssumption == IsFiniteSet(Waits) /\ KindOf \in [Waits -> WaitKinds]
ASSUME SweepAssumption ==
    /\ Batch \in Nat \ {0} /\ After \in Nat
    /\ MachineCeiling \in Nat /\ HumanCeiling \in Nat /\ Horizon \in Nat
    /\ After <= MachineCeiling /\ MachineCeiling <= HumanCeiling

VARIABLES
    now,
    swept,    \* the cron ran in this period
    waitOf,   \* [status, created, due]; due is read for timers only
    endedAt,  \* when the work behind a wait ended, Horizon + 1 while it runs
    hidden,   \* work that ended as a cancelled function run
    listed    \* history: the batch of the last sweep

sweepVars == <<now, swept, waitOf, endedAt, hidden, listed>>

Never == Horizon + 1
Statuses == {"absent", "ACTIVE", "COMPLETED", "FAILED"}
Active == {w \in Waits : waitOf[w].status = "ACTIVE"}

SweepTypeOK ==
    /\ now \in 0..Horizon /\ swept \in BOOLEAN
    /\ waitOf \in [Waits -> [status : Statuses, created : 0..Horizon, due : 0..Horizon]]
    /\ endedAt \in [Waits -> 0..Never]
    /\ hidden \subseteq Waits /\ listed \subseteq Waits

SweepInit ==
    /\ now = 0 /\ swept = FALSE
    /\ waitOf = [w \in Waits |-> [status |-> "absent", created |-> 0, due |-> 0]]
    /\ endedAt = [w \in Waits |-> Never] /\ hidden = {} /\ listed = {}

-----------------------------------------------------------------------------
\* Variants a plausible bug would give the definitions below.
Batches_AnyOrder ==
    LET old == {w \in Waits : waitOf[w].status = "ACTIVE" /\ waitOf[w].created + After <= now}
    IN {b \in SUBSET old : Cardinality(b) = IF Cardinality(old) < Batch
                                            THEN Cardinality(old) ELSE Batch}

Stale_NoTimers ==
    {w \in Active : KindOf[w] # "TIME" /\ waitOf[w].created + After <= now}

-----------------------------------------------------------------------------
\* _persist_wait.
PersistWait(w) ==
    /\ waitOf[w].status = "absent"
    /\ \E due \in IF KindOf[w] = "TIME" THEN now..Horizon ELSE {0} :
           waitOf' = [waitOf EXCEPT ![w] = [status |-> "ACTIVE", created |-> now, due |-> due]]
    /\ UNCHANGED <<now, swept, endedAt, hidden, listed>>

\* The agent or function ends; its completion event may never arrive.  To the
\* sweep a function run that was cancelled is still RUNNING (get_run_status).
WorkSettles(w) ==
    /\ w \in Active /\ KindOf[w] = "MACHINE" /\ endedAt[w] = Never
    /\ endedAt' = [endedAt EXCEPT ![w] = now]
    /\ hidden' \in {hidden, hidden \cup {w}}
    /\ UNCHANGED <<now, swept, waitOf, listed>>

CompleteWait(w) == waitOf' = [waitOf EXCEPT ![w].status = "COMPLETED"]

\* resume_internal and submit_form, when the event, timer or answer does arrive.
Wake(w) ==
    /\ w \in Active
    /\ CASE KindOf[w] = "MACHINE" -> endedAt[w] # Never
         [] KindOf[w] = "TIME" -> waitOf[w].due <= now
         [] OTHER -> TRUE
    /\ CompleteWait(w)
    /\ UNCHANGED <<now, swept, endedAt, hidden, listed>>

\* list_active_older_than orders by age and stops at the limit.
Stale == {w \in Active : waitOf[w].created + After <= now}
Batches ==
    {b \in SUBSET Stale :
        /\ Cardinality(b) = IF Cardinality(Stale) < Batch THEN Cardinality(Stale) ELSE Batch
        /\ \A taken \in b, left \in Stale \ b : waitOf[taken].created <= waitOf[left].created}

\* _expire_overdue_wait.
Overdue(w) ==
    /\ KindOf[w] # "TIME"
    /\ waitOf[w].created + (IF KindOf[w] = "HUMAN" THEN HumanCeiling ELSE MachineCeiling) <= now

\* _apply_agent_status, _apply_function_status, _fire_time_wait_if_due.
Finished(w) ==
    IF KindOf[w] = "TIME" THEN waitOf[w].due <= now
    ELSE endedAt[w] <= now /\ w \notin hidden

\* reconcile_stale_waits.
ReconcileStaleWaits ==
    /\ ~swept
    /\ \E b \in Batches :
           waitOf' = [w \in Waits |->
                       IF w \in b /\ Overdue(w) THEN [waitOf[w] EXCEPT !.status = "FAILED"]
                       ELSE IF w \in b /\ Finished(w)
                            THEN [waitOf[w] EXCEPT !.status = "COMPLETED"]
                            ELSE waitOf[w]]
           /\ listed' = b
    /\ swept' = TRUE
    /\ UNCHANGED <<now, endedAt, hidden>>

\* The cron runs once in every period.
Tick ==
    /\ swept /\ now < Horizon
    /\ now' = now + 1 /\ swept' = FALSE
    /\ UNCHANGED <<waitOf, endedAt, hidden, listed>>

SweepNext ==
    \/ \E w \in Waits : PersistWait(w) \/ WorkSettles(w) \/ Wake(w)
    \/ ReconcileStaleWaits
    \/ Tick

SweepSpec == SweepInit /\ [][SweepNext]_sweepVars

-----------------------------------------------------------------------------
MaxAge(w) == IF KindOf[w] = "HUMAN" THEN HumanCeiling ELSE MachineCeiling
Latest(a, b) == IF a < b THEN b ELSE a

\* From when on the sweep can tell that w has nothing left to wait for.
Answerable(w) ==
    IF KindOf[w] = "TIME" THEN waitOf[w].due
    ELSE IF w \in hidden THEN Never ELSE endedAt[w]

\* The last batch was full without w, and of waits no younger than w.
PassedOver(w) ==
    /\ w \notin listed /\ Cardinality(listed) = Batch
    /\ \A v \in listed : waitOf[v].created <= waitOf[w].created

WithinCeiling(w) == KindOf[w] # "TIME" => now <= waitOf[w].created + MaxAge(w) + 1

\* A hung step or an unanswered form is over one period after its ceiling, unless
\* a whole batch of waits at least as old stood before it in the last sweep: the
\* batch is what bounds _expire_overdue_wait, and age alone decides who is in it.
NoneOverstays == \A w \in Active : WithinCeiling(w) \/ PassedOver(w)

\* A run whose wake was lost moves on at the first sweep that finds the wait old
\* enough ("self-heal runs whose completion/wake events were lost"), with the same
\* exception.  Work that was cancelled is left to the ceiling.
LostWakeIsRecovered ==
    \A w \in Active :
        Answerable(w) < Never
            => \/ now <= Latest(Answerable(w), waitOf[w].created + After) + 1
               \/ PassedOver(w)

\* "Longest a workflow run may stay suspended on a single agent or function
\* wait before the reconciliation sweep fails it" (core/config.py), which a full
\* batch of healthy waits disproves.
CeilingHolds == \A w \in Active : WithinCeiling(w)

=============================================================================
