-------------------------- MODULE EventOutboxProofs --------------------------
(***************************************************************************)
(* Theorems about EventOutbox, for any set of events and dispatchers, any  *)
(* batch size and any max_attempts: its safety, and that it implements     *)
(* EventDelivery.                                                          *)
(***************************************************************************)
EXTENDS EventOutbox, TLAPS

(***************************************************************************)
(* What the updates do to one row, and to one dispatcher's local state.    *)
(***************************************************************************)
LEMMA LeasedRow ==
    ASSUME NEW r \in Rows, NEW d \in Dispatchers
    PROVE  /\ Leased(r, d) \in Rows
           /\ Leased(r, d).stored = r.stored /\ Leased(r, d).attempts = r.attempts
           /\ Leased(r, d).published = r.published /\ Leased(r, d).dead = r.dead
           /\ Leased(r, d).owner = d /\ Leased(r, d).live
BY DEF Leased, Rows

LEMMA PublishedRow ==
    ASSUME NEW r \in Rows
    PROVE  /\ Published(r) \in Rows
           /\ Published(r).stored = r.stored /\ Published(r).attempts = r.attempts
           /\ Published(r).published /\ Published(r).dead = r.dead
           /\ Published(r).owner = NoOwner /\ ~Published(r).live
BY DEF Published, Rows

LEMMA FailedRow ==
    ASSUME NEW r \in Rows, NEW n \in Nat
    PROVE  /\ Failed(r, n) \in Rows
           /\ Failed(r, n).stored = r.stored /\ Failed(r, n).attempts = n + 1
           /\ Failed(r, n).published = r.published
           /\ n + 1 >= MaxAttempts => Failed(r, n).dead
           /\ ~(n + 1 >= MaxAttempts) => Failed(r, n).dead = r.dead
           /\ Failed(r, n).owner = NoOwner /\ ~Failed(r, n).live
<1> DEFINE m == n + 1
           f == [r EXCEPT !.owner = NoOwner, !.live = FALSE, !.due = FALSE,
                          !.attempts = m]
<1>0. m \in Nat
  OBVIOUS
<1> HIDE DEF m
<1>1. /\ f \in Rows
      /\ f.stored = r.stored /\ f.attempts = m /\ f.published = r.published
      /\ f.dead = r.dead /\ f.owner = NoOwner /\ ~f.live
  BY <1>0 DEF Rows
<1> USE DEF m
<1> HIDE DEF f
<1>2. CASE n + 1 >= MaxAttempts
  <2>1. Failed(r, n) = [f EXCEPT !.dead = TRUE]
    BY <1>2 DEF Failed, f
  <2> QED
    BY <1>1, <1>2, <2>1 DEF Rows
<1>3. CASE ~(n + 1 >= MaxAttempts)
  BY <1>1, <1>3 DEF Failed, f
<1> QED
  BY <1>2, <1>3

LEMMA RequeuedRow ==
    ASSUME NEW r \in Rows
    PROVE  /\ Requeued(r) \in Rows
           /\ Requeued(r).stored = r.stored /\ Requeued(r).attempts = 0
           /\ ~Requeued(r).published /\ ~Requeued(r).dead
           /\ Requeued(r).owner = NoOwner /\ ~Requeued(r).live
BY DEF Requeued, Rows

LEMMA StagedRow ==
    /\ Absent \in Rows /\ Staged \in Rows
    /\ Staged.stored /\ Staged.attempts = 0
    /\ ~Staged.published /\ ~Staged.dead /\ Staged.owner = NoOwner /\ ~Staged.live
BY DEF Staged, Absent, Rows

LEMMA RestState ==
    ASSUME NEW pc \in {"idle", "checked", "working", "crashed"}
    PROVE  /\ AtRest(pc) \in LocalStates /\ AtRest(pc).pc = pc
           /\ AtRest(pc).todo = {} /\ AtRest(pc).done = {} /\ AtRest(pc).failed = {}
BY DEF AtRest, LocalStates

LEMMA RestingState ==
    ASSUME NEW l \in LocalStates
    PROVE  /\ Resting(l) \in LocalStates
           /\ Resting(l).todo = l.todo /\ Resting(l).done = l.done
           /\ Resting(l).failed = l.failed
           /\ Resting(l).pc \in {l.pc, "idle"}
           /\ l.todo \cup l.failed # {} => Resting(l).snap = l.snap
           /\ Resting(l).pc = "idle" /\ l.pc # "idle" =>
                l.todo = {} /\ l.done = {} /\ l.failed = {}
BY RestState DEF Resting, LocalStates

LEMMA ProgressState ==
    ASSUME NEW l \in LocalStates, NEW e \in Events
    PROVE  /\ Sent(l, e) \in LocalStates /\ Erred(l, e) \in LocalStates
           /\ Recorded(l, e) \in LocalStates
           /\ Sent(l, e).todo = l.todo \ {e} /\ Sent(l, e).done = l.done \cup {e}
           /\ Sent(l, e).failed = l.failed
           /\ Sent(l, e).pc = l.pc /\ Sent(l, e).snap = l.snap
           /\ Erred(l, e).todo = l.todo \ {e} /\ Erred(l, e).done = l.done
           /\ Erred(l, e).failed = l.failed \cup {e}
           /\ Erred(l, e).pc = l.pc /\ Erred(l, e).snap = l.snap
           /\ Recorded(l, e).todo = l.todo /\ Recorded(l, e).done = l.done
           /\ Recorded(l, e).failed = l.failed \ {e}
           /\ Recorded(l, e).pc = l.pc /\ Recorded(l, e).snap = l.snap
<1>1. Sent(l, e) \in LocalStates
  BY DEF Sent, LocalStates
<1>2. Erred(l, e) \in LocalStates
  BY DEF Erred, LocalStates
<1>3. Recorded(l, e) \in LocalStates
  BY DEF Recorded, LocalStates
<1> QED
  BY <1>1, <1>2, <1>3 DEF Sent, Erred, Recorded, LocalStates

LEMMA AcknowledgedState ==
    ASSUME NEW l \in LocalStates
    PROVE  /\ Acknowledged(l) \in LocalStates
           /\ Acknowledged(l).todo = l.todo /\ Acknowledged(l).done = {}
           /\ Acknowledged(l).failed = l.failed
           /\ Acknowledged(l).pc = l.pc /\ Acknowledged(l).snap = l.snap
BY DEF Acknowledged, LocalStates

LEMMA SpendTyped ==
    ASSUME spent \in [DOMAIN Bounds -> Nat], NEW b \in DOMAIN Bounds, Spend(b)
    PROVE  spent' \in [DOMAIN Bounds -> Nat]
BY DEF Spend

LEMMA BoundNames ==
    DOMAIN Bounds = {"crashes", "faults", "pauses", "overruns", "replays"}
BY DEF Bounds

LEMMA BatchWithin == \A n, S : FirstOf(n, S) \subseteq S
BY DEF FirstOf

-----------------------------------------------------------------------------
LEMMA InitIndInv == Init => IndInv
<1> SUFFICES ASSUME Init PROVE IndInv
  OBVIOUS
<1>1. /\ row = [e \in Events |-> Absent]
      /\ disp = [d \in Dispatchers |-> AtRest("idle")]
      /\ sent = [e \in Events |-> 0] /\ failures = [e \in Events |-> 0]
      /\ disturbed = [e \in Events |-> FALSE]
      /\ pressure = FALSE /\ spent = [b \in DOMAIN Bounds |-> 0]
  BY DEF Init
<1>2. TypeOK
  <2>1. row \in [Events -> Rows]
    BY <1>1, StagedRow
  <2>2. disp \in [Dispatchers -> LocalStates]
    BY <1>1, RestState
  <2>3. pressure \in BOOLEAN /\ spent \in [DOMAIN Bounds -> Nat]
    BY <1>1
  <2>4. /\ sent \in [Events -> 0..2] /\ failures \in [Events -> 0..MaxAttempts]
        /\ disturbed \in [Events -> BOOLEAN]
    BY <1>1, SizesAssumption
  <2> QED
    BY <2>1, <2>2, <2>3, <2>4 DEF TypeOK
<1>3. /\ \A e \in Events :
           /\ ~row[e].stored /\ ~row[e].published /\ ~row[e].dead /\ ~row[e].live
           /\ row[e].attempts = 0 /\ row[e].owner = NoOwner
           /\ sent[e] = 0 /\ failures[e] = 0
      /\ \A d \in Dispatchers :
           /\ disp[d].todo = {} /\ disp[d].done = {} /\ disp[d].failed = {}
  BY <1>1, RestState DEF Absent
<1>4. HoldersAgree
  <2>1. ASSUME NEW e \in Events PROVE RowShape(e) /\ Undisturbed(e)
    BY <1>3, SizesAssumption DEF RowShape, Undisturbed, Settled
  <2>2. ASSUME NEW d \in Dispatchers PROVE LocalShape(d)
    BY <1>3 DEF LocalShape
  <2>3. ASSUME NEW d \in Dispatchers, NEW e \in Events PROVE HolderAgrees(d, e)
    BY <1>3, OwnerAssumption DEF HolderAgrees
  <2> QED
    BY <2>1, <2>2, <2>3 DEF HoldersAgree
<1>5. PublishedWasSent /\ DuplicatesExplained /\ DeadLetterIsEarned
  BY <1>3 DEF PublishedWasSent, DuplicatesExplained, DeadLetterIsEarned
<1> QED
  BY <1>2, <1>4, <1>5 DEF IndInv

-----------------------------------------------------------------------------
LEMMA TypeStep == TypeOK /\ [Next]_vars => TypeOK'
<1> SUFFICES ASSUME TypeOK, [Next]_vars PROVE TypeOK'
  OBVIOUS
<1>a. /\ row \in [Events -> Rows] /\ disp \in [Dispatchers -> LocalStates]
      /\ pressure \in BOOLEAN /\ spent \in [DOMAIN Bounds -> Nat]
      /\ sent \in [Events -> 0..2] /\ failures \in [Events -> 0..MaxAttempts]
      /\ disturbed \in [Events -> BOOLEAN]
  BY DEF TypeOK
<1>1. ASSUME NEW e \in Events, Stage(e) PROVE TypeOK'
  BY <1>a, <1>1, StagedRow DEF Stage, ghosts, TypeOK
<1>2. ASSUME NEW d \in Dispatchers, CheckPressure(d) PROVE TypeOK'
  <2>1. disp' \in [Dispatchers -> LocalStates]
    <3>1. disp[d] \in LocalStates
      BY <1>a
    <3>2. [disp[d] EXCEPT !.pc = "checked"] \in LocalStates
      BY <3>1 DEF LocalStates
    <3>3. disp' = [disp EXCEPT ![d] = [disp[d] EXCEPT !.pc = "checked"]]
      BY <1>2 DEF CheckPressure
    <3> QED
      BY <1>a, <3>2, <3>3
  <2> QED
    BY <1>a, <1>2, <2>1 DEF CheckPressure, ghosts, TypeOK
<1>3. ASSUME NEW d \in Dispatchers, ClaimBatch(d) PROVE TypeOK'
  <2> DEFINE batch == FirstOf(BatchSize, {e \in Events : Claimable(e)})
             l == [pc |-> "working", todo |-> batch, done |-> {}, failed |-> {},
                   snap |-> [e \in Events |->
                               IF e \in batch THEN row[e].attempts ELSE 0]]
  <2>1. batch \subseteq Events
    BY BatchWithin
  <2>2. row' \in [Events -> Rows]
    BY <1>a, <1>3, LeasedRow DEF ClaimBatch
  <2>3. \A e \in Events : row[e].attempts \in Nat
    BY <1>a DEF Rows
  <2> HIDE DEF batch
  <2>4. l \in LocalStates
    BY <2>1, <2>3 DEF LocalStates
  <2>5. disp' = [disp EXCEPT ![d] = Resting(l)]
    BY <1>3 DEF ClaimBatch, batch
  <2> HIDE DEF l
  <2>6. disp' \in [Dispatchers -> LocalStates]
    BY <1>a, <2>4, <2>5, RestingState
  <2> QED
    BY <1>a, <1>3, <2>2, <2>6 DEF ClaimBatch, ghosts, TypeOK
<1>4. ASSUME NEW d \in Dispatchers, NEW e \in Events,
             PublishOk(d, e) \/ PublishError(d, e)
      PROVE  TypeOK'
  <2>4. disp' \in [Dispatchers -> LocalStates]
    <3>1. Sent(disp[d], e) \in LocalStates /\ Erred(disp[d], e) \in LocalStates
      BY <1>a, ProgressState
    <3> QED
      BY <1>a, <1>4, <3>1 DEF PublishOk, PublishError
  <2>2. sent' \in [Events -> 0..2]
    BY <1>a, <1>4 DEF PublishOk, PublishError, Appended
  <2>3. failures' \in [Events -> 0..MaxAttempts]
    <3>1. (IF failures[e] = MaxAttempts THEN failures[e] ELSE failures[e] + 1)
             \in 0..MaxAttempts
      BY <1>a, SizesAssumption
    <3> QED
      BY <1>a, <1>4, <3>1 DEF PublishOk, PublishError, ErrorSeen
  <2>5. disturbed' \in [Events -> BOOLEAN]
    BY <1>a, <1>4 DEF PublishOk, PublishError
  <2> QED
    BY <1>a, <1>4, <2>2, <2>3, <2>4, <2>5 DEF PublishOk, PublishError, TypeOK
<1>5. ASSUME NEW d \in Dispatchers, MarkPublishedMany(d) PROVE TypeOK'
  <2>1. row' \in [Events -> Rows]
    BY <1>a, <1>5, PublishedRow DEF MarkPublishedMany
  <2>3. disp' \in [Dispatchers -> LocalStates]
    <3>1. Resting(Acknowledged(disp[d])) \in LocalStates
      BY <1>a, AcknowledgedState, RestingState
    <3> QED
      BY <1>a, <1>5, <3>1 DEF MarkPublishedMany
  <2> QED
    BY <1>a, <1>5, <2>1, <2>3 DEF MarkPublishedMany, ghosts, TypeOK
<1>6. ASSUME NEW d \in Dispatchers, NEW e \in Events, MarkFailed(d, e) PROVE TypeOK'
  <2>1. disp[d].snap[e] \in Nat
    BY <1>a DEF LocalStates
  <2>2. row' \in [Events -> Rows]
    BY <1>a, <1>6, <2>1, FailedRow DEF MarkFailed
  <2>4. disp' \in [Dispatchers -> LocalStates]
    <3>1. Resting(Recorded(disp[d], e)) \in LocalStates
      BY <1>a, ProgressState, RestingState
    <3> QED
      BY <1>a, <1>6, <3>1 DEF MarkFailed
  <2> QED
    BY <1>a, <1>6, <2>2, <2>4 DEF MarkFailed, ghosts, TypeOK
<1>7. ASSUME NEW d \in Dispatchers, DatabaseFault(d) \/ Crash(d) PROVE TypeOK'
  <2>1. spent' \in [DOMAIN Bounds -> Nat]
    BY <1>a, <1>7, SpendTyped, BoundNames DEF DatabaseFault, Crash
  <2>2. disp' \in [Dispatchers -> LocalStates]
    BY <1>a, <1>7, RestState DEF DatabaseFault, Crash
  <2> QED
    BY <1>a, <1>7, <2>1, <2>2 DEF DatabaseFault, Crash, ghosts, TypeOK
<1>8. ASSUME NEW e \in Events, LeaseOverrun(e) \/ LeaseAbandoned(e) \/ BecomeDue(e)
      PROVE  TypeOK'
  <2>1. spent' \in [DOMAIN Bounds -> Nat]
    BY <1>a, <1>8, SpendTyped, BoundNames DEF LeaseOverrun, LeaseAbandoned, BecomeDue
  <2>2. row' \in [Events -> Rows]
    <3>1. /\ [row[e] EXCEPT !.live = FALSE] \in Rows
          /\ [row[e] EXCEPT !.due = TRUE] \in Rows
      BY <1>a DEF Rows
    <3> QED
      BY <1>a, <1>8, <3>1 DEF LeaseOverrun, LeaseAbandoned, BecomeDue
  <2> QED
    BY <1>a, <1>8, <2>1, <2>2
    DEF LeaseOverrun, LeaseAbandoned, BecomeDue, ghosts, TypeOK
<1>9. ASSUME NEW e \in Events, ReplayOutboxEvent(e) PROVE TypeOK'
  <2>1. spent' \in [DOMAIN Bounds -> Nat]
    BY <1>a, <1>9, SpendTyped, BoundNames DEF ReplayOutboxEvent
  <2>2. row' \in [Events -> Rows]
    BY <1>a, <1>9, RequeuedRow DEF ReplayOutboxEvent
  <2>3. /\ sent' \in [Events -> 0..2] /\ failures' \in [Events -> 0..MaxAttempts]
        /\ disturbed' \in [Events -> BOOLEAN]
    BY <1>a, <1>9, SizesAssumption DEF ReplayOutboxEvent
  <2> QED
    BY <1>a, <1>9, <2>1, <2>2, <2>3 DEF ReplayOutboxEvent, TypeOK
<1>10. CASE PressureRises \/ PressureClears
  <2>1. spent' \in [DOMAIN Bounds -> Nat]
    BY <1>a, <1>10, SpendTyped, BoundNames DEF PressureRises, PressureClears
  <2> QED
    BY <1>a, <1>10, <2>1 DEF PressureRises, PressureClears, ghosts, TypeOK
<1>11. CASE UNCHANGED vars
  BY <1>a, <1>11 DEF vars, TypeOK
<1> QED
  BY <1>1, <1>2, <1>3, <1>4, <1>5, <1>6, <1>7, <1>8, <1>9, <1>10, <1>11
  DEF Next, Dispatch

\* The outbox table, the dispatchers' local state and the ghosts keep their
\* types whatever the bounds.
THEOREM TypeCorrect == Spec => []TypeOK
<1>1. Init => TypeOK
  BY InitIndInv DEF IndInv
<1> QED
  BY <1>1, TypeStep, PTL DEF Spec

-----------------------------------------------------------------------------
(***************************************************************************)
(* IndInv is inductive.  Each action first gets its effect row by row and  *)
(* dispatcher by dispatcher; the conjuncts then follow from these effects  *)
(* and the conjuncts before the step.                                      *)
(***************************************************************************)
LEMMA Unchanged ==
    ASSUME IndInv, UNCHANGED <<row, disp, sent, failures, disturbed>>
    PROVE  (HoldersAgree /\ PublishedWasSent /\ DuplicatesExplained
               /\ DeadLetterIsEarned)'
BY DEF IndInv, HoldersAgree, RowShape, Undisturbed, LocalShape, HolderAgrees,
       Settled, PublishedWasSent, DuplicatesExplained, DeadLetterIsEarned

LEMMA StageKeeps ==
    ASSUME IndInv, NEW e \in Events, Stage(e)
    PROVE  (HoldersAgree /\ PublishedWasSent /\ DuplicatesExplained
               /\ DeadLetterIsEarned)'
<1>a. row \in [Events -> Rows] /\ failures \in [Events -> 0..MaxAttempts]
  BY DEF IndInv, TypeOK
<1>1. /\ ~row[e].stored /\ row'[e] = Staged
      /\ \A f \in Events : f # e => row'[f] = row[f]
      /\ disp' = disp /\ sent' = sent /\ failures' = failures
      /\ disturbed' = disturbed
  BY <1>a DEF Stage, ghosts
<1>2. /\ row[e].attempts = 0 /\ ~Settled(e) /\ ~row[e].live /\ row[e].owner = NoOwner
  BY <1>a, <1>1 DEF IndInv, HoldersAgree, RowShape, Rows
<1>3. ASSUME NEW f \in Events PROVE RowShape(f)' /\ Undisturbed(f)'
  BY <1>1, <1>2, StagedRow, SizesAssumption, OwnerAssumption
  DEF IndInv, HoldersAgree, RowShape, Undisturbed, Settled
<1>4. ASSUME NEW d \in Dispatchers, NEW f \in Events
      PROVE  LocalShape(d)' /\ HolderAgrees(d, f)'
  BY <1>1, StagedRow, OwnerAssumption DEF IndInv, HoldersAgree, LocalShape, HolderAgrees
<1>5. PublishedWasSent' /\ DuplicatesExplained' /\ DeadLetterIsEarned'
  BY <1>a, <1>1, StagedRow
  DEF IndInv, PublishedWasSent, DuplicatesExplained, DeadLetterIsEarned
<1> QED
  BY <1>3, <1>4, <1>5 DEF HoldersAgree

LEMMA ClaimKeeps ==
    ASSUME IndInv, NEW d \in Dispatchers, ClaimBatch(d)
    PROVE  (HoldersAgree /\ PublishedWasSent /\ DuplicatesExplained
               /\ DeadLetterIsEarned)'
<1>a. /\ row \in [Events -> Rows] /\ disp \in [Dispatchers -> LocalStates]
      /\ failures \in [Events -> 0..MaxAttempts]
  BY DEF IndInv, TypeOK
<1> DEFINE batch == FirstOf(BatchSize, {e \in Events : Claimable(e)})
           l == [pc |-> "working", todo |-> batch, done |-> {}, failed |-> {},
                 snap |-> [e \in Events |->
                             IF e \in batch THEN row[e].attempts ELSE 0]]
<1>1. batch \subseteq Events /\ \A e \in batch : Claimable(e)
  BY BatchWithin
<1>2. \A e \in Events : row'[e] = IF e \in batch THEN Leased(row[e], d) ELSE row[e]
  BY DEF ClaimBatch
<1>3. /\ disp' = [disp EXCEPT ![d] = Resting(l)] /\ disp[d].pc = "checked"
      /\ sent' = sent /\ failures' = failures /\ disturbed' = disturbed
  BY DEF ClaimBatch, ghosts
<1> HIDE DEF batch
<1>4. l \in LocalStates /\ \A e \in batch : l.snap[e] = row[e].attempts
  BY <1>a, <1>1 DEF LocalStates, Rows
<1>5. l.todo = batch /\ l.done = {} /\ l.failed = {} /\ l.pc = "working"
  OBVIOUS
<1> HIDE DEF l
<1>6. /\ disp'[d].todo = batch /\ disp'[d].done = {} /\ disp'[d].failed = {}
      /\ disp'[d].pc # "working" => batch = {}
      /\ \A e \in batch : disp'[d].snap[e] = row[e].attempts
      /\ \A c \in Dispatchers : c # d => disp'[c] = disp[c]
  BY <1>a, <1>3, <1>4, <1>5, RestingState
<1>7. /\ \A e \in batch : /\ row'[e].owner = d /\ row'[e].live
                          /\ row'[e].stored /\ ~row'[e].published /\ ~row'[e].dead
                          /\ row'[e].attempts = row[e].attempts
      /\ \A e \in Events \ batch : row'[e] = row[e]
  BY <1>a, <1>1, <1>2, LeasedRow DEF Claimable, Settled
<1>8. \A e \in batch : /\ row[e].stored /\ ~Settled(e) /\ ~row[e].live
                       /\ row[e].attempts < MaxAttempts
                       /\ disturbed[e] \/ sent[e] = 0
  BY <1>a, <1>1, SizesAssumption
  DEF Claimable, IndInv, HoldersAgree, RowShape, Undisturbed, Settled, Rows
<1>9. \A e \in batch, c \in Dispatchers : disturbed[e] \/ e \notin disp[c].todo
  BY <1>1, <1>8 DEF IndInv, HoldersAgree, Undisturbed
<1>10. disp[d].todo = {} /\ disp[d].done = {} /\ disp[d].failed = {}
  BY <1>3 DEF IndInv, HoldersAgree, LocalShape
<1>11. ASSUME NEW f \in Events PROVE RowShape(f)'
  BY <1>1, <1>7, <1>8, OwnerAssumption
  DEF IndInv, HoldersAgree, RowShape, Settled
<1>12. ASSUME NEW f \in Events PROVE Undisturbed(f)'
  <2>1. CASE f \in batch
    BY <1>3, <1>6, <1>7, <1>8, <1>9, <2>1, OwnerAssumption DEF Undisturbed, Settled
  <2>2. CASE f \notin batch
    BY <1>3, <1>6, <1>7, <1>10, <2>2 DEF IndInv, HoldersAgree, Undisturbed, Settled
  <2> QED
    BY <2>1, <2>2
<1>13. ASSUME NEW c \in Dispatchers PROVE LocalShape(c)'
  BY <1>6 DEF IndInv, HoldersAgree, LocalShape
<1>14. ASSUME NEW c \in Dispatchers, NEW f \in Events PROVE HolderAgrees(c, f)'
  <2>1. CASE c = d
    BY <1>6, <1>7, <2>1 DEF HolderAgrees
  <2>2. CASE c # d
    BY <1>3, <1>6, <1>7, <2>2 DEF IndInv, HoldersAgree, HolderAgrees
  <2> QED
    BY <2>1, <2>2
<1>15. PublishedWasSent' /\ DuplicatesExplained' /\ DeadLetterIsEarned'
  BY <1>1, <1>3, <1>7
  DEF IndInv, PublishedWasSent, DuplicatesExplained, DeadLetterIsEarned
<1> QED
  BY <1>11, <1>12, <1>13, <1>14, <1>15 DEF HoldersAgree


LEMMA PublishOkKeeps ==
    ASSUME IndInv, NEW d \in Dispatchers, NEW e \in Events, PublishOk(d, e)
    PROVE  (HoldersAgree /\ PublishedWasSent /\ DuplicatesExplained
               /\ DeadLetterIsEarned)'
<1>a. /\ row \in [Events -> Rows] /\ disp \in [Dispatchers -> LocalStates]
      /\ sent \in [Events -> 0..2]
  BY DEF IndInv, TypeOK
<1>1. /\ e \in disp[d].todo
      /\ row' = row /\ failures' = failures /\ disturbed' = disturbed
      /\ disp' = [disp EXCEPT ![d] = Sent(disp[d], e)]
  BY DEF PublishOk, First
<1>2. /\ disp'[d].todo = disp[d].todo \ {e} /\ disp'[d].done = disp[d].done \cup {e}
      /\ disp'[d].failed = disp[d].failed
      /\ disp'[d].pc = disp[d].pc /\ disp'[d].snap = disp[d].snap
      /\ \A c \in Dispatchers : c # d => disp'[c] = disp[c]
  BY <1>a, <1>1, ProgressState
<1>3. /\ \A f \in Events : f # e => sent'[f] = sent[f]
      /\ sent'[e] > 0
      /\ sent[e] = 0 => sent'[e] = 1
  BY <1>a DEF PublishOk, Appended
<1>4. /\ disp[d].pc = "working" /\ e \notin disp[d].failed
      /\ ~disturbed[e] => /\ row[e].owner = d /\ row[e].live /\ sent[e] = 0
                          /\ \A c \in Dispatchers : c # d => e \notin disp[c].todo
  BY <1>1 DEF IndInv, HoldersAgree, LocalShape, Undisturbed
<1>5. ASSUME NEW f \in Events PROVE RowShape(f)' /\ Undisturbed(f)'
  <2>1. CASE f = e
    BY <1>1, <1>2, <1>4, <2>1 DEF IndInv, HoldersAgree, RowShape, Undisturbed, Settled
  <2>2. CASE f # e
    BY <1>1, <1>2, <1>3, <2>2
    DEF IndInv, HoldersAgree, RowShape, Undisturbed, Settled
  <2> QED
    BY <2>1, <2>2
<1>6. ASSUME NEW c \in Dispatchers PROVE LocalShape(c)'
  BY <1>2, <1>4 DEF IndInv, HoldersAgree, LocalShape
<1>7. ASSUME NEW c \in Dispatchers, NEW f \in Events PROVE HolderAgrees(c, f)'
  BY <1>1, <1>2, <1>3 DEF IndInv, HoldersAgree, HolderAgrees
<1>8. PublishedWasSent' /\ DuplicatesExplained' /\ DeadLetterIsEarned'
  BY <1>1, <1>3, <1>4
  DEF IndInv, PublishedWasSent, DuplicatesExplained, DeadLetterIsEarned
<1> QED
  BY <1>5, <1>6, <1>7, <1>8 DEF HoldersAgree

LEMMA PublishErrorKeeps ==
    ASSUME IndInv, NEW d \in Dispatchers, NEW e \in Events, PublishError(d, e)
    PROVE  (HoldersAgree /\ PublishedWasSent /\ DuplicatesExplained
               /\ DeadLetterIsEarned)'
<1>a. /\ row \in [Events -> Rows] /\ disp \in [Dispatchers -> LocalStates]
      /\ sent \in [Events -> 0..2] /\ failures \in [Events -> 0..MaxAttempts]
      /\ disturbed \in [Events -> BOOLEAN]
  BY DEF IndInv, TypeOK
<1>1. /\ e \in disp[d].todo /\ row' = row
      /\ disp' = [disp EXCEPT ![d] = Erred(disp[d], e)]
  BY DEF PublishError, First
<1>2. /\ disp'[d].todo = disp[d].todo \ {e} /\ disp'[d].done = disp[d].done
      /\ disp'[d].failed = disp[d].failed \cup {e}
      /\ disp'[d].pc = disp[d].pc /\ disp'[d].snap = disp[d].snap
      /\ \A c \in Dispatchers : c # d => disp'[c] = disp[c]
  BY <1>a, <1>1, ProgressState
<1>3. /\ \A f \in Events : /\ f # e => sent'[f] = sent[f] /\ disturbed'[f] = disturbed[f]
                           /\ sent'[f] >= sent[f]
      /\ disturbed'[e] \/ (sent'[e] = sent[e] /\ disturbed'[e] = disturbed[e])
  BY <1>a DEF PublishError, Appended
<1>4. /\ \A f \in Events : failures'[f] >= failures[f]
      /\ failures[e] < MaxAttempts => failures'[e] = failures[e] + 1
      /\ failures[e] = MaxAttempts => failures'[e] = MaxAttempts
  BY <1>a, SizesAssumption DEF PublishError, ErrorSeen
<1>5. /\ disp[d].pc = "working" /\ e \notin disp[d].failed
      /\ ~disturbed[e] => /\ row[e].owner = d /\ row[e].live /\ sent[e] = 0
                          /\ \A c \in Dispatchers : c # d => e \notin disp[c].todo
  BY <1>1 DEF IndInv, HoldersAgree, LocalShape, Undisturbed
<1>6. row[e].owner = d => /\ disp[d].snap[e] = row[e].attempts
                          /\ row[e].attempts < MaxAttempts
                          /\ row[e].attempts <= failures[e]
  BY <1>a, <1>1, SizesAssumption, OwnerAssumption
  DEF IndInv, HoldersAgree, HolderAgrees, RowShape, Settled, DeadLetterIsEarned, Rows
<1>7. row[e].owner = d => disp[d].snap[e] < failures'[e]
  <2>1. /\ failures[e] \in Nat /\ failures[e] <= MaxAttempts /\ MaxAttempts \in Nat
        /\ row[e].attempts \in Nat
    BY <1>a, SizesAssumption DEF Rows
  <2>2. CASE failures[e] = MaxAttempts
    BY <1>4, <1>6, <2>1, <2>2
  <2>3. CASE failures[e] < MaxAttempts
    BY <1>4, <1>6, <2>1, <2>3
  <2> QED
    BY <2>1, <2>2, <2>3
<1>8. ASSUME NEW f \in Events PROVE RowShape(f)' /\ Undisturbed(f)'
  <2>1. CASE f = e
    BY <1>1, <1>2, <1>3, <1>5, <2>1
    DEF IndInv, HoldersAgree, RowShape, Undisturbed, Settled
  <2>2. CASE f # e
    BY <1>1, <1>2, <1>3, <2>2
    DEF IndInv, HoldersAgree, RowShape, Undisturbed, Settled
  <2> QED
    BY <2>1, <2>2
<1>9. ASSUME NEW c \in Dispatchers PROVE LocalShape(c)'
  BY <1>2, <1>5 DEF IndInv, HoldersAgree, LocalShape
<1>10. \A c \in Dispatchers, f \in Events :
          /\ disp[c].snap[f] \in Nat /\ failures[f] \in Nat /\ failures'[f] \in Nat
          /\ sent[f] \in Nat /\ sent'[f] \in Nat
  <2>1. TypeOK'
    BY TypeStep DEF IndInv, Next, Dispatch
  <2>2. /\ failures' \in [Events -> 0..MaxAttempts] /\ sent' \in [Events -> 0..2]
    BY <2>1 DEF TypeOK
  <2>3. \A f \in Events : /\ failures[f] \in Nat /\ failures'[f] \in Nat
                          /\ sent[f] \in Nat /\ sent'[f] \in Nat
    BY <1>a, <2>2, SizesAssumption
  <2>4. \A c \in Dispatchers, f \in Events : disp[c].snap[f] \in Nat
    BY <1>a DEF LocalStates
  <2> QED
    BY <2>3, <2>4
<1>11. ASSUME NEW c \in Dispatchers, NEW f \in Events PROVE HolderAgrees(c, f)'
  <2>1. CASE c = d /\ f = e
    BY <1>1, <1>2, <1>3, <1>6, <1>7, <1>10, <2>1
    DEF IndInv, HoldersAgree, HolderAgrees
  <2>2. CASE ~(c = d /\ f = e)
    BY <1>1, <1>2, <1>3, <1>4, <1>10, <2>2 DEF IndInv, HoldersAgree, HolderAgrees
  <2> QED
    BY <2>1, <2>2
<1>12. PublishedWasSent' /\ DuplicatesExplained'
  BY <1>1, <1>3, <1>5, <1>10 DEF IndInv, PublishedWasSent, DuplicatesExplained
<1>13. DeadLetterIsEarned'
  BY <1>a, <1>1, <1>4, <1>10 DEF IndInv, DeadLetterIsEarned, Rows
<1> QED
  BY <1>8, <1>9, <1>11, <1>12, <1>13 DEF HoldersAgree

LEMMA MarkPublishedKeeps ==
    ASSUME IndInv, NEW d \in Dispatchers, MarkPublishedMany(d)
    PROVE  (HoldersAgree /\ PublishedWasSent /\ DuplicatesExplained
               /\ DeadLetterIsEarned)'
<1>a. row \in [Events -> Rows] /\ disp \in [Dispatchers -> LocalStates]
  BY DEF IndInv, TypeOK
<1>1. /\ sent' = sent /\ failures' = failures /\ disturbed' = disturbed
      /\ disp[d].todo = {} /\ disp[d].done # {}
      /\ disp' = [disp EXCEPT ![d] = Resting(Acknowledged(disp[d]))]
      /\ \A e \in Events : row'[e] = IF e \in disp[d].done /\ Owns(d, e)
                                     THEN Published(row[e]) ELSE row[e]
  BY DEF MarkPublishedMany, ghosts
<1>2. Acknowledged(disp[d]) \in LocalStates
  BY <1>a, AcknowledgedState
<1>3. /\ disp'[d].todo = disp[d].todo /\ disp'[d].done = {}
      /\ disp'[d].failed = disp[d].failed
      /\ disp[d].failed # {} => disp'[d].snap = disp[d].snap
      /\ disp'[d].pc = "working" \/ disp'[d].failed = {}
      /\ \A c \in Dispatchers : c # d => disp'[c] = disp[c]
  <2>1. disp[d].pc = "working"
    BY <1>1 DEF IndInv, HoldersAgree, LocalShape
  <2> QED
    BY <1>a, <1>1, <1>2, <2>1, AcknowledgedState, RestingState
<1>4. ASSUME NEW e \in Events PROVE
         \/ row'[e] = row[e]
         \/ /\ row[e].owner = d /\ e \in disp[d].done /\ sent[e] > 0
            /\ row[e].stored /\ row'[e].stored /\ row'[e].published
            /\ row'[e].dead = row[e].dead /\ row'[e].attempts = row[e].attempts
            /\ row'[e].owner = NoOwner /\ ~row'[e].live
  BY <1>a, <1>1, PublishedRow, OwnerAssumption
  DEF Owns, IndInv, HoldersAgree, HolderAgrees, RowShape
<1>5. ASSUME NEW f \in Events PROVE RowShape(f)' /\ Undisturbed(f)'
  <2>1. CASE row'[f] = row[f]
    BY <1>1, <1>3, <2>1 DEF IndInv, HoldersAgree, RowShape, Undisturbed, Settled
  <2>2. CASE row'[f] # row[f]
    <3>1. RowShape(f)'
      BY <1>4, <2>2 DEF IndInv, HoldersAgree, RowShape, Settled
    <3>2. \A c \in Dispatchers : ~disturbed[f] => f \notin disp[c].todo
      BY <1>1, <1>4, <2>2 DEF IndInv, HoldersAgree, Undisturbed
    <3> QED
      BY <1>1, <1>3, <1>4, <2>2, <3>1, <3>2, OwnerAssumption DEF Undisturbed, Settled
  <2> QED
    BY <2>1, <2>2
<1>6. ASSUME NEW c \in Dispatchers PROVE LocalShape(c)'
  BY <1>1, <1>3 DEF IndInv, HoldersAgree, LocalShape
<1>7. ASSUME NEW c \in Dispatchers, NEW f \in Events PROVE HolderAgrees(c, f)'
  BY <1>1, <1>3, <1>4, OwnerAssumption DEF IndInv, HoldersAgree, HolderAgrees
<1>8. PublishedWasSent' /\ DuplicatesExplained' /\ DeadLetterIsEarned'
  BY <1>1, <1>4 DEF IndInv, PublishedWasSent, DuplicatesExplained, DeadLetterIsEarned
<1> QED
  BY <1>5, <1>6, <1>7, <1>8 DEF HoldersAgree


LEMMA MarkFailedKeeps ==
    ASSUME IndInv, NEW d \in Dispatchers, NEW e \in Events, MarkFailed(d, e)
    PROVE  (HoldersAgree /\ PublishedWasSent /\ DuplicatesExplained
               /\ DeadLetterIsEarned)'
<1>a. /\ row \in [Events -> Rows] /\ disp \in [Dispatchers -> LocalStates]
      /\ failures \in [Events -> 0..MaxAttempts]
  BY DEF IndInv, TypeOK
<1>1. /\ sent' = sent /\ failures' = failures /\ disturbed' = disturbed
      /\ disp[d].todo = {} /\ disp[d].done = {} /\ e \in disp[d].failed
      /\ disp' = [disp EXCEPT ![d] = Resting(Recorded(disp[d], e))]
      /\ row'[e] = IF Owns(d, e) THEN Failed(row[e], disp[d].snap[e]) ELSE row[e]
      /\ \A f \in Events : f # e => row'[f] = row[f]
  BY <1>a DEF MarkFailed, First, ghosts
<1>2. Recorded(disp[d], e) \in LocalStates
  BY <1>a, ProgressState
<1>3. /\ disp'[d].todo = {} /\ disp'[d].done = {}
      /\ disp'[d].failed = disp[d].failed \ {e}
      /\ disp'[d].failed # {} => disp'[d].snap = disp[d].snap
      /\ disp'[d].pc = "working" \/ disp'[d].failed = {}
      /\ \A c \in Dispatchers : c # d => disp'[c] = disp[c]
  <2>1. disp[d].pc = "working"
    BY <1>1 DEF IndInv, HoldersAgree, LocalShape
  <2> DEFINE l == Recorded(disp[d], e)
  <2>2. /\ l \in LocalStates /\ l.todo = {} /\ l.done = {} /\ l.pc = "working"
        /\ l.failed = disp[d].failed \ {e} /\ l.snap = disp[d].snap
    <3>1. disp[d] \in LocalStates
      BY <1>a
    <3>2. /\ l \in LocalStates /\ l.todo = disp[d].todo /\ l.done = disp[d].done
          /\ l.failed = disp[d].failed \ {e} /\ l.snap = disp[d].snap
          /\ l.pc = disp[d].pc
      BY <3>1, ProgressState
    <3> QED
      BY <1>1, <2>1, <3>2
  <2>3. disp'[d] = Resting(l) /\ \A c \in Dispatchers : c # d => disp'[c] = disp[c]
    BY <1>a, <1>1
  <2> HIDE DEF l
  <2> QED
    BY <2>2, <2>3, RestingState
<1>4. /\ disp[d].snap[e] \in Nat /\ failures[e] \in Nat /\ row[e].attempts \in Nat
  BY <1>a, SizesAssumption DEF LocalStates, Rows
<1>5. \/ row'[e] = row[e]
      \/ /\ row[e].owner = d
         /\ ~disturbed[e] => sent[e] = 0
         /\ row[e].stored /\ ~row[e].published /\ ~row[e].dead
         /\ row'[e].stored /\ ~row'[e].published
         /\ row'[e].attempts = disp[d].snap[e] + 1
         /\ row'[e].attempts <= failures[e]
         /\ row'[e].attempts >= MaxAttempts <=> row'[e].dead
         /\ row'[e].owner = NoOwner /\ ~row'[e].live
  <2>1. CASE ~Owns(d, e)
    BY <1>1, <2>1
  <2>2. CASE Owns(d, e)
    <3>1. /\ row[e].owner = d /\ row[e].stored /\ ~row[e].published /\ ~row[e].dead
          /\ disp[d].snap[e] < failures[e]
      BY <1>1, <2>2, OwnerAssumption
      DEF Owns, IndInv, HoldersAgree, RowShape, HolderAgrees, Settled
    <3>2. row'[e] = Failed(row[e], disp[d].snap[e]) /\ row[e] \in Rows
      BY <1>a, <1>1, <2>2
    <3>3. ~disturbed[e] => sent[e] = 0
      BY <1>1, <3>1 DEF IndInv, HoldersAgree, Undisturbed
    <3>4. /\ row'[e].stored /\ ~row'[e].published
          /\ row'[e].attempts = disp[d].snap[e] + 1
          /\ row'[e].owner = NoOwner /\ ~row'[e].live
          /\ disp[d].snap[e] + 1 >= MaxAttempts => row'[e].dead
          /\ ~(disp[d].snap[e] + 1 >= MaxAttempts) => ~row'[e].dead
      <4> DEFINE n == disp[d].snap[e]
      <4>1. n \in Nat
        BY <1>4
      <4>2. row'[e] = Failed(row[e], n)
        BY <3>2
      <4> HIDE DEF n
      <4>3. /\ row'[e].stored = row[e].stored /\ row'[e].attempts = n + 1
            /\ row'[e].published = row[e].published
            /\ n + 1 >= MaxAttempts => row'[e].dead
            /\ ~(n + 1 >= MaxAttempts) => row'[e].dead = row[e].dead
            /\ row'[e].owner = NoOwner /\ ~row'[e].live
        <5>1. row[e] \in Rows
          BY <3>2
        <5>2. ASSUME NEW r, r = row[e], NEW g, g = Failed(r, n)
              PROVE  /\ g.stored = r.stored /\ g.attempts = n + 1
                     /\ g.published = r.published
                     /\ n + 1 >= MaxAttempts => g.dead
                     /\ ~(n + 1 >= MaxAttempts) => g.dead = r.dead
                     /\ g.owner = NoOwner /\ ~g.live
          BY <4>1, <5>1, <5>2, FailedRow, Zenon
        <5> QED
          BY <4>2, <5>2, Zenon
      <4> QED
        BY <3>1, <4>3 DEF n
    <3>5. disp[d].snap[e] + 1 <= failures[e]
      BY <1>4, <3>1
    <3> QED
      BY <3>1, <3>3, <3>4, <3>5
  <2> QED
    BY <2>1, <2>2
<1>6. ASSUME NEW f \in Events PROVE RowShape(f)' /\ Undisturbed(f)'
  <2>1. CASE row'[f] = row[f]
    BY <1>1, <1>3, <2>1 DEF IndInv, HoldersAgree, RowShape, Undisturbed, Settled
  <2>2. CASE row'[f] # row[f]
    <3>1. f = e
      BY <1>1, <2>2
    <3>2. \A c \in Dispatchers : ~disturbed[e] => e \notin disp[c].todo
      BY <1>1, <1>5, <2>2, <3>1 DEF IndInv, HoldersAgree, Undisturbed
    <3> QED
      BY <1>1, <1>3, <1>5, <2>2, <3>1, <3>2, OwnerAssumption
      DEF RowShape, Undisturbed, Settled
  <2> QED
    BY <2>1, <2>2
<1>7. ASSUME NEW c \in Dispatchers PROVE LocalShape(c)'
  BY <1>1, <1>3 DEF IndInv, HoldersAgree, LocalShape
<1>8. ASSUME NEW c \in Dispatchers, NEW f \in Events PROVE HolderAgrees(c, f)'
  <2>1. CASE row'[f] = row[f]
    BY <1>1, <1>3, <2>1 DEF IndInv, HoldersAgree, HolderAgrees
  <2>2. CASE row'[f] # row[f]
    BY <1>1, <1>5, <2>2, OwnerAssumption DEF HolderAgrees
  <2> QED
    BY <2>1, <2>2
<1>9. PublishedWasSent' /\ DuplicatesExplained'
  BY <1>1, <1>5 DEF IndInv, PublishedWasSent, DuplicatesExplained
<1>10. DeadLetterIsEarned'
  BY <1>1, <1>5 DEF IndInv, DeadLetterIsEarned
<1> QED
  BY <1>6, <1>7, <1>8, <1>9, <1>10 DEF HoldersAgree

LEMMA StoppedKeeps ==
    ASSUME IndInv, NEW d \in Dispatchers, DatabaseFault(d) \/ Crash(d)
    PROVE  (HoldersAgree /\ PublishedWasSent /\ DuplicatesExplained
               /\ DeadLetterIsEarned)'
<1>a. disp \in [Dispatchers -> LocalStates]
  BY DEF IndInv, TypeOK
<1>1. /\ row' = row /\ sent' = sent /\ failures' = failures /\ disturbed' = disturbed
      /\ disp'[d].todo = {} /\ disp'[d].done = {} /\ disp'[d].failed = {}
      /\ \A c \in Dispatchers : c # d => disp'[c] = disp[c]
  BY <1>a, RestState DEF DatabaseFault, Crash, ghosts
<1>2. ASSUME NEW f \in Events PROVE RowShape(f)' /\ Undisturbed(f)'
  BY <1>1 DEF IndInv, HoldersAgree, RowShape, Undisturbed, Settled
<1>3. ASSUME NEW c \in Dispatchers PROVE LocalShape(c)'
  BY <1>1 DEF IndInv, HoldersAgree, LocalShape
<1>4. ASSUME NEW c \in Dispatchers, NEW f \in Events PROVE HolderAgrees(c, f)'
  BY <1>1 DEF IndInv, HoldersAgree, HolderAgrees
<1> QED
  BY <1>1, <1>2, <1>3, <1>4
  DEF IndInv, HoldersAgree, PublishedWasSent, DuplicatesExplained, DeadLetterIsEarned

LEMMA TimePassesKeeps ==
    ASSUME IndInv, NEW e \in Events,
           LeaseOverrun(e) \/ LeaseAbandoned(e) \/ BecomeDue(e)
    PROVE  (HoldersAgree /\ PublishedWasSent /\ DuplicatesExplained
               /\ DeadLetterIsEarned)'
<1>a. row \in [Events -> Rows] /\ disturbed \in [Events -> BOOLEAN]
  BY DEF IndInv, TypeOK
<1>1. /\ disp' = disp /\ sent' = sent /\ failures' = failures
      /\ \A f \in Events :
           /\ row'[f].stored = row[f].stored /\ row'[f].attempts = row[f].attempts
           /\ row'[f].published = row[f].published /\ row'[f].dead = row[f].dead
           /\ row'[f].owner = row[f].owner
           /\ \/ row'[f].live = row[f].live /\ disturbed'[f] = disturbed[f]
              \/ ~row'[f].live /\ disturbed'[f]
  <2>1. /\ [row[e] EXCEPT !.live = FALSE] \in Rows
        /\ [row[e] EXCEPT !.due = TRUE] \in Rows
    BY <1>a DEF Rows
  <2>2. \/ /\ row' = [row EXCEPT ![e] = [row[e] EXCEPT !.live = FALSE]]
           /\ disturbed' = [disturbed EXCEPT ![e] = TRUE]
        \/ /\ row' = [row EXCEPT ![e] = [row[e] EXCEPT !.due = TRUE]]
           /\ disturbed' = disturbed
    BY DEF LeaseOverrun, LeaseAbandoned, BecomeDue, ghosts
  <2>3. disp' = disp /\ sent' = sent /\ failures' = failures
    BY DEF LeaseOverrun, LeaseAbandoned, BecomeDue, ghosts
  <2> QED
    BY <1>a, <2>1, <2>2, <2>3 DEF Rows
<1>2. ASSUME NEW f \in Events PROVE RowShape(f)' /\ Undisturbed(f)'
  BY <1>1 DEF IndInv, HoldersAgree, RowShape, Undisturbed, Settled
<1>3. ASSUME NEW c \in Dispatchers, NEW f \in Events
      PROVE  LocalShape(c)' /\ HolderAgrees(c, f)'
  BY <1>1 DEF IndInv, HoldersAgree, LocalShape, HolderAgrees
<1>4. PublishedWasSent' /\ DuplicatesExplained' /\ DeadLetterIsEarned'
  BY <1>1 DEF IndInv, PublishedWasSent, DuplicatesExplained, DeadLetterIsEarned
<1> QED
  BY <1>2, <1>3, <1>4 DEF HoldersAgree

LEMMA ReplayKeeps ==
    ASSUME IndInv, NEW e \in Events, ReplayOutboxEvent(e)
    PROVE  (HoldersAgree /\ PublishedWasSent /\ DuplicatesExplained
               /\ DeadLetterIsEarned)'
<1>a. /\ row \in [Events -> Rows] /\ disturbed \in [Events -> BOOLEAN]
      /\ sent \in [Events -> 0..2] /\ failures \in [Events -> 0..MaxAttempts]
  BY DEF IndInv, TypeOK
<1>1. /\ disp' = disp
      /\ row[e].stored /\ row'[e] = Requeued(row[e]) /\ sent'[e] = 0 /\ failures'[e] = 0
      /\ disturbed'[e] <=> \E d \in Dispatchers : e \in disp[d].todo
      /\ \A f \in Events : f # e =>
            /\ row'[f] = row[f] /\ sent'[f] = sent[f]
            /\ failures'[f] = failures[f] /\ disturbed'[f] = disturbed[f]
  BY <1>a DEF ReplayOutboxEvent
<1>2. /\ row'[e].stored /\ row'[e].attempts = 0 /\ ~row'[e].published /\ ~row'[e].dead
      /\ row'[e].owner = NoOwner /\ ~row'[e].live
  BY <1>a, <1>1, RequeuedRow
<1>3. ASSUME NEW f \in Events PROVE RowShape(f)' /\ Undisturbed(f)'
  <2>1. CASE f = e
    BY <1>1, <1>2, <2>1, SizesAssumption, OwnerAssumption
    DEF RowShape, Undisturbed, Settled
  <2>2. CASE f # e
    BY <1>1, <2>2 DEF IndInv, HoldersAgree, RowShape, Undisturbed, Settled
  <2> QED
    BY <2>1, <2>2
<1>4. ASSUME NEW c \in Dispatchers, NEW f \in Events
      PROVE  LocalShape(c)' /\ HolderAgrees(c, f)'
  BY <1>1, <1>2, OwnerAssumption
  DEF IndInv, HoldersAgree, LocalShape, HolderAgrees
<1>5. PublishedWasSent' /\ DuplicatesExplained' /\ DeadLetterIsEarned'
  BY <1>1, <1>2 DEF IndInv, PublishedWasSent, DuplicatesExplained, DeadLetterIsEarned
<1> QED
  BY <1>3, <1>4, <1>5 DEF HoldersAgree

LEMMA CheckPressureKeeps ==
    ASSUME IndInv, NEW d \in Dispatchers, CheckPressure(d)
    PROVE  (HoldersAgree /\ PublishedWasSent /\ DuplicatesExplained
               /\ DeadLetterIsEarned)'
<1>a. disp \in [Dispatchers -> LocalStates]
  BY DEF IndInv, TypeOK
<1>1. /\ row' = row /\ sent' = sent /\ failures' = failures /\ disturbed' = disturbed
      /\ disp[d].pc = "idle"
      /\ \A c \in Dispatchers :
            /\ disp'[c].todo = disp[c].todo /\ disp'[c].done = disp[c].done
            /\ disp'[c].failed = disp[c].failed /\ disp'[c].snap = disp[c].snap
            /\ c # d => disp'[c].pc = disp[c].pc
  BY <1>a DEF CheckPressure, ghosts, LocalStates
<1>2. ASSUME NEW f \in Events PROVE RowShape(f)' /\ Undisturbed(f)'
  BY <1>1 DEF IndInv, HoldersAgree, RowShape, Undisturbed, Settled
<1>3. ASSUME NEW c \in Dispatchers PROVE LocalShape(c)'
  <2>1. disp[d].todo = {} /\ disp[d].done = {} /\ disp[d].failed = {}
    BY <1>1 DEF IndInv, HoldersAgree, LocalShape
  <2> QED
    BY <1>1, <2>1 DEF IndInv, HoldersAgree, LocalShape
<1>4. ASSUME NEW c \in Dispatchers, NEW f \in Events PROVE HolderAgrees(c, f)'
  BY <1>1 DEF IndInv, HoldersAgree, HolderAgrees
<1> QED
  BY <1>1, <1>2, <1>3, <1>4
  DEF IndInv, HoldersAgree, PublishedWasSent, DuplicatesExplained, DeadLetterIsEarned

LEMMA StepIndInv == IndInv /\ [Next]_vars => IndInv'
<1> SUFFICES ASSUME IndInv, [Next]_vars
             PROVE  (HoldersAgree /\ PublishedWasSent /\ DuplicatesExplained
                       /\ DeadLetterIsEarned)'
  BY TypeStep DEF IndInv
<1>1. ASSUME PressureRises \/ PressureClears \/ UNCHANGED vars
      PROVE  UNCHANGED <<row, disp, sent, failures, disturbed>>
  BY <1>1 DEF PressureRises, PressureClears, vars, ghosts
<1> QED
  BY <1>1, Unchanged, StageKeeps, ClaimKeeps, PublishOkKeeps, PublishErrorKeeps,
     MarkPublishedKeeps, MarkFailedKeeps, StoppedKeeps, TimePassesKeeps,
     ReplayKeeps, CheckPressureKeeps
  DEF Next, Dispatch

-----------------------------------------------------------------------------
LEMMA Inductive == Spec => []IndInv
BY InitIndInv, StepIndInv, PTL DEF Spec

\* The dispatchers' local state never misleads a row they still own.
THEOREM LocalStateAgrees == Spec => []HoldersAgree
<1>1. IndInv => HoldersAgree
  BY DEF IndInv
<1> QED
  BY <1>1, Inductive, PTL

\* No row is marked published without an entry appended since it was queued.
THEOREM NothingIsLost == Spec => []PublishedWasSent
<1>1. IndInv => PublishedWasSent
  BY DEF IndInv
<1> QED
  BY <1>1, Inductive, PTL

\* However many dispatchers run, a second entry always has a cause.
THEOREM NoIdleDuplicates == Spec => []DuplicatesExplained
<1>1. IndInv => DuplicatesExplained
  BY DEF IndInv
<1> QED
  BY <1>1, Inductive, PTL

\* A row is dead-lettered only after max_attempts publish errors.
THEOREM DeadLettersAreEarned == Spec => []DeadLetterIsEarned
<1>1. IndInv => DeadLetterIsEarned
  BY DEF IndInv
<1> QED
  BY <1>1, Inductive, PTL


-----------------------------------------------------------------------------
(***************************************************************************)
(* What a step may do to the outcome of one row.                           *)
(***************************************************************************)
LEMMA OutcomeStep ==
    ASSUME IndInv, Next, NEW e \in Events
    PROVE  \/ SameOutcome(e)
           \/ ReplayOutboxEvent(e)
           \/ ~Settled(e) /\ row'[e].attempts >= row[e].attempts
<1>a. /\ row \in [Events -> Rows] /\ disp \in [Dispatchers -> LocalStates]
  BY DEF IndInv, TypeOK
<1>b. row[e].owner # NoOwner => ~Settled(e)
  BY DEF IndInv, HoldersAgree, RowShape
<1>c. row[e].attempts \in Nat
  BY <1>a DEF Rows
<1>1. ASSUME row' = row PROVE SameOutcome(e)
  BY <1>1 DEF SameOutcome
<1>2. ASSUME NEW f \in Events, Stage(f) PROVE SameOutcome(e)
  <2>1. /\ row'[f] = Staged /\ ~row[f].stored
        /\ f # e => row'[e] = row[e]
    BY <1>a, <1>2 DEF Stage
  <2>2. row[f].attempts = 0 /\ ~row[f].published /\ ~row[f].dead
    BY <2>1 DEF IndInv, HoldersAgree, RowShape, Settled
  <2>3. row[f] \in Rows
    BY <1>a
  <2>4. row[f].published = FALSE /\ row[f].dead = FALSE
    BY <2>2, <2>3 DEF Rows
  <2>5. Staged.published = FALSE /\ Staged.dead = FALSE /\ Staged.attempts = 0
    BY DEF Staged, Absent
  <2> QED
    BY <2>1, <2>2, <2>4, <2>5 DEF SameOutcome
<1>3. ASSUME NEW d \in Dispatchers, ClaimBatch(d) PROVE SameOutcome(e)
  <2>1. row'[e] = row[e] \/ row'[e] = Leased(row[e], d)
    BY <1>3 DEF ClaimBatch
  <2> QED
    BY <1>a, <2>1, LeasedRow DEF SameOutcome
<1>4. ASSUME NEW d \in Dispatchers, MarkPublishedMany(d)
      PROVE  SameOutcome(e) \/ (~Settled(e) /\ row'[e].attempts >= row[e].attempts)
  <2>1. row'[e] = row[e] \/ (row[e].owner = d /\ row'[e] = Published(row[e]))
    BY <1>4 DEF MarkPublishedMany, Owns
  <2>2. Published(row[e]).attempts = row[e].attempts
    BY <1>a, PublishedRow
  <2> QED
    BY <1>b, <1>c, <2>1, <2>2, OwnerAssumption DEF SameOutcome
<1>5. ASSUME NEW d \in Dispatchers, NEW f \in Events, MarkFailed(d, f)
      PROVE  SameOutcome(e) \/ (~Settled(e) /\ row'[e].attempts >= row[e].attempts)
  <2>1. \/ row'[e] = row[e]
        \/ /\ row[e].owner = d /\ e \in disp[d].failed
           /\ row'[e] = Failed(row[e], disp[d].snap[e])
    BY <1>a, <1>5 DEF MarkFailed, Owns, First
  <2>2. CASE row'[e] = row[e]
    BY <2>2 DEF SameOutcome
  <2>3. CASE row'[e] # row[e]
    <3>1. disp[d].snap[e] = row[e].attempts
      BY <2>1, <2>3 DEF IndInv, HoldersAgree, HolderAgrees
    <3>2. Failed(row[e], row[e].attempts).attempts = row[e].attempts + 1
      BY <1>a, <1>c, FailedRow
    <3>3. row'[e].attempts = row[e].attempts + 1
      BY <2>1, <2>3, <3>1, <3>2, Zenon
    <3> QED
      BY <1>b, <1>c, <2>1, <2>3, <3>3, OwnerAssumption
  <2> QED
    BY <2>2, <2>3
<1>6. ASSUME NEW f \in Events, LeaseOverrun(f) \/ LeaseAbandoned(f) \/ BecomeDue(f)
      PROVE  SameOutcome(e)
  <2>1. \/ row'[e] = row[e]
        \/ row'[e] = [row[e] EXCEPT !.live = FALSE]
        \/ row'[e] = [row[e] EXCEPT !.due = TRUE]
    BY <1>a, <1>6 DEF LeaseOverrun, LeaseAbandoned, BecomeDue
  <2>2. row[e] \in Rows
    BY <1>a
  <2> QED
    BY <2>1, <2>2 DEF SameOutcome, Rows
<1>7. ASSUME NEW f \in Events, ReplayOutboxEvent(f)
      PROVE  SameOutcome(e) \/ ReplayOutboxEvent(e)
  <2>1. CASE f # e
    BY <1>a, <1>7, <2>1 DEF ReplayOutboxEvent, SameOutcome
  <2> QED
    BY <1>7, <2>1
<1>8. ASSUME NEW d \in Dispatchers,
             \/ CheckPressure(d) \/ DatabaseFault(d) \/ Crash(d)
             \/ \E f \in Events : PublishOk(d, f) \/ PublishError(d, f)
      PROVE  row' = row
  BY <1>8 DEF CheckPressure, DatabaseFault, Crash, PublishOk, PublishError
<1>9. ASSUME PressureRises \/ PressureClears PROVE row' = row
  BY <1>9 DEF PressureRises, PressureClears
<1> QED
  BY <1>1, <1>2, <1>3, <1>4, <1>5, <1>6, <1>7, <1>8, <1>9 DEF Next, Dispatch

\* Stale dispatchers never overwrite a recorded outcome.
THEOREM OutcomesAreFinal == Spec => OutcomeIsFinal
<1> DEFINE A == \A e \in Events :
                  Settled(e) => SameOutcome(e) \/ ReplayOutboxEvent(e)
<1>1. IndInv /\ [Next]_vars => [A]_vars
  BY OutcomeStep
<1> QED
  BY <1>1, Inductive, PTL DEF Spec, OutcomeIsFinal

\* A stale attempt count never overwrites a newer one.
THEOREM AttemptsNeverFall == Spec => AttemptsOnlyRise
<1> DEFINE A == \A e \in Events :
                  row'[e].attempts >= row[e].attempts \/ ReplayOutboxEvent(e)
<1>1. IndInv /\ [Next]_vars => [A]_vars
  <2>1. IndInv => \A e \in Events : row[e].attempts \in Nat
    BY DEF IndInv, TypeOK, Rows
  <2> QED
    BY <2>1, OutcomeStep DEF SameOutcome
<1> QED
  BY <1>1, Inductive, PTL DEF Spec, AttemptsOnlyRise

-----------------------------------------------------------------------------
(***************************************************************************)
(* EventOutbox implements EventDelivery.  The inductive invariant says     *)
(* enough of a dispatcher's local state for every step but one: that what  *)
(* it is about to publish was committed is the invariant added here.       *)
(***************************************************************************)
HeldIsCommitted ==
    \A d \in Dispatchers, e \in Events : e \in disp[d].todo => row[e].stored

-----------------------------------------------------------------------------
LEMMA InitHeld == Init => HeldIsCommitted
BY DEF Init, HeldIsCommitted, AtRest

LEMMA StoredStays ==
    ASSUME IndInv, [Next]_vars, NEW e \in Events, row[e].stored
    PROVE  row'[e].stored
<1>a. /\ row \in [Events -> Rows] /\ disp \in [Dispatchers -> LocalStates]
  BY DEF IndInv, TypeOK
<1>b. row[e] \in Rows
  BY <1>a
<1>1. ASSUME row' = row PROVE row'[e].stored
  BY <1>1
<1>2. ASSUME NEW f \in Events, Stage(f) PROVE row'[e].stored
  BY <1>a, <1>2 DEF Stage
<1>3. ASSUME NEW d \in Dispatchers, ClaimBatch(d) PROVE row'[e].stored
  <2>1. row'[e] = row[e] \/ row'[e] = Leased(row[e], d)
    BY <1>3 DEF ClaimBatch
  <2> QED
    BY <1>b, <2>1, LeasedRow
<1>4. ASSUME NEW d \in Dispatchers, MarkPublishedMany(d) PROVE row'[e].stored
  <2>1. row'[e] = row[e] \/ row'[e] = Published(row[e])
    BY <1>4 DEF MarkPublishedMany
  <2> QED
    BY <1>b, <2>1, PublishedRow
<1>5. ASSUME NEW d \in Dispatchers, NEW f \in Events, MarkFailed(d, f)
      PROVE  row'[e].stored
  <2>1. row'[e] = row[e] \/ row'[e] = Failed(row[e], disp[d].snap[e])
    BY <1>a, <1>5 DEF MarkFailed
  <2>2. disp[d].snap[e] \in Nat
    BY <1>a DEF LocalStates
  <2>3. Failed(row[e], disp[d].snap[e]).stored = row[e].stored
    BY <1>b, <2>2, FailedRow
  <2> QED
    BY <2>1, <2>3
<1>6. ASSUME NEW f \in Events, LeaseOverrun(f) \/ LeaseAbandoned(f) \/ BecomeDue(f)
      PROVE  row'[e].stored
  <2>1. \/ row'[e] = row[e]
        \/ row'[e] = [row[e] EXCEPT !.live = FALSE]
        \/ row'[e] = [row[e] EXCEPT !.due = TRUE]
    BY <1>a, <1>6 DEF LeaseOverrun, LeaseAbandoned, BecomeDue
  <2> QED
    BY <1>b, <2>1 DEF Rows
<1>7. ASSUME NEW f \in Events, ReplayOutboxEvent(f) PROVE row'[e].stored
  <2>1. row'[e] = row[e] \/ row'[e] = Requeued(row[e])
    BY <1>a, <1>7 DEF ReplayOutboxEvent
  <2> QED
    BY <1>b, <2>1, RequeuedRow
<1>8. ASSUME NEW d \in Dispatchers,
             \/ CheckPressure(d) \/ DatabaseFault(d) \/ Crash(d)
             \/ \E f \in Events : PublishOk(d, f) \/ PublishError(d, f)
      PROVE  row' = row
  BY <1>8 DEF CheckPressure, DatabaseFault, Crash, PublishOk, PublishError
<1>9. ASSUME PressureRises \/ PressureClears \/ UNCHANGED vars PROVE row' = row
  BY <1>9 DEF PressureRises, PressureClears, vars
<1> QED
  BY <1>1, <1>2, <1>3, <1>4, <1>5, <1>6, <1>7, <1>8, <1>9 DEF Next, Dispatch

\* What a dispatcher comes to hold, it claimed from the stored rows.
LEMMA HeldWasHeldOrStored ==
    ASSUME IndInv, [Next]_vars, NEW d \in Dispatchers, NEW e \in Events,
           e \in disp'[d].todo
    PROVE  e \in disp[d].todo \/ row[e].stored
<1>a. disp \in [Dispatchers -> LocalStates]
  BY DEF IndInv, TypeOK
<1>1. ASSUME NEW c \in Dispatchers, ClaimBatch(c)
      PROVE  e \in disp[d].todo \/ row[e].stored
  <2> DEFINE batch == FirstOf(BatchSize, {f \in Events : Claimable(f)})
             fresh == [pc |-> "working", todo |-> batch, done |-> {}, failed |-> {},
                       snap |-> [f \in Events |->
                                   IF f \in batch THEN row[f].attempts ELSE 0]]
  <2>1. c # d => disp'[d] = disp[d]
    BY <1>a, <1>1 DEF ClaimBatch
  <2>2. c = d => disp'[d] = Resting(fresh)
    BY <1>a, <1>1 DEF ClaimBatch
  <2>3. Resting(fresh).todo \subseteq batch
    BY DEF Resting, AtRest
  <2>4. batch \subseteq {f \in Events : Claimable(f)}
    BY DEF FirstOf
  <2> QED
    BY <2>1, <2>2, <2>3, <2>4 DEF Claimable
<1>2. ASSUME NEW c \in Dispatchers, NEW f \in Events,
             PublishOk(c, f) \/ PublishError(c, f)
      PROVE  e \in disp[d].todo
  <2>1. \/ disp'[d] = disp[d]
        \/ disp'[d] = Sent(disp[d], f)
        \/ disp'[d] = Erred(disp[d], f)
    BY <1>a, <1>2 DEF PublishOk, PublishError
  <2>2. disp[d] \in LocalStates
    BY <1>a
  <2>3. /\ Sent(disp[d], f).todo = disp[d].todo \ {f}
        /\ Erred(disp[d], f).todo = disp[d].todo \ {f}
    BY <2>2, ProgressState
  <2> QED
    BY <2>1, <2>3
<1>3. ASSUME NEW c \in Dispatchers, MarkPublishedMany(c)
      PROVE  e \in disp[d].todo
  BY <1>a, <1>3 DEF MarkPublishedMany, Resting, Acknowledged, AtRest, LocalStates
<1>4. ASSUME NEW c \in Dispatchers, NEW f \in Events, MarkFailed(c, f)
      PROVE  e \in disp[d].todo
  BY <1>a, <1>4 DEF MarkFailed, Resting, Recorded, AtRest, LocalStates
<1>5. ASSUME NEW c \in Dispatchers, CheckPressure(c) \/ DatabaseFault(c) \/ Crash(c)
      PROVE  e \in disp[d].todo
  BY <1>a, <1>5 DEF CheckPressure, DatabaseFault, Crash, AtRest, LocalStates
<1>6. ASSUME NEW f \in Events,
             \/ Stage(f) \/ ReplayOutboxEvent(f)
             \/ LeaseOverrun(f) \/ LeaseAbandoned(f) \/ BecomeDue(f)
      PROVE  e \in disp[d].todo
  BY <1>6 DEF Stage, ReplayOutboxEvent, LeaseOverrun, LeaseAbandoned, BecomeDue
<1>7. ASSUME PressureRises \/ PressureClears \/ UNCHANGED vars
      PROVE  e \in disp[d].todo
  BY <1>7 DEF PressureRises, PressureClears, vars
<1> QED
  BY <1>1, <1>2, <1>3, <1>4, <1>5, <1>6, <1>7 DEF Next, Dispatch

LEMMA StepHeld == IndInv /\ HeldIsCommitted /\ [Next]_vars => HeldIsCommitted'
<1> SUFFICES ASSUME IndInv, HeldIsCommitted, [Next]_vars,
                    NEW d \in Dispatchers, NEW e \in Events, e \in disp'[d].todo
             PROVE  row'[e].stored
  BY DEF HeldIsCommitted
<1>1. row[e].stored
  BY HeldWasHeldOrStored DEF HeldIsCommitted
<1> QED
  BY <1>1, StoredStays

\* Nothing is held for publication that no unit of work committed.
LEMMA OnlyCommitted == Spec => []HeldIsCommitted
BY InitHeld, StepHeld, Inductive, PTL DEF Spec

-----------------------------------------------------------------------------
(***************************************************************************)
(* How the rows look from EventDelivery.                                   *)
(***************************************************************************)
LEMMA SeenAsBefore ==
    ASSUME \A e \in Events : /\ row'[e].stored = row[e].stored
                             /\ row'[e].published = row[e].published
                             /\ row'[e].dead = row[e].dead
    PROVE  Seen' = Seen
BY DEF Seen, Status

LEMMA SeenChanges ==
    ASSUME NEW f \in Events, NEW v, Status(f)' = v,
           \A e \in Events \ {f} : row'[e] = row[e]
    PROVE  Seen' = [Seen EXCEPT ![f] = v]
<1>1. \A e \in Events : Status(e)' = IF e = f THEN v ELSE Status(e)
  <2>1. ASSUME NEW e \in Events, e # f PROVE Status(e)' = Status(e)
    BY <2>1 DEF Status
  <2> QED
    BY <2>1
<1> QED
  BY <1>1 DEF Seen

LEMMA StatusOf ==
    ASSUME NEW e \in Events
    PROVE  /\ Seen[e] = Status(e)
           /\ row[e].stored => Status(e) # "absent"
           /\ row[e].stored /\ ~Settled(e) => Status(e) = "pending"
BY DEF Seen, Status, Settled

LEMMA ReopensAs ==
    ASSUME NEW e \in Events, row'[e].stored, ~row'[e].published, ~row'[e].dead
    PROVE  Status(e)' = "pending"
BY DEF Status

LEMMA InitPromised == Init => Promise!Init
<1> SUFFICES ASSUME Init PROVE Promise!Init
  OBVIOUS
<1>1. \A e \in Events : Status(e) = "absent"
  BY DEF Init, Status, Absent
<1> QED
  BY <1>1 DEF Init, Promise!Init, Seen

-----------------------------------------------------------------------------
(***************************************************************************)
(* One lemma per kind of step.                                             *)
(***************************************************************************)
LEMMA StageAccepts ==
    ASSUME IndInv, NEW e \in Events, Stage(e)
    PROVE  Promise!Accept(e)
<1>1. row' = [row EXCEPT ![e] = Staged] /\ row \in [Events -> Rows]
  BY DEF Stage, IndInv, TypeOK
<1>2. Status(e) = "absent"
  BY DEF Stage, Status, IndInv, HoldersAgree, RowShape, Settled
<1>3. row'[e] = Staged
  BY <1>1
<1>4. Status(e)' = "pending"
  BY <1>3, StagedRow, ReopensAs
<1>5. Seen' = [Seen EXCEPT ![e] = "pending"]
  BY <1>1, <1>4, SeenChanges
<1> QED
  BY <1>2, <1>5, StatusOf DEF Promise!Accept, Stage, ghosts

\* A row in a dispatcher's list is committed, and has no entry unless excused.
LEMMA HolderMayAppend ==
    ASSUME IndInv, HeldIsCommitted, NEW d \in Dispatchers, NEW e \in Events,
           e \in disp[d].todo
    PROVE  Promise!MayAppend(e)
<1>1. Seen[e] # "absent"
  BY StatusOf DEF HeldIsCommitted
<1>2. sent[e] = 0 \/ disturbed[e]
  BY DEF IndInv, HoldersAgree, Undisturbed
<1> QED
  BY <1>1, <1>2 DEF Promise!MayAppend

LEMMA PublishAppends ==
    ASSUME IndInv, HeldIsCommitted, NEW d \in Dispatchers, NEW e \in Events,
           PublishOk(d, e)
    PROVE  Promise!Append(e)
<1>1. Promise!MayAppend(e)
  BY HolderMayAppend DEF PublishOk, First
<1>2. Seen' = Seen
  BY SeenAsBefore DEF PublishOk
<1> QED
  BY <1>1, <1>2 DEF Promise!Append, Promise!More, PublishOk, Appended

LEMMA PublishFails ==
    ASSUME IndInv, HeldIsCommitted, NEW d \in Dispatchers, NEW e \in Events,
           PublishError(d, e)
    PROVE  Promise!Fail(e)
<1>1. Promise!MayAppend(e)
  BY HolderMayAppend DEF PublishError, First
<1>2. Seen' = Seen
  BY SeenAsBefore DEF PublishError
<1>3. failures' = [failures EXCEPT ![e] = Promise!More(@, MaxAttempts)]
  BY DEF PublishError, ErrorSeen, Promise!More
<1>4. \/ UNCHANGED <<sent, disturbed>>
      \/ /\ sent' = [sent EXCEPT ![e] = Promise!More(@, 2)]
         /\ disturbed' = [disturbed EXCEPT ![e] = TRUE]
  BY DEF PublishError, Appended, Promise!More
<1> QED
  BY <1>1, <1>2, <1>3, <1>4 DEF Promise!Fail

LEMMA MarkPublishedDelivers ==
    ASSUME IndInv, NEW d \in Dispatchers, MarkPublishedMany(d)
    PROVE  \E batch \in SUBSET Events : Promise!Deliver(batch)
<1> DEFINE batch == {e \in Events : e \in disp[d].done /\ Owns(d, e)}
<1>1. \A e \in batch : Seen[e] = "pending" /\ sent[e] > 0
  <2> SUFFICES ASSUME NEW e \in batch PROVE Seen[e] = "pending" /\ sent[e] > 0
    OBVIOUS
  <2>1. row[e].owner = d /\ d # NoOwner /\ e \in disp[d].done
    BY OwnerAssumption DEF Owns
  <2>2. row[e].stored /\ ~Settled(e) /\ sent[e] > 0
    BY <2>1 DEF IndInv, HoldersAgree, RowShape, HolderAgrees
  <2> QED
    BY <2>2, StatusOf
<1>2. \A e \in Events :
        Status(e)' = IF e \in batch THEN "delivered" ELSE Status(e)
  <2> SUFFICES ASSUME NEW e \in Events
               PROVE  Status(e)' = IF e \in batch THEN "delivered" ELSE Status(e)
    OBVIOUS
  <2>1. row'[e] = IF e \in batch THEN Published(row[e]) ELSE row[e]
    BY DEF MarkPublishedMany
  <2>2. row[e] \in Rows
    BY DEF IndInv, TypeOK
  <2> HIDE DEF batch
  <2> QED
    BY <2>1, <2>2, PublishedRow DEF Status
<1>3. Seen' = [e \in Events |-> IF e \in batch THEN "delivered" ELSE Seen[e]]
  BY <1>2, StatusOf DEF Seen
<1>4. UNCHANGED <<sent, failures, disturbed>>
  BY DEF MarkPublishedMany, ghosts
<1>5. Promise!Deliver(batch)
  BY <1>1, <1>3, <1>4 DEF Promise!Deliver
<1> QED
  BY <1>5

LEMMA MarkFailedGivesUp ==
    ASSUME IndInv, NEW d \in Dispatchers, NEW e \in Events, MarkFailed(d, e)
    PROVE  Promise!GiveUp(e) \/ UNCHANGED Promise!vars
<1>a. /\ row \in [Events -> Rows] /\ disp \in [Dispatchers -> LocalStates]
      /\ failures \in [Events -> 0..MaxAttempts]
  BY DEF IndInv, TypeOK
<1>b. /\ row[e] \in Rows /\ disp[d].snap[e] \in Nat /\ e \in disp[d].failed
      /\ UNCHANGED <<sent, failures, disturbed>>
  BY <1>a DEF LocalStates, MarkFailed, First, ghosts
<1>1. CASE ~Owns(d, e)
  <2>1. row' = row
    BY <1>a, <1>1 DEF MarkFailed
  <2>2. Seen' = Seen
    BY <2>1, SeenAsBefore
  <2> QED
    BY <1>b, <2>2 DEF Promise!vars
<1>2. CASE Owns(d, e)
  <2> DEFINE n == disp[d].snap[e]
  <2>1. row' = [row EXCEPT ![e] = Failed(row[e], n)]
    BY <1>a, <1>2 DEF MarkFailed
  <2>2. row[e].stored /\ ~Settled(e) /\ n < failures[e]
    BY <1>b, <1>2, OwnerAssumption
    DEF Owns, IndInv, HoldersAgree, RowShape, HolderAgrees
  <2>3. row'[e] = Failed(row[e], n)
    BY <1>a, <2>1
  <2>f. /\ Failed(row[e], n).stored = row[e].stored
        /\ Failed(row[e], n).published = row[e].published
        /\ n + 1 >= MaxAttempts => Failed(row[e], n).dead
        /\ ~(n + 1 >= MaxAttempts) => Failed(row[e], n).dead = row[e].dead
    BY <1>b, FailedRow
  <2>4. CASE n + 1 >= MaxAttempts
    <3>1. failures[e] >= MaxAttempts
      BY <1>a, <1>b, <2>2, <2>4, SizesAssumption
    <3>2. ~row'[e].published /\ row'[e].dead
      BY <2>2, <2>3, <2>4, <2>f DEF Settled
    <3>3. Status(e)' = "abandoned"
      BY <3>2 DEF Status
    <3>4. Seen' = [Seen EXCEPT ![e] = "abandoned"]
      BY <2>1, <3>3, SeenChanges
    <3> QED
      BY <1>b, <2>2, <3>1, <3>4, StatusOf DEF Promise!GiveUp
  <2>5. CASE ~(n + 1 >= MaxAttempts)
    <3>1. /\ row'[e].stored = row[e].stored /\ row'[e].dead = row[e].dead
          /\ row'[e].published = row[e].published
      BY <2>3, <2>5, <2>f
    <3>2. \A f \in Events \ {e} : row'[f] = row[f]
      BY <1>a, <2>1
    <3>3. Seen' = Seen
      BY <3>1, <3>2, SeenAsBefore
    <3> QED
      BY <1>b, <3>3 DEF Promise!vars
  <2> QED
    BY <2>4, <2>5
<1> QED
  BY <1>1, <1>2

LEMMA ReplayReopens ==
    ASSUME IndInv, NEW e \in Events, ReplayOutboxEvent(e)
    PROVE  Promise!Reopen(e)
<1>1. /\ row' = [row EXCEPT ![e] = Requeued(row[e])]
      /\ row \in [Events -> Rows] /\ row[e].stored
  BY DEF ReplayOutboxEvent, IndInv, TypeOK
<1>2. row'[e] = Requeued(row[e]) /\ row[e] \in Rows
  BY <1>1
<1>3. Status(e)' = "pending"
  BY <1>1, <1>2, RequeuedRow, ReopensAs
<1>4. Seen' = [Seen EXCEPT ![e] = "pending"]
  BY <1>1, <1>3, SeenChanges
<1>5. Seen[e] # "absent"
  BY <1>1, StatusOf
<1> QED
  BY <1>4, <1>5 DEF Promise!Reopen, ReplayOutboxEvent

LEMMA TimeExcuses ==
    ASSUME IndInv, NEW e \in Events, LeaseOverrun(e) \/ LeaseAbandoned(e)
    PROVE  Promise!Excuse(e)
<1>1. /\ row' = [row EXCEPT ![e].live = FALSE]
      /\ row \in [Events -> Rows]
  BY DEF LeaseOverrun, LeaseAbandoned, IndInv, TypeOK
<1>2. \A f \in Events : /\ row'[f].stored = row[f].stored
                        /\ row'[f].published = row[f].published
                        /\ row'[f].dead = row[f].dead
  BY <1>1 DEF Rows
<1>3. Seen' = Seen
  BY <1>2, SeenAsBefore
<1> QED
  BY <1>3 DEF Promise!Excuse, LeaseOverrun, LeaseAbandoned

\* Leases, delays, pauses and the dispatchers' own bookkeeping do not show.
LEMMA RestIsHidden ==
    ASSUME IndInv,
           \/ \E d \in Dispatchers : \/ CheckPressure(d) \/ ClaimBatch(d)
                                     \/ DatabaseFault(d) \/ Crash(d)
           \/ \E e \in Events : BecomeDue(e)
           \/ PressureRises \/ PressureClears \/ UNCHANGED vars
    PROVE  UNCHANGED Promise!vars
<1>a. row \in [Events -> Rows]
  BY DEF IndInv, TypeOK
<1>1. UNCHANGED <<sent, failures, disturbed>>
  BY DEF CheckPressure, ClaimBatch, DatabaseFault, Crash, BecomeDue,
         PressureRises, PressureClears, vars, ghosts
<1>2. ASSUME NEW e \in Events
      PROVE  /\ row'[e].stored = row[e].stored
             /\ row'[e].published = row[e].published
             /\ row'[e].dead = row[e].dead
  <2>1. row[e] \in Rows
    BY <1>a
  <2>2. ASSUME NEW d \in Dispatchers, ClaimBatch(d)
        PROVE  row'[e] = row[e] \/ row'[e] = Leased(row[e], d)
    BY <2>2 DEF ClaimBatch
  <2>3. ASSUME NEW f \in Events, BecomeDue(f)
        PROVE  row'[e] = row[e] \/ row'[e] = [row[e] EXCEPT !.due = TRUE]
    BY <1>a, <2>3 DEF BecomeDue
  <2>4. \/ row'[e] = row[e]
        \/ \E d \in Dispatchers : row'[e] = Leased(row[e], d)
        \/ row'[e] = [row[e] EXCEPT !.due = TRUE]
    BY <2>2, <2>3
    DEF CheckPressure, DatabaseFault, Crash, PressureRises, PressureClears, vars
  <2> QED
    BY <2>1, <2>4, LeasedRow DEF Rows
<1>3. Seen' = Seen
  BY <1>2, SeenAsBefore
<1> QED
  BY <1>1, <1>3 DEF Promise!vars

LEMMA StepPromised ==
    IndInv /\ HeldIsCommitted /\ [Next]_vars => [Promise!Next]_(Promise!vars)
<1> SUFFICES ASSUME IndInv, HeldIsCommitted, [Next]_vars
             PROVE  Promise!Next \/ UNCHANGED Promise!vars
  OBVIOUS
<1>1. ASSUME NEW e \in Events,
             \/ Promise!Accept(e) \/ Promise!Append(e) \/ Promise!Fail(e)
             \/ Promise!Excuse(e) \/ Promise!GiveUp(e) \/ Promise!Reopen(e)
      PROVE  Promise!Next
  BY <1>1 DEF Promise!Next
<1>2. ASSUME \E batch \in SUBSET Events : Promise!Deliver(batch)
      PROVE  Promise!Next
  BY <1>2 DEF Promise!Next
<1> QED
  BY <1>1, <1>2, StageAccepts, PublishAppends, PublishFails,
     MarkPublishedDelivers, MarkFailedGivesUp, ReplayReopens, TimeExcuses,
     RestIsHidden
  DEF Next, Dispatch

\* Whatever the dispatchers' leases, crashes and replays do, the outbox behaves
\* as EventDelivery says: committed events only, no unexplained second entry,
\* no outcome that did not happen (dispatch_once, outbox.py:159-334).
THEOREM OutboxKeepsPromise == Spec => KeepsPromise
BY InitPromised, StepPromised, Inductive, OnlyCommitted, PTL
DEF Spec, KeepsPromise, Promise!Spec

=============================================================================
