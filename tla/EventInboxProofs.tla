--------------------------- MODULE EventInboxProofs --------------------------
(***************************************************************************)
(* Proofs about EventInbox for any groups, entries, events, lanes, limits  *)
(* and faults: no entry is dropped, nothing runs twice unless a claim was  *)
(* taken over, and both ways of giving up are earned.                      *)
(***************************************************************************)
EXTENDS EventInbox, FiniteSetTheorems, TLAPS

(* What a claim or a finish needs to stay within the attempt limit: a row     *)
(* that may still be claimed has an attempt left, and a failure is retried   *)
(* only below the limit.                                                     *)
AttemptsLeft ==
    /\ \A c \in Consumptions :
          row[c].status \notin Final => row[c].attempts < MaxAttempts
    /\ \A l \in Lanes :
          lane[l].pc = "finishing" /\ lane[l].outcome = "RETRYING"
              => lane[l].attempt < MaxAttempts

(* A lane at work has an entry.                                              *)
Occupied == \A l \in Lanes : lane[l].pc # "idle" => lane[l].msg \in Messages

Typed == TypeOK /\ AttemptsLeft /\ Occupied

(* An outcome in a row was recorded, and a lane acknowledges only an entry   *)
(* whose event has an outcome or that was given up on.                       *)
Excused(d) == Consumption(d) \in settled \/ d \in quarantined

OutcomesRecorded ==
    /\ \A c \in Consumptions : row[c].status \in Final => c \in settled
    /\ \A l \in Lanes : lane[l].pc = "acking" => Excused(DeliveryOf(l))

(* While nobody has taken a claim over, the lane that runs an event holds    *)
(* its row, and an event that a handler has succeeded for is never run again.*)
Works(l, c) == Running(l) /\ ConsumptionOf(l) = c

Untroubled(c) ==
    /\ \A l \in Lanes : Works(l, c) => row[c].status = "PROCESSING"
    /\ \A k, l \in Lanes : Works(k, c) /\ Works(l, c) => k = l
    /\ runs[c] <= 1
    /\ runs[c] = 1 =>
          /\ row[c].status \in Final \cup {"PROCESSING"}
          /\ \A l \in Lanes : Works(l, c) =>
                lane[l].pc = "finishing" /\ lane[l].outcome = "COMPLETED"

ClaimsHold == \A c \in Consumptions : c \in takenOver \/ Untroubled(c)

(* The attempt a lane counts is at most one ahead of the failures there were,*)
(* and not ahead any more once its handler has failed.                       *)
AttemptsAreFailures ==
    \A l \in Lanes :
        /\ lane[l].pc = "running" => lane[l].attempt <= failures[ConsumptionOf(l)] + 1
        /\ lane[l].pc = "finishing" /\ lane[l].outcome \in {"RETRYING", "DEAD_LETTER"}
              => lane[l].attempt <= failures[ConsumptionOf(l)]
        /\ lane[l].pc = "finishing" /\ lane[l].outcome = "DEAD_LETTER"
              => lane[l].attempt = MaxAttempts

(* The lanes that met an error with the entry and have still to count it.    *)
Uncounted(m) == {l \in Lanes : lane[l].pc = "failing" /\ lane[l].msg = m}

(* No error is counted twice: the counter and the lanes that have still to   *)
(* count make at most the errors there were.                                 *)
CountedOnce ==
    \A m \in Messages :
        errors[m] = MaxDeliveries \/ count[m] + Cardinality(Uncounted(m)) <= errors[m]

PermanentIsEnough ==
    \A l \in Lanes :
        lane[l].pc = "failing" /\ lane[l].permanent => errors[lane[l].msg] = MaxDeliveries

(* The inductive invariant, in the parts that are inductive one after another.*)
Delivered == NothingDropped /\ OutcomesRecorded

DeadLetters == DeadLetterIsEarned /\ AttemptsAreFailures

Quarantines == QuarantineIsEarned /\ CountedOnce /\ PermanentIsEnough

IndInv == Typed /\ Delivered /\ ClaimsHold /\ DeadLetters /\ Quarantines

-----------------------------------------------------------------------------
(* What the helpers of EventInbox do to the lanes: l changes, nobody else.   *)
Others(l) == \A k \in Lanes : k # l => lane'[k] = lane[k]

(* A record of a lane that has an entry and rests otherwise is a lane state. *)
LEMMA RestingStates ==
  ASSUME NEW m \in Messages \cup {None},
         NEW pc \in {"idle", "delivered", "failing", "acking"}, NEW p \in BOOLEAN
  PROVE  /\ [Resting EXCEPT !.pc = pc, !.msg = m, !.permanent = p] \in LaneStates
         /\ [Resting EXCEPT !.pc = pc, !.msg = m] \in LaneStates
         /\ Resting \in LaneStates
<1>1. 0 \in 0..MaxAttempts /\ 0 \in 0..HandlerTimeout
  BY LimitsAssumption
<1>2. Resting \in LaneStates
  BY <1>1 DEF Resting, LaneStates
<1> QED
  BY <1>2 DEF LaneStates

(* Proceed keeps the entry and nothing else.                                 *)
LEMMA Proceeding ==
  ASSUME Typed, NEW l \in Lanes, lane[l].pc # "idle", Proceed(l, "acking")
  PROVE  /\ lane' \in [Lanes -> LaneStates] /\ Others(l)
         /\ lane'[l].pc = "acking" /\ lane'[l].msg = lane[l].msg
<1> DEFINE new == [Resting EXCEPT !.pc = "acking", !.msg = lane[l].msg]
<1>1. lane \in [Lanes -> LaneStates] /\ lane[l].msg \in Messages
  BY DEF Typed, TypeOK, Occupied
<1>2. new \in LaneStates
  BY <1>1, RestingStates
<1>3. new.pc = "acking" /\ new.msg = lane[l].msg
  BY DEF Resting
<1>4. lane' = [lane EXCEPT ![l] = new]
  BY DEF Proceed
<1> HIDE DEF new
<1> QED
  BY <1>1, <1>2, <1>3, <1>4 DEF Others

(* Release leaves an idle lane.                                              *)
LEMMA Releasing ==
  ASSUME Typed, NEW l \in Lanes, Release(l)
  PROVE  /\ lane' \in [Lanes -> LaneStates] /\ Others(l)
         /\ lane'[l].pc = "idle"
<1>1. lane \in [Lanes -> LaneStates] /\ Resting \in LaneStates
  BY RestingStates DEF Typed, TypeOK
<1>2. Resting.pc = "idle"
  BY DEF Resting
<1> QED
  BY <1>1, <1>2 DEF Release, Others

(* One error more, or as many as there can be.                               *)
LEMMA WorseFacts ==
  ASSUME NEW n \in 0..MaxDeliveries, NEW p \in BOOLEAN
  PROVE  /\ Worse(n, p) \in 0..MaxDeliveries /\ n <= Worse(n, p)
         /\ Worse(n, p) = MaxDeliveries \/ (~p /\ Worse(n, p) = n + 1)
BY LimitsAssumption DEF Worse, UpTo

(* Raise keeps the entry and adds an error to it.                            *)
LEMMA Raising ==
  ASSUME Typed, NEW l \in Lanes, NEW p \in BOOLEAN, lane[l].pc # "idle", Raise(l, p)
  PROVE  /\ lane' \in [Lanes -> LaneStates] /\ Others(l)
         /\ lane'[l].pc = "failing" /\ lane'[l].msg = lane[l].msg
         /\ lane'[l].permanent = p
         /\ errors' \in [Messages -> 0..MaxDeliveries]
         /\ own' \in [Deliveries -> 0..MaxDeliveries]
         /\ \A m \in Messages : m # lane[l].msg => errors'[m] = errors[m]
         /\ errors'[lane[l].msg] = Worse(errors[lane[l].msg], p)
<1> DEFINE new == [Resting EXCEPT !.pc = "failing", !.msg = lane[l].msg, !.permanent = p]
<1>1. lane \in [Lanes -> LaneStates] /\ lane[l].msg \in Messages
  BY DEF Typed, TypeOK, Occupied
<1>2. new \in LaneStates
  BY <1>1, RestingStates
<1>3. new.pc = "failing" /\ new.msg = lane[l].msg /\ new.permanent = p
  BY DEF Resting
<1>4. lane' = [lane EXCEPT ![l] = new]
  BY DEF Raise
<1> HIDE DEF new
<1>5. errors \in [Messages -> 0..MaxDeliveries] /\ own \in [Deliveries -> 0..MaxDeliveries]
  BY DEF Typed, TypeOK
<1>6. DeliveryOf(l) \in Deliveries
  BY <1>1, LanesAssumption DEF DeliveryOf, Deliveries
<1>7. Worse(errors[lane[l].msg], p) \in 0..MaxDeliveries
      /\ Worse(own[DeliveryOf(l)], p) \in 0..MaxDeliveries
  BY <1>1, <1>5, <1>6, WorseFacts
<1>8. /\ errors' = [errors EXCEPT ![lane[l].msg] = Worse(@, p)]
      /\ own' = [own EXCEPT ![DeliveryOf(l)] = Worse(@, p)]
  BY DEF Raise, ErrorSeen
<1> QED
  BY <1>1, <1>2, <1>3, <1>4, <1>5, <1>6, <1>7, <1>8 DEF Others

(* The row and the delivery of a lane at work exist.                         *)
LEMMA AtWork ==
  ASSUME Typed, NEW l \in Lanes, lane[l].pc # "idle"
  PROVE  /\ lane[l].msg \in Messages /\ lane[l].msg # None
         /\ DeliveryOf(l) \in Deliveries /\ ConsumptionOf(l) \in Consumptions
         /\ Consumption(DeliveryOf(l)) = ConsumptionOf(l)
BY EntriesAssumption, LanesAssumption
   DEF Typed, Occupied, DeliveryOf, ConsumptionOf, Consumption, Deliveries, Consumptions

(* Lanes that rest in an entry owe nothing else.                             *)
LEMMA RestingLane ==
  ASSUME NEW l \in Lanes, UNCHANGED row, Typed, Others(l),
         lane'[l].pc # "finishing",
         lane'[l].pc = "idle" \/ lane'[l].msg \in Messages
  PROVE  AttemptsLeft' /\ Occupied'
BY DEF Typed, AttemptsLeft, Occupied, Others

-----------------------------------------------------------------------------
(* When a step keeps each part of the invariant.                             *)

(* Nothing new is acknowledged or recorded without an excuse.                *)
LEMMA KeepsDelivered ==
  ASSUME Delivered, settled \subseteq settled', quarantined \subseteq quarantined',
         \A c \in Consumptions : row'[c].status \in Final =>
            row[c].status \in Final \/ c \in settled',
         \A k \in Lanes : lane'[k].pc = "acking" =>
            lane'[k] = lane[k] \/ Excused(DeliveryOf(k))',
         \A d \in Deliveries : entry'[d].state = "acked" =>
            entry[d].state = "acked" \/ Excused(d)'
  PROVE  Delivered'
<1>1. NothingDropped'
  BY DEF Delivered, NothingDropped, Excused
<1>2. \A c \in Consumptions : row'[c].status \in Final => c \in settled'
  BY DEF Delivered, OutcomesRecorded
<1>3. \A k \in Lanes : lane'[k].pc = "acking" => Excused(DeliveryOf(k))'
  BY DEF Delivered, OutcomesRecorded, Excused, DeliveryOf
<1> QED
  BY <1>1, <1>2, <1>3 DEF Delivered, OutcomesRecorded

(* Whoever runs a handler after the step did so before.                      *)
NoNewWork ==
    \A k \in Lanes : lane'[k].pc \in {"running", "finishing"} =>
        /\ lane'[k].pc = lane[k].pc /\ lane'[k].msg = lane[k].msg
        /\ lane'[k].outcome = lane[k].outcome /\ lane'[k].attempt = lane[k].attempt

(* No handler starts or succeeds, and rows keep their status.                *)
LEMMA KeepsClaims ==
  ASSUME ClaimsHold, NoNewWork, takenOver \subseteq takenOver', UNCHANGED runs,
         \A c \in Consumptions : row'[c].status = row[c].status
  PROVE  ClaimsHold'
<1> SUFFICES ASSUME NEW c \in Consumptions, c \notin takenOver' PROVE Untroubled(c)'
  BY DEF ClaimsHold
<1>1. Untroubled(c)
  BY DEF ClaimsHold
<1>2. \A k \in Lanes : Works(k, c)' => /\ Works(k, c) /\ lane'[k].pc = lane[k].pc
                                       /\ lane'[k].outcome = lane[k].outcome
  BY DEF NoNewWork, Works, Running, ConsumptionOf
<1> QED
  BY <1>1, <1>2 DEF Untroubled

(* No handler starts or fails, and rows keep their attempts.                 *)
LEMMA KeepsDeadLetters ==
  ASSUME DeadLetters, NoNewWork, UNCHANGED failures,
         \A c \in Consumptions : row'[c].status = row[c].status
                                 /\ row'[c].attempts = row[c].attempts
  PROVE  DeadLetters'
<1>1. DeadLetterIsEarned'
  BY DEF DeadLetters, DeadLetterIsEarned
<1>2. AttemptsAreFailures'
  BY DEF DeadLetters, AttemptsAreFailures, NoNewWork, ConsumptionOf
<1> QED
  BY <1>1, <1>2 DEF DeadLetters

(* The lanes with an uncounted error are finitely many.                      *)
LEMMA UncountedFinite ==
  ASSUME NEW m
  PROVE  IsFiniteSet(Uncounted(m)) /\ Cardinality(Uncounted(m)) \in Nat
<1>1. Uncounted(m) \subseteq Lanes /\ IsFiniteSet(Lanes)
  BY LanesAssumption DEF Uncounted
<1> QED
  BY <1>1, FS_Subset, FS_CardinalityType

(* The same in the next state.                                               *)
LEMMA UncountedFiniteNext ==
  ASSUME NEW m
  PROVE  IsFiniteSet(Uncounted(m)') /\ Cardinality(Uncounted(m)') \in Nat
<1>1. Uncounted(m)' \subseteq Lanes /\ IsFiniteSet(Lanes)
  BY LanesAssumption DEF Uncounted
<1> QED
  BY <1>1, FS_Subset, FS_CardinalityType

(* No error is met, none is counted and nothing given up too early.          *)
LEMMA KeepsQuarantines ==
  ASSUME Typed, Quarantines, UNCHANGED <<count, errors>>,
         \A d \in quarantined' : d \in quarantined \/ errors[d[2]] >= MaxDeliveries,
         \A k \in Lanes : lane'[k].pc = "failing" =>
            lane[k].pc = "failing" /\ lane'[k].msg = lane[k].msg
            /\ lane'[k].permanent = lane[k].permanent
  PROVE  Quarantines'
<1>1. QuarantineIsEarned'
  BY DEF Quarantines, QuarantineIsEarned
<1>2. PermanentIsEnough'
  BY DEF Quarantines, PermanentIsEnough
<1>3. ASSUME NEW m \in Messages
      PROVE  Cardinality(Uncounted(m)') <= Cardinality(Uncounted(m))
  <2>1. Uncounted(m)' \subseteq Uncounted(m)
    BY DEF Uncounted
  <2> QED
    BY <2>1, UncountedFinite, FS_Subset
<1>4. CountedOnce'
  <2> SUFFICES ASSUME NEW m \in Messages, errors[m] # MaxDeliveries
               PROVE  count[m] + Cardinality(Uncounted(m)') <= errors[m]
    BY DEF CountedOnce
  <2>1. count[m] + Cardinality(Uncounted(m)) <= errors[m]
    BY DEF Quarantines, CountedOnce
  <2>2. count[m] \in Nat /\ errors[m] \in Nat
    BY DEF Typed, TypeOK
  <2> QED
    BY <1>3, <2>1, <2>2, UncountedFinite, UncountedFiniteNext
<1> QED
  BY <1>1, <1>2, <1>4 DEF Quarantines

(* A lane meets an error: one more to count.                                 *)
LEMMA ErrorsAreKept ==
  ASSUME Typed, Quarantines, NEW l \in Lanes, NEW p \in BOOLEAN,
         lane[l].pc \notin {"idle", "failing"}, Raise(l, p),
         UNCHANGED <<count, quarantined>>
  PROVE  Quarantines'
<1> DEFINE m0 == lane[l].msg
<1>1. /\ lane' \in [Lanes -> LaneStates] /\ Others(l)
      /\ lane'[l].pc = "failing" /\ lane'[l].msg = m0 /\ lane'[l].permanent = p
      /\ errors' \in [Messages -> 0..MaxDeliveries]
      /\ \A m \in Messages : m # m0 => errors'[m] = errors[m]
      /\ errors'[m0] = Worse(errors[m0], p)
  BY Raising
<1>2. m0 \in Messages
  BY AtWork
<1>3. errors \in [Messages -> 0..MaxDeliveries] /\ count \in [Messages -> 0..MaxDeliveries]
  BY DEF Typed, TypeOK
<1>4. \A m \in Messages : errors[m] <= errors'[m] /\ errors'[m] <= MaxDeliveries
                          /\ errors[m] \in Nat /\ errors'[m] \in Nat
  BY <1>1, <1>2, <1>3, WorseFacts, LimitsAssumption
<1>5. QuarantineIsEarned'
  <2>1. \A d \in quarantined : d[2] \in Messages
    BY DEF Typed, TypeOK, Deliveries
  <2> QED
    BY <1>4, <2>1, LimitsAssumption DEF Quarantines, QuarantineIsEarned
<1>6. PermanentIsEnough'
  <2>1. p => errors'[m0] = MaxDeliveries
    BY <1>1, <1>2, <1>3, WorseFacts
  <2>2. ASSUME NEW k \in Lanes, k # l, lane'[k].pc = "failing", lane'[k].permanent
        PROVE  errors'[lane'[k].msg] = MaxDeliveries
    <3>1. lane'[k] = lane[k] /\ lane[k].msg \in Messages
      BY <1>1, <2>2, AtWork DEF Others
    <3>2. errors[lane[k].msg] = MaxDeliveries
      BY <2>2, <3>1 DEF Quarantines, PermanentIsEnough
    <3> QED
      BY <1>4, <3>1, <3>2, LimitsAssumption
  <2> QED
    BY <1>1, <2>1, <2>2 DEF PermanentIsEnough
<1>7. CountedOnce'
  <2> SUFFICES ASSUME NEW m \in Messages, errors'[m] # MaxDeliveries
               PROVE  count[m] + Cardinality(Uncounted(m)') <= errors'[m]
    BY DEF CountedOnce
  <2>1. errors[m] # MaxDeliveries
    BY <1>4, LimitsAssumption
  <2>2. count[m] + Cardinality(Uncounted(m)) <= errors[m]
    BY <2>1 DEF Quarantines, CountedOnce
  <2>3. count[m] \in Nat
    BY <1>3
  <2>4. CASE m = m0
    <3>1. Uncounted(m)' = Uncounted(m) \cup {l}
      BY <1>1, <2>4 DEF Uncounted, Others
    <3>2. l \notin Uncounted(m)
      BY DEF Uncounted
    <3>3. Cardinality(Uncounted(m)') = Cardinality(Uncounted(m)) + 1
      BY <3>1, <3>2, UncountedFinite, FS_AddElement
    <3>4. errors'[m] = errors[m] + 1
      BY <1>1, <1>3, <2>4, WorseFacts
    <3> QED
      BY <1>4, <2>2, <2>3, <3>3, <3>4, UncountedFinite
  <2>5. CASE m # m0
    <3>1. Uncounted(m)' = Uncounted(m)
      BY <1>1, <2>5 DEF Uncounted, Others
    <3> QED
      BY <1>1, <2>2, <2>5, <3>1
  <2> QED
    BY <2>4, <2>5
<1> QED
  BY <1>5, <1>6, <1>7 DEF Quarantines

-----------------------------------------------------------------------------
(* The first state satisfies the invariant. *)
LEMMA Initially == Init => IndInv
<1> SUFFICES ASSUME Init PROVE IndInv
  OBVIOUS
<1>1. 0 \in 0..MaxAttempts /\ 0 \in 0..MaxDeliveries /\ 0 \in 0..MinIdle
      /\ 0 \in 0..AbandonAfter /\ 0 \in 0..MaxFaults /\ 0 < MaxAttempts
  BY LimitsAssumption, BoundsAssumption
<1>2. \A l \in Lanes : lane[l] = Resting
  BY DEF Init
<1>3. Resting.pc = "idle" /\ Resting \in LaneStates
  BY RestingStates DEF Resting
<1>4. TypeOK
  BY <1>1, <1>3 DEF Init, TypeOK, Entries, Rows, Final
<1>5. \A c \in Consumptions : row[c].status = "ABSENT" /\ row[c].attempts = 0
                              /\ failures[c] = 0 /\ runs[c] = 0
  BY DEF Init
<1>6. AttemptsLeft /\ Occupied
  BY <1>1, <1>2, <1>3, <1>5 DEF AttemptsLeft, Occupied
<1>7. Delivered
  BY <1>2, <1>3, <1>5 DEF Init, Delivered, NothingDropped, OutcomesRecorded, Final
<1>8. ClaimsHold
  BY <1>2, <1>3, <1>5 DEF ClaimsHold, Untroubled, Works, Running
<1>9. DeadLetters
  BY <1>2, <1>3, <1>5 DEF DeadLetters, DeadLetterIsEarned, AttemptsAreFailures
<1>10. Quarantines
  <2>1. \A m \in Messages : Uncounted(m) = {}
    BY <1>2, <1>3 DEF Uncounted
  <2>2. CountedOnce
    <3>1. \A m \in Messages : count[m] = 0 /\ errors[m] = 0
      BY DEF Init
    <3>2. \A m \in Messages : Cardinality(Uncounted(m)) = 0
      BY <2>1, FS_EmptySet
    <3> QED
      BY <3>1, <3>2 DEF CountedOnce
  <2> QED
    BY <1>2, <1>3, <2>2 DEF Init, Quarantines, QuarantineIsEarned, PermanentIsEnough
<1> QED
  BY <1>4, <1>6, <1>7, <1>8, <1>9, <1>10 DEF IndInv, Typed

-----------------------------------------------------------------------------
(* What steps of one kind have in common. *)

(* A fault is paid for.                                                      *)
LEMMA Striking ==
  ASSUME Typed, Strike
  PROVE  spent' \in 0..MaxFaults
BY BoundsAssumption DEF Typed, TypeOK, Strike

(* A lane lets go of its entry, which may become acknowledged with an excuse.*)
LEMMA LettingGo ==
  ASSUME IndInv, NEW l \in Lanes, lane[l].pc # "idle", Release(l),
         UNCHANGED <<row, count, ghosts>>, spent' \in 0..MaxFaults,
         entry' \in [Deliveries -> Entries],
         \A d \in Deliveries :
            entry'[d].state = "acked" => entry[d].state = "acked" \/ Excused(d)
  PROVE  IndInv'
<1>1. lane' \in [Lanes -> LaneStates] /\ Others(l) /\ lane'[l].pc = "idle"
  BY Releasing DEF IndInv
<1>2. Typed'
  <2>1. TypeOK'
    BY <1>1 DEF IndInv, Typed, TypeOK, ghosts
  <2> QED
    BY <1>1, <2>1, RestingLane DEF IndInv, Typed
<1>3. Delivered'
  <2>1. \A d \in Deliveries : Excused(d) => Excused(d)'
    BY DEF Excused, ghosts
  <2>2. \A k \in Lanes : lane'[k].pc = "acking" => lane'[k] = lane[k]
    BY <1>1 DEF Others
  <2> QED
    BY <2>1, <2>2, KeepsDelivered DEF IndInv, ghosts
<1>4. NoNewWork
  BY <1>1 DEF NoNewWork, Others
<1>5. ClaimsHold' /\ DeadLetters'
  BY <1>4, KeepsClaims, KeepsDeadLetters DEF IndInv, ghosts
<1>6. Quarantines'
  BY <1>1, KeepsQuarantines DEF IndInv, ghosts, Others
<1> QED
  BY <1>2, <1>3, <1>5, <1>6 DEF IndInv

(* A delivery goes on to the acknowledgement with an excuse.                 *)
LEMMA GoingOn ==
  ASSUME IndInv, NEW l \in Lanes, lane[l].pc # "idle", Proceed(l, "acking"),
         UNCHANGED <<entry, row, count, spent>>,
         UNCHANGED <<runs, failures, takenOver, settled, errors, own>>,
         \/ quarantined' = quarantined
         \/ quarantined' = quarantined \cup {DeliveryOf(l)},
         ConsumptionOf(l) \in settled \/ DeliveryOf(l) \in quarantined',
         DeliveryOf(l) \in quarantined' => DeliveryOf(l) \in quarantined
            \/ errors[lane[l].msg] >= MaxDeliveries
  PROVE  IndInv'
<1>1. /\ lane' \in [Lanes -> LaneStates] /\ Others(l)
      /\ lane'[l].pc = "acking" /\ lane'[l].msg = lane[l].msg
  BY Proceeding DEF IndInv
<1>2. lane[l].msg \in Messages /\ DeliveryOf(l) \in Deliveries
      /\ Consumption(DeliveryOf(l)) = ConsumptionOf(l)
  BY AtWork DEF IndInv
<1>3. Typed'
  <2>1. TypeOK'
    BY <1>1, <1>2 DEF IndInv, Typed, TypeOK
  <2> QED
    BY <1>1, <1>2, <2>1, RestingLane DEF IndInv, Typed
<1>4. Delivered'
  <2>1. DeliveryOf(l)' = DeliveryOf(l)
    BY <1>1 DEF DeliveryOf
  <2>2. Excused(DeliveryOf(l))'
    BY <1>2, <2>1 DEF Excused, Consumption
  <2> QED
    BY <1>1, <2>2, KeepsDelivered DEF IndInv, Others
<1>5. NoNewWork
  BY <1>1 DEF NoNewWork, Others
<1>6. ClaimsHold' /\ DeadLetters'
  BY <1>5, KeepsClaims, KeepsDeadLetters DEF IndInv
<1>7. Quarantines'
  <2>1. DeliveryOf(l)[2] = lane[l].msg
    BY DEF DeliveryOf
  <2>2. \A d \in quarantined' : d \in quarantined \/ errors[d[2]] >= MaxDeliveries
    BY <2>1 DEF IndInv, Quarantines, QuarantineIsEarned
  <2> QED
    BY <1>1, <2>2, KeepsQuarantines DEF IndInv, Others
<1> QED
  BY <1>3, <1>4, <1>6, <1>7 DEF IndInv

(* A lane meets an error; rows and outcomes stay.                            *)
LEMMA MeetingAnError ==
  ASSUME IndInv, NEW l \in Lanes, NEW p \in BOOLEAN,
         lane[l].pc \notin {"idle", "failing"}, Raise(l, p),
         UNCHANGED <<entry, row, count, runs, failures, takenOver, settled, quarantined>>,
         spent' \in 0..MaxFaults
  PROVE  IndInv'
<1>1. /\ lane' \in [Lanes -> LaneStates] /\ Others(l)
      /\ lane'[l].pc = "failing" /\ lane'[l].msg = lane[l].msg
      /\ errors' \in [Messages -> 0..MaxDeliveries]
      /\ own' \in [Deliveries -> 0..MaxDeliveries]
  BY Raising DEF IndInv
<1>2. lane[l].msg \in Messages
  BY AtWork DEF IndInv
<1>3. Typed'
  <2>1. TypeOK'
    BY <1>1 DEF IndInv, Typed, TypeOK
  <2> QED
    BY <1>1, <1>2, <2>1, RestingLane DEF IndInv, Typed
<1>4. Delivered'
  BY <1>1, KeepsDelivered DEF IndInv, Others
<1>5. NoNewWork
  BY <1>1 DEF NoNewWork, Others
<1>6. ClaimsHold' /\ DeadLetters'
  BY <1>5, KeepsClaims, KeepsDeadLetters DEF IndInv
<1>7. Quarantines'
  BY ErrorsAreKept DEF IndInv
<1> QED
  BY <1>3, <1>4, <1>6, <1>7 DEF IndInv

(* A claim takes the row; the claim of a run that is not over is taken over. *)
LEMMA TakingTheRow ==
  ASSUME Typed, NEW c \in Consumptions, row[c].status \notin Final, ~InFlight(c),
         ClaimRow(c)
  PROVE  /\ row' \in [Consumptions -> Rows] /\ takenOver' \subseteq Consumptions
         /\ takenOver \subseteq takenOver'
         /\ \A b \in Consumptions : b # c => row'[b] = row[b]
         /\ row'[c].status = "PROCESSING" /\ row'[c].attempts = row[c].attempts
         /\ row[c].status = "PROCESSING" => c \in takenOver'
         /\ row[c].attempts < MaxAttempts
<1>1. row \in [Consumptions -> Rows] /\ takenOver \subseteq Consumptions
  BY DEF Typed, TypeOK
<1>2. row[c] \in Rows
  BY <1>1
<1>3. Claimed(row[c]) \in Rows /\ Claimed(row[c]).status = "PROCESSING"
      /\ Claimed(row[c]).attempts = row[c].attempts
  <2>1. 0 \in 0..AbandonAfter
    BY LimitsAssumption
  <2> QED
    BY <1>2, <2>1 DEF Claimed, Rows
<1>4. row' = [row EXCEPT ![c] = Claimed(row[c])]
  BY DEF ClaimRow
<1>5. row[c].status = "PROCESSING" => row[c].age = AbandonAfter
  BY <1>2, LimitsAssumption DEF InFlight, Rows
<1>6. row[c].attempts < MaxAttempts
  BY DEF Typed, AttemptsLeft
<1> QED
  BY <1>1, <1>3, <1>4, <1>5, <1>6 DEF ClaimRow

(* The rows after a claim have attempts left.                                *)
LEMMA ClaimedRowsHaveAttempts ==
  ASSUME Typed, NEW c \in Consumptions, row[c].attempts < MaxAttempts,
         \A b \in Consumptions : b # c => row'[b] = row[b],
         row'[c].attempts = row[c].attempts
  PROVE  \A b \in Consumptions : row'[b].status \notin Final => row'[b].attempts < MaxAttempts
BY DEF Typed, AttemptsLeft

(* Nobody works on a row that is claimed without being taken over.           *)
LEMMA NobodyWorks ==
  ASSUME Typed, ClaimsHold, NEW c \in Consumptions, c \notin takenOver,
         row[c].status \notin Final, row[c].status # "PROCESSING"
  PROVE  runs[c] = 0 /\ \A k \in Lanes : ~Works(k, c)
<1>1. Untroubled(c)
  BY DEF ClaimsHold
<1>2. runs[c] \in 0..2
  BY DEF Typed, TypeOK
<1> QED
  BY <1>1, <1>2 DEF Untroubled

(* The row as an outcome leaves it.                                          *)
LEMMA Recording ==
  ASSUME Typed, NEW l \in Lanes, lane[l].pc = "finishing", Record(l)
  PROVE  LET c == ConsumptionOf(l) IN
         /\ row' \in [Consumptions -> Rows] /\ settled' \subseteq Consumptions
         /\ settled \subseteq settled'
         /\ \A b \in Consumptions : b # c => row'[b] = row[b]
         /\ row'[c].status = lane[l].outcome
         /\ lane[l].outcome \in Final => c \in settled'
         /\ IF lane[l].outcome \in {"RETRYING", "DEAD_LETTER"}
            THEN row'[c].attempts = lane[l].attempt
            ELSE row'[c].attempts = row[c].attempts
<1> DEFINE c == ConsumptionOf(l)
           new == Recorded(row[c], l)
<1>1. row \in [Consumptions -> Rows] /\ lane[l] \in LaneStates /\ settled \subseteq Consumptions
  BY DEF Typed, TypeOK
<1>2. c \in Consumptions
  BY AtWork
<1>3. lane[l].outcome \in {"RETRYING"} \cup Final /\ lane[l].attempt \in 0..MaxAttempts
  BY <1>1 DEF LaneStates
<1>4. row[c] \in Rows
  BY <1>1, <1>2
<1>5. /\ new \in Rows /\ new.status = lane[l].outcome
      /\ new.attempts = IF lane[l].outcome \in {"RETRYING", "DEAD_LETTER"}
                        THEN lane[l].attempt ELSE row[c].attempts
  <2> DEFINE n == IF lane[l].outcome \in {"RETRYING", "DEAD_LETTER"}
                  THEN lane[l].attempt ELSE row[c].attempts
  <2>1. n \in 0..MaxAttempts
    BY <1>3, <1>4 DEF Rows
  <2>2. new = [row[c] EXCEPT !.status = lane[l].outcome, !.age = 0, !.attempts = n]
    BY DEF Recorded
  <2>3. lane[l].outcome \in {"ABSENT", "PROCESSING", "RETRYING"} \cup Final
    BY <1>3
  <2> HIDE DEF n, new
  <2>4. new \in Rows /\ new.status = lane[l].outcome /\ new.attempts = n
    <3> DEFINE r == row[c]
               s == lane[l].outcome
    <3>1. new = [r EXCEPT !.status = s, !.age = 0, !.attempts = n]
      BY <2>2
    <3>2. r \in Rows /\ s \in {"ABSENT", "PROCESSING", "RETRYING"} \cup Final
      BY <1>4, <2>3
    <3> HIDE DEF r, s
    <3>3. 0 \in 0..AbandonAfter
      BY LimitsAssumption
    <3>4. new \in Rows /\ new.status = s /\ new.attempts = n
      BY <2>1, <3>1, <3>2, <3>3 DEF Rows
    <3> QED
      BY <3>4 DEF s
  <2> QED
    BY <2>4 DEF n
<1>6. row' = [row EXCEPT ![c] = new]
  BY DEF Record
<1> HIDE DEF new
<1>7. row'[c] = new /\ \A b \in Consumptions : b # c => row'[b] = row[b]
  BY <1>1, <1>2, <1>6
<1>8. row' \in [Consumptions -> Rows]
  BY <1>1, <1>5, <1>6
<1>9. settled' \subseteq Consumptions /\ settled \subseteq settled'
      /\ (lane[l].outcome \in Final => c \in settled')
  BY <1>1, <1>2 DEF Record
<1> QED
  BY <1>5, <1>7, <1>8, <1>9

-----------------------------------------------------------------------------
(* Each action of Next preserves the invariant. *)

(* An appended entry is unread.                                              *)
LEMMA AppendStep ==
  ASSUME IndInv, NEW m \in Messages, Append(m)
  PROVE  IndInv'
<1>1. entry' \in [Deliveries -> Entries]
  BY DEF Append, IndInv, Typed, TypeOK, Entries
<1>2. \A d \in Deliveries : entry'[d].state = "acked" => entry[d].state = "acked"
  BY DEF Append, IndInv, Typed, TypeOK, Entries
<1>3. Typed'
  BY <1>1 DEF Append, ghosts, IndInv, Typed, TypeOK, AttemptsLeft, Occupied
<1>4. Delivered'
  BY <1>2, KeepsDelivered DEF Append, ghosts, IndInv
<1>5. NoNewWork
  BY DEF NoNewWork, Append
<1>6. ClaimsHold' /\ DeadLetters'
  BY <1>5, KeepsClaims, KeepsDeadLetters DEF Append, ghosts, IndInv
<1>7. Quarantines'
  BY KeepsQuarantines DEF Append, ghosts, IndInv
<1> QED
  BY <1>3, <1>4, <1>6, <1>7 DEF IndInv

(* A delivered entry is pending, and its lane has done nothing yet.          *)
LEMMA DeliverStep ==
  ASSUME IndInv, NEW l \in Lanes, NEW m \in Messages, Deliver(l, m)
  PROVE  IndInv'
<1> DEFINE new == [Resting EXCEPT !.pc = "delivered", !.msg = m]
<1>1. new \in LaneStates
  BY RestingStates
<1>2. new.pc = "delivered" /\ new.msg = m
  BY DEF Resting
<1>3. lane' = [lane EXCEPT ![l] = new]
  BY DEF Deliver
<1> HIDE DEF new
<1>4. /\ lane' \in [Lanes -> LaneStates] /\ Others(l)
      /\ lane'[l].pc = "delivered" /\ lane'[l].msg = m
  BY <1>1, <1>2, <1>3 DEF IndInv, Typed, TypeOK, Others
<1>5. /\ entry' \in [Deliveries -> Entries]
      /\ \A d \in Deliveries : entry'[d].state = "acked" => entry[d].state = "acked"
  <2>1. <<GroupOf[l], m>> \in Deliveries
    BY LanesAssumption DEF Deliveries
  <2>2. [state |-> "pending", idle |-> 0] \in Entries
    BY LimitsAssumption DEF Entries
  <2> QED
    BY <2>1, <2>2 DEF Deliver, IndInv, Typed, TypeOK
<1>6. Typed'
  <2>1. TypeOK'
    BY <1>4, <1>5 DEF Deliver, ghosts, IndInv, Typed, TypeOK
  <2> QED
    BY <1>4, <2>1, RestingLane DEF Deliver, IndInv, Typed
<1>7. Delivered'
  BY <1>4, <1>5, KeepsDelivered DEF Deliver, ghosts, IndInv, Others
<1>8. NoNewWork
  BY <1>4 DEF NoNewWork, Others
<1>9. ClaimsHold' /\ DeadLetters'
  BY <1>8, KeepsClaims, KeepsDeadLetters DEF Deliver, ghosts, IndInv
<1>10. Quarantines'
  BY <1>4, KeepsQuarantines DEF Deliver, ghosts, IndInv, Others
<1> QED
  BY <1>6, <1>7, <1>9, <1>10 DEF IndInv

(* A claim that succeeds starts a handler.                                   *)
LEMMA ClaimRunsStep ==
  ASSUME IndInv, NEW l \in Lanes, ClaimRuns(l)
  PROVE  IndInv'
<1> DEFINE c == ConsumptionOf(l)
<1>1. c \in Consumptions /\ lane[l].msg \in Messages /\ lane[l].pc = "delivered"
  BY AtWork DEF ClaimRuns, Claiming, IndInv
<1>2. /\ row' \in [Consumptions -> Rows] /\ takenOver' \subseteq Consumptions
      /\ takenOver \subseteq takenOver'
      /\ \A b \in Consumptions : b # c => row'[b] = row[b]
      /\ row'[c].status = "PROCESSING" /\ row'[c].attempts = row[c].attempts
      /\ row[c].status = "PROCESSING" => c \in takenOver'
      /\ row[c].attempts < MaxAttempts
  BY <1>1, TakingTheRow DEF ClaimRuns, IndInv
<1>3. row[c].attempts + 1 \in 0..MaxAttempts
  BY <1>1, <1>2, LimitsAssumption DEF IndInv, Typed, TypeOK, Rows
<1>4. /\ lane' \in [Lanes -> LaneStates] /\ Others(l)
      /\ lane'[l].pc = "running" /\ lane'[l].msg = lane[l].msg
      /\ lane'[l].attempt = row[c].attempts + 1
  BY <1>3 DEF ClaimRuns, IndInv, Typed, TypeOK, LaneStates, Others
<1>5. Typed'
  <2>1. TypeOK'
    BY <1>2, <1>4 DEF ClaimRuns, IndInv, Typed, TypeOK
  <2>2. AttemptsLeft'
    BY <1>1, <1>2, <1>4, ClaimedRowsHaveAttempts DEF IndInv, Typed, AttemptsLeft, Others
  <2>3. Occupied'
    BY <1>1, <1>4 DEF IndInv, Typed, Occupied, Others
  <2> QED
    BY <2>1, <2>2, <2>3 DEF Typed
<1>6. Delivered'
  <2>1. \A b \in Consumptions : row'[b].status \in Final => row[b].status \in Final
    BY <1>2 DEF Final
  <2> QED
    BY <1>4, <2>1, KeepsDelivered DEF ClaimRuns, IndInv, Others
<1>7. ClaimsHold'
  <2> SUFFICES ASSUME NEW b \in Consumptions, b \notin takenOver'
               PROVE  Untroubled(b)'
    BY DEF ClaimsHold
  <2>1. b \notin takenOver /\ Untroubled(b)
    BY <1>2 DEF IndInv, ClaimsHold
  <2>2. \A k \in Lanes : k # l => (Works(k, b)' <=> Works(k, b))
    BY <1>4 DEF Works, Running, ConsumptionOf, Others
  <2>3. Works(l, b)' <=> b = c
    BY <1>4 DEF Works, Running, ConsumptionOf
  <2>4. CASE b = c
    <3>1. runs[b] = 0 /\ \A k \in Lanes : ~Works(k, b)
      BY <1>2, <2>1, <2>4, NobodyWorks DEF ClaimRuns, IndInv
    <3>2. \A k \in Lanes : Works(k, b)' => k = l
      BY <2>2, <3>1
    <3>3. runs'[b] = 0 /\ row'[b].status = "PROCESSING"
      BY <1>2, <2>4, <3>1 DEF ClaimRuns
    <3> QED
      BY <3>2, <3>3 DEF Untroubled
  <2>5. CASE b # c
    <3>1. \A k \in Lanes : Works(k, b)' => Works(k, b) /\ lane'[k] = lane[k]
      BY <1>4, <2>2, <2>3, <2>5 DEF Others
    <3>2. row'[b] = row[b] /\ runs' = runs
      BY <1>2, <2>5 DEF ClaimRuns
    <3> QED
      BY <2>1, <3>1, <3>2 DEF Untroubled
  <2> QED
    BY <2>4, <2>5
<1>8. DeadLetters'
  <2>1. DeadLetterIsEarned'
    BY <1>2 DEF ClaimRuns, IndInv, DeadLetters, DeadLetterIsEarned
  <2>2. row[c].attempts <= failures[c]
    BY <1>1 DEF IndInv, DeadLetters, DeadLetterIsEarned
  <2>3. lane'[l].attempt <= failures[c] + 1
    BY <1>1, <1>4, <2>2 DEF IndInv, Typed, TypeOK, Rows
  <2>4. AttemptsAreFailures'
    BY <1>4, <2>3 DEF ClaimRuns, IndInv, DeadLetters, AttemptsAreFailures, Others,
       ConsumptionOf
  <2> QED
    BY <2>1, <2>4 DEF DeadLetters
<1>9. Quarantines'
  BY <1>4, KeepsQuarantines DEF ClaimRuns, IndInv, Others
<1> QED
  BY <1>5, <1>6, <1>7, <1>8, <1>9 DEF IndInv

(* A settled event is acknowledged.                                          *)
LEMMA ClaimSettledStep ==
  ASSUME IndInv, NEW l \in Lanes, ClaimSettled(l)
  PROVE  IndInv'
<1>1. lane[l].pc = "delivered"
  BY DEF ClaimSettled, Claiming
<1>2. ConsumptionOf(l) \in settled
  BY <1>1, AtWork DEF ClaimSettled, IndInv, Delivered, OutcomesRecorded
<1> QED
  BY <1>1, <1>2, GoingOn DEF ClaimSettled, ghosts

(* A held claim: the lane lets go.                                           *)
LEMMA ClaimHeldStep ==
  ASSUME IndInv, NEW l \in Lanes, ClaimHeld(l)
  PROVE  IndInv'
BY LettingGo DEF ClaimHeld, Claiming, IndInv, Typed, TypeOK

(* A claim whose transaction raises may have taken the row.                  *)
LEMMA ClaimFailsStep ==
  ASSUME IndInv, NEW l \in Lanes, ClaimFails(l)
  PROVE  IndInv'
<1> DEFINE c == ConsumptionOf(l)
<1>1. c \in Consumptions /\ lane[l].msg \in Messages /\ lane[l].pc = "delivered"
  BY AtWork DEF ClaimFails, Claiming, IndInv
<1>2. spent' \in 0..MaxFaults /\ Raise(l, FALSE)
  BY Striking DEF ClaimFails, IndInv
<1>3. CASE UNCHANGED <<row, takenOver>>
  BY <1>1, <1>2, <1>3, MeetingAnError DEF ClaimFails
<1>4. CASE row[c].status \notin Final /\ ~InFlight(c) /\ ClaimRow(c)
  <2>1. /\ row' \in [Consumptions -> Rows] /\ takenOver' \subseteq Consumptions
        /\ takenOver \subseteq takenOver'
        /\ \A b \in Consumptions : b # c => row'[b] = row[b]
        /\ row'[c].status = "PROCESSING" /\ row'[c].attempts = row[c].attempts
        /\ row[c].status = "PROCESSING" => c \in takenOver'
        /\ row[c].attempts < MaxAttempts
    BY <1>1, <1>4, TakingTheRow DEF IndInv
  <2>2. /\ lane' \in [Lanes -> LaneStates] /\ Others(l)
        /\ lane'[l].pc = "failing" /\ lane'[l].msg = lane[l].msg
        /\ errors' \in [Messages -> 0..MaxDeliveries]
        /\ own' \in [Deliveries -> 0..MaxDeliveries]
    BY <1>1, <1>2, Raising DEF IndInv
  <2>3. Typed'
    <3>1. TypeOK'
      BY <1>2, <2>1, <2>2 DEF ClaimFails, IndInv, Typed, TypeOK
    <3>2. AttemptsLeft'
      BY <1>1, <2>1, <2>2, ClaimedRowsHaveAttempts DEF IndInv, Typed, AttemptsLeft, Others
    <3>3. Occupied'
      BY <1>1, <2>2 DEF IndInv, Typed, Occupied, Others
    <3> QED
      BY <3>1, <3>2, <3>3 DEF Typed
  <2>4. Delivered'
    <3>1. \A b \in Consumptions : row'[b].status \in Final => row[b].status \in Final
      BY <2>1 DEF Final
    <3> QED
      BY <2>2, <3>1, KeepsDelivered DEF ClaimFails, IndInv, Others
  <2>5. ClaimsHold'
    <3> SUFFICES ASSUME NEW b \in Consumptions, b \notin takenOver'
                 PROVE  Untroubled(b)'
      BY DEF ClaimsHold
    <3>1. b \notin takenOver /\ Untroubled(b)
      BY <2>1 DEF IndInv, ClaimsHold
    <3>2. \A k \in Lanes : Works(k, b)' => Works(k, b) /\ lane'[k] = lane[k]
      BY <2>2 DEF Works, Running, ConsumptionOf, Others
    <3>3. CASE b = c
      <4>1. runs[b] = 0 /\ \A k \in Lanes : ~Works(k, b)
        BY <1>4, <2>1, <3>1, <3>3, NobodyWorks DEF IndInv
      <4> QED
        BY <3>2, <4>1 DEF Untroubled, ClaimFails
    <3>4. CASE b # c
      BY <2>1, <3>1, <3>2, <3>4 DEF Untroubled, ClaimFails
    <3> QED
      BY <3>3, <3>4
  <2>6. DeadLetters'
    <3>1. DeadLetterIsEarned'
      BY <2>1 DEF ClaimFails, IndInv, DeadLetters, DeadLetterIsEarned
    <3>2. AttemptsAreFailures'
      BY <2>2 DEF ClaimFails, IndInv, DeadLetters, AttemptsAreFailures, Others, ConsumptionOf
    <3> QED
      BY <3>1, <3>2 DEF DeadLetters
  <2>7. Quarantines'
    BY <1>1, <1>2, ErrorsAreKept DEF ClaimFails, IndInv
  <2> QED
    BY <2>3, <2>4, <2>5, <2>6, <2>7 DEF IndInv
<1> QED
  BY <1>3, <1>4 DEF ClaimFails

(* An entry that does not decode is an error.                                *)
LEMMA DecodeFailsStep ==
  ASSUME IndInv, NEW l \in Lanes, DecodeFails(l)
  PROVE  IndInv'
BY MeetingAnError DEF DecodeFails, IndInv, Typed, TypeOK

(* A handler that hangs is an error; its row stays as it is.                 *)
LEMMA HandlerTimesOutStep ==
  ASSUME IndInv, NEW l \in Lanes, HandlerTimesOut(l)
  PROVE  IndInv'
BY MeetingAnError DEF HandlerTimesOut, IndInv, Typed, TypeOK

(* What a handler's end leaves of its lane.                                  *)
LEMMA FinishingLane ==
  ASSUME Typed, NEW l \in Lanes, NEW outcome \in {"RETRYING"} \cup Final,
         lane[l].pc = "running", Finishing(l, outcome)
  PROVE  /\ lane' \in [Lanes -> LaneStates] /\ Others(l)
         /\ lane'[l].pc = "finishing" /\ lane'[l].outcome = outcome
         /\ lane'[l].msg = lane[l].msg /\ lane'[l].attempt = lane[l].attempt
         /\ ConsumptionOf(l)' = ConsumptionOf(l)
BY DEF Finishing, Typed, TypeOK, LaneStates, Others, ConsumptionOf

(* A handler that ends and has still to be recorded: every part but the ones *)
(* about claims and failures.                                                *)
LEMMA HandlerEnds ==
  ASSUME IndInv, NEW l \in Lanes, NEW outcome \in {"RETRYING"} \cup Final,
         lane[l].pc = "running", Finishing(l, outcome),
         outcome = "RETRYING" => lane[l].attempt < MaxAttempts,
         UNCHANGED <<entry, row, count, spent, takenOver, settled, quarantined, errors, own>>,
         runs' \in [Consumptions -> 0..2], failures' \in [Consumptions -> 0..MaxAttempts]
  PROVE  Typed' /\ Delivered' /\ Quarantines'
<1>1. /\ lane' \in [Lanes -> LaneStates] /\ Others(l)
      /\ lane'[l].pc = "finishing" /\ lane'[l].outcome = outcome
      /\ lane'[l].msg = lane[l].msg /\ lane'[l].attempt = lane[l].attempt
  BY FinishingLane DEF IndInv
<1>2. Typed'
  <2>1. TypeOK'
    BY <1>1 DEF IndInv, Typed, TypeOK
  <2>2. AttemptsLeft'
    BY <1>1 DEF IndInv, Typed, AttemptsLeft, Others
  <2>3. Occupied'
    BY <1>1 DEF IndInv, Typed, Occupied, Others
  <2> QED
    BY <2>1, <2>2, <2>3 DEF Typed
<1>3. Delivered'
  BY <1>1, KeepsDelivered DEF IndInv, Others
<1>4. Quarantines'
  BY <1>1, KeepsQuarantines DEF IndInv, Others
<1> QED
  BY <1>2, <1>3, <1>4

(* The event of a running handler has not been handled, or was taken over.   *)
LEMMA NotHandledYet ==
  ASSUME IndInv, NEW l \in Lanes, lane[l].pc = "running",
         ConsumptionOf(l) \notin takenOver
  PROVE  runs[ConsumptionOf(l)] = 0
<1> DEFINE c == ConsumptionOf(l)
<1>1. c \in Consumptions
  BY AtWork DEF IndInv
<1>2. Untroubled(c) /\ Works(l, c)
  BY <1>1 DEF IndInv, ClaimsHold, Works, Running
<1>3. runs[c] \in 0..2
  BY <1>1 DEF IndInv, Typed, TypeOK
<1> QED
  BY <1>2, <1>3 DEF Untroubled

(* A handler succeeds: once, unless its claim was taken over.                *)
LEMMA HandlerSucceedsStep ==
  ASSUME IndInv, NEW l \in Lanes, HandlerSucceeds(l)
  PROVE  IndInv'
<1> DEFINE c == ConsumptionOf(l)
<1>1. c \in Consumptions /\ lane[l].pc = "running" /\ "COMPLETED" \in Final
  BY AtWork DEF HandlerSucceeds, IndInv, Final
<1>2. /\ lane' \in [Lanes -> LaneStates] /\ Others(l)
      /\ lane'[l].pc = "finishing" /\ lane'[l].outcome = "COMPLETED"
      /\ lane'[l].msg = lane[l].msg /\ ConsumptionOf(l)' = c
  BY <1>1, FinishingLane DEF HandlerSucceeds, IndInv
<1>3. /\ runs' \in [Consumptions -> 0..2]
      /\ \A b \in Consumptions : b # c => runs'[b] = runs[b]
      /\ runs[c] = 0 => runs'[c] = 1
  BY <1>1 DEF HandlerSucceeds, UpTo, IndInv, Typed, TypeOK
<1>4. Typed' /\ Delivered' /\ Quarantines'
  BY <1>1, <1>3, HandlerEnds DEF HandlerSucceeds, IndInv, Typed, TypeOK
<1>5. ClaimsHold'
  <2> SUFFICES ASSUME NEW b \in Consumptions, b \notin takenOver'
               PROVE  Untroubled(b)'
    BY DEF ClaimsHold
  <2>1. b \notin takenOver /\ Untroubled(b)
    BY DEF HandlerSucceeds, IndInv, ClaimsHold
  <2>2. \A k \in Lanes : k # l => (Works(k, b)' <=> Works(k, b)) /\ lane'[k] = lane[k]
    BY <1>2 DEF Works, Running, ConsumptionOf, Others
  <2>3. Works(l, b)' <=> Works(l, b)
    BY <1>1, <1>2 DEF Works, Running
  <2>4. CASE b = c
    <3>1. Works(l, b)
      BY <1>1, <2>4 DEF Works, Running
    <3>2. runs'[b] = 1
      BY <1>1, <1>3, <2>1, <2>4, NotHandledYet
    <3>3. \A k \in Lanes : Works(k, b)' => k = l
      BY <2>1, <2>2, <3>1 DEF Untroubled
    <3>4. row'[b].status = "PROCESSING"
      BY <2>1, <3>1 DEF Untroubled, HandlerSucceeds
    <3> QED
      BY <1>2, <3>2, <3>3, <3>4 DEF Untroubled
  <2>5. CASE b # c
    <3>1. ~Works(l, b)
      BY <2>5 DEF Works
    <3> QED
      BY <1>3, <2>1, <2>2, <2>3, <2>5, <3>1 DEF Untroubled, HandlerSucceeds
  <2> QED
    BY <2>4, <2>5
<1>6. DeadLetters'
  BY <1>2 DEF HandlerSucceeds, IndInv, DeadLetters, DeadLetterIsEarned,
     AttemptsAreFailures, Others, ConsumptionOf
<1> QED
  BY <1>4, <1>5, <1>6 DEF IndInv

(* Who runs an event is not changed by a handler that ends without success.  *)
LEMMA EndsWithoutSuccess ==
  ASSUME IndInv, NEW l \in Lanes, lane[l].pc = "running", Others(l),
         lane'[l].pc = "finishing", ConsumptionOf(l)' = ConsumptionOf(l),
         UNCHANGED <<row, runs, takenOver>>
  PROVE  ClaimsHold'
<1> SUFFICES ASSUME NEW b \in Consumptions, b \notin takenOver'
             PROVE  Untroubled(b)'
  BY DEF ClaimsHold
<1>1. b \notin takenOver /\ Untroubled(b)
  BY DEF IndInv, ClaimsHold
<1>2. \A k \in Lanes : Works(k, b)' <=> Works(k, b)
  BY DEF Works, Running, ConsumptionOf, Others
<1>3. Works(l, b) => runs[b] # 1
  BY <1>1 DEF Untroubled
<1> QED
  BY <1>1, <1>2, <1>3 DEF Untroubled, Others

(* A handler that rejects the event ends without success or failure.         *)
LEMMA HandlerRejectsStep ==
  ASSUME IndInv, NEW l \in Lanes, HandlerRejects(l)
  PROVE  IndInv'
<1>1. lane[l].pc = "running" /\ "TERMINAL" \in Final
  BY DEF HandlerRejects, Final
<1>2. /\ lane' \in [Lanes -> LaneStates] /\ Others(l)
      /\ lane'[l].pc = "finishing" /\ lane'[l].outcome = "TERMINAL"
      /\ lane'[l].msg = lane[l].msg /\ ConsumptionOf(l)' = ConsumptionOf(l)
  BY <1>1, FinishingLane DEF HandlerRejects, IndInv
<1>3. Typed' /\ Delivered' /\ Quarantines'
  BY <1>1, HandlerEnds DEF HandlerRejects, ghosts, IndInv, Typed, TypeOK
<1>4. ClaimsHold'
  BY <1>1, <1>2, EndsWithoutSuccess DEF HandlerRejects, ghosts
<1>5. DeadLetters'
  BY <1>2 DEF HandlerRejects, ghosts, IndInv, DeadLetters, DeadLetterIsEarned,
     AttemptsAreFailures, Others, ConsumptionOf
<1> QED
  BY <1>3, <1>4, <1>5 DEF IndInv

(* A handler that fails: the attempt it counts is one of the failures.       *)
LEMMA HandlerFailsStep ==
  ASSUME IndInv, NEW l \in Lanes, HandlerFails(l)
  PROVE  IndInv'
<1> DEFINE c == ConsumptionOf(l)
           outcome == OutcomeOfFailure(l)
<1>1. c \in Consumptions /\ lane[l].pc = "running"
  BY AtWork DEF HandlerFails, IndInv
<1>2. lane[l].attempt \in 0..MaxAttempts /\ lane[l].attempt <= failures[c] + 1
      /\ failures[c] \in 0..MaxAttempts /\ MaxAttempts \in Nat
  BY <1>1, LimitsAssumption
     DEF IndInv, Typed, TypeOK, LaneStates, DeadLetters, AttemptsAreFailures
<1>3. /\ outcome \in {"RETRYING", "DEAD_LETTER"} /\ outcome \in {"RETRYING"} \cup Final
      /\ outcome = "RETRYING" => lane[l].attempt < MaxAttempts
      /\ outcome = "DEAD_LETTER" => lane[l].attempt = MaxAttempts
  BY <1>2 DEF OutcomeOfFailure, Final
<1> HIDE DEF outcome
<1>4. /\ lane' \in [Lanes -> LaneStates] /\ Others(l)
      /\ lane'[l].pc = "finishing" /\ lane'[l].outcome = outcome
      /\ lane'[l].msg = lane[l].msg /\ lane'[l].attempt = lane[l].attempt
      /\ ConsumptionOf(l)' = c
  BY <1>1, <1>3, FinishingLane DEF HandlerFails, IndInv, outcome
<1>5. /\ failures' \in [Consumptions -> 0..MaxAttempts]
      /\ \A b \in Consumptions : failures[b] <= failures'[b]
      /\ lane[l].attempt <= failures'[c]
  <2>1. failures' = [failures EXCEPT ![c] = UpTo(MaxAttempts, failures[c])]
    BY DEF HandlerFails
  <2>2. /\ UpTo(MaxAttempts, failures[c]) \in 0..MaxAttempts
        /\ failures[c] <= UpTo(MaxAttempts, failures[c])
        /\ lane[l].attempt <= UpTo(MaxAttempts, failures[c])
    BY <1>2 DEF UpTo
  <2>3. failures \in [Consumptions -> 0..MaxAttempts]
    BY DEF IndInv, Typed, TypeOK
  <2> QED
    BY <1>1, <2>1, <2>2, <2>3
<1>6. Typed' /\ Delivered' /\ Quarantines'
  BY <1>1, <1>3, <1>5, HandlerEnds DEF HandlerFails, IndInv, Typed, TypeOK, outcome
<1>7. ClaimsHold'
  BY <1>1, <1>4, EndsWithoutSuccess DEF HandlerFails
<1>8. DeadLetters'
  <2>1. failures \in [Consumptions -> 0..MaxAttempts] /\ MaxAttempts \in Nat
        /\ row \in [Consumptions -> Rows] /\ UNCHANGED row
    BY LimitsAssumption DEF HandlerFails, IndInv, Typed, TypeOK
  <2>2. DeadLetterIsEarned'
    BY <1>5, <2>1 DEF Rows, IndInv, DeadLetters, DeadLetterIsEarned
  <2>3. ASSUME NEW k \in Lanes, k # l
        PROVE  /\ lane'[k].pc = "running" => lane'[k].attempt <= failures'[ConsumptionOf(k)'] + 1
               /\ lane'[k].pc = "finishing" /\ lane'[k].outcome \in {"RETRYING", "DEAD_LETTER"}
                     => lane'[k].attempt <= failures'[ConsumptionOf(k)']
               /\ lane'[k].pc = "finishing" /\ lane'[k].outcome = "DEAD_LETTER"
                     => lane'[k].attempt = MaxAttempts
    <3>1. lane'[k] = lane[k] /\ ConsumptionOf(k)' = ConsumptionOf(k)
      BY <1>4, <2>3 DEF Others, ConsumptionOf
    <3>2. lane[k].attempt \in 0..MaxAttempts
      BY DEF IndInv, Typed, TypeOK, LaneStates
    <3>3. lane[k].pc # "idle" => ConsumptionOf(k) \in Consumptions
      BY AtWork DEF IndInv
    <3> QED
      BY <1>5, <2>1, <3>1, <3>2, <3>3 DEF IndInv, DeadLetters, AttemptsAreFailures
  <2>4. AttemptsAreFailures'
    BY <1>3, <1>4, <1>5, <2>3 DEF AttemptsAreFailures
  <2> QED
    BY <2>2, <2>4 DEF DeadLetters
<1> QED
  BY <1>6, <1>7, <1>8 DEF IndInv

(* An outcome that is recorded: every part but the one about errors.         *)
LEMMA OutcomeRecorded ==
  ASSUME IndInv, NEW l \in Lanes, lane[l].pc = "finishing", Record(l),
         lane' \in [Lanes -> LaneStates], Others(l),
         lane'[l].msg = lane[l].msg, lane'[l].pc \in {"acking", "failing"},
         lane'[l].pc = "acking" => lane[l].outcome \in Final,
         UNCHANGED <<entry, count, runs, failures, takenOver, quarantined>>,
         spent' \in 0..MaxFaults,
         errors' \in [Messages -> 0..MaxDeliveries],
         own' \in [Deliveries -> 0..MaxDeliveries]
  PROVE  Typed' /\ Delivered' /\ ClaimsHold' /\ DeadLetters'
<1> DEFINE c == ConsumptionOf(l)
<1>1. /\ c \in Consumptions /\ lane[l].msg \in Messages
      /\ Consumption(DeliveryOf(l)) = c
  BY AtWork DEF IndInv
<1>2. /\ row' \in [Consumptions -> Rows] /\ settled' \subseteq Consumptions
      /\ settled \subseteq settled'
      /\ \A b \in Consumptions : b # c => row'[b] = row[b]
      /\ row'[c].status = lane[l].outcome
      /\ lane[l].outcome \in Final => c \in settled'
      /\ IF lane[l].outcome \in {"RETRYING", "DEAD_LETTER"}
         THEN row'[c].attempts = lane[l].attempt
         ELSE row'[c].attempts = row[c].attempts
  BY Recording DEF IndInv
<1>3. lane[l].outcome \in {"RETRYING"} \cup Final
  BY DEF IndInv, Typed, TypeOK, LaneStates
<1>4. Typed'
  <2>1. TypeOK'
    BY <1>2 DEF IndInv, Typed, TypeOK
  <2>2. row'[c].status \notin Final => row'[c].attempts < MaxAttempts
    BY <1>2, <1>3 DEF IndInv, Typed, AttemptsLeft
  <2>3. AttemptsLeft'
    BY <1>2, <2>2 DEF IndInv, Typed, AttemptsLeft, Others
  <2>4. Occupied'
    BY <1>1 DEF IndInv, Typed, Occupied, Others
  <2> QED
    BY <2>1, <2>3, <2>4 DEF Typed
<1>5. Delivered'
  <2>1. \A b \in Consumptions : row'[b].status \in Final =>
           row[b].status \in Final \/ b \in settled'
    BY <1>2
  <2>2. lane'[l].pc = "acking" => Excused(DeliveryOf(l))'
    <3>1. DeliveryOf(l)' = DeliveryOf(l)
      BY DEF DeliveryOf
    <3> QED
      BY <1>1, <1>2, <3>1 DEF Excused, Consumption
  <2>3. \A k \in Lanes : lane'[k].pc = "acking" =>
           lane'[k] = lane[k] \/ Excused(DeliveryOf(k))'
    BY <2>2 DEF Others
  <2> QED
    BY <1>2, <2>1, <2>3, KeepsDelivered DEF IndInv
<1>6. ClaimsHold'
  <2> SUFFICES ASSUME NEW b \in Consumptions, b \notin takenOver'
               PROVE  Untroubled(b)'
    BY DEF ClaimsHold
  <2>1. b \notin takenOver /\ Untroubled(b)
    BY DEF IndInv, ClaimsHold
  <2>2. \A k \in Lanes : Works(k, b)' => k # l /\ Works(k, b) /\ lane'[k] = lane[k]
    BY DEF Works, Running, ConsumptionOf, Others
  <2>3. CASE b = c
    <3>1. Works(l, b)
      BY <2>3 DEF Works, Running
    <3>2. \A k \in Lanes : ~Works(k, b)'
      BY <2>1, <2>2, <3>1 DEF Untroubled
    <3>3. runs[b] = 1 => lane[l].outcome = "COMPLETED"
      BY <2>1, <3>1 DEF Untroubled
    <3>4. runs[b] = 1 => row'[b].status \in Final
      BY <1>2, <2>3, <3>3 DEF Final
    <3>5. runs'[b] = runs[b] /\ runs[b] <= 1
      BY <2>1 DEF Untroubled
    <3> QED
      BY <3>2, <3>4, <3>5 DEF Untroubled
  <2>4. CASE b # c
    <3>1. row'[b] = row[b] /\ runs' = runs
      BY <1>2, <2>4
    <3> QED
      BY <2>1, <2>2, <3>1 DEF Untroubled
  <2> QED
    BY <2>3, <2>4
<1>7. DeadLetters'
  <2>1. lane[l].outcome \in {"RETRYING", "DEAD_LETTER"} => lane[l].attempt <= failures[c]
    BY DEF IndInv, DeadLetters, AttemptsAreFailures
  <2>2. lane[l].outcome = "DEAD_LETTER" => failures[c] >= MaxAttempts
    BY <2>1 DEF IndInv, DeadLetters, AttemptsAreFailures
  <2>3. row'[c].attempts <= failures[c]
    BY <1>1, <1>2, <2>1 DEF IndInv, DeadLetters, DeadLetterIsEarned
  <2>4. DeadLetterIsEarned'
    BY <1>2, <2>2, <2>3 DEF IndInv, DeadLetters, DeadLetterIsEarned
  <2>5. AttemptsAreFailures'
    BY DEF IndInv, DeadLetters, AttemptsAreFailures, Others, ConsumptionOf
  <2> QED
    BY <2>4, <2>5 DEF DeadLetters
<1> QED
  BY <1>4, <1>5, <1>6, <1>7

(* A recorded outcome is acknowledged if it is final and raised if not.      *)
LEMMA FinishStep ==
  ASSUME IndInv, NEW l \in Lanes, Finish(l)
  PROVE  IndInv'
<1>1. lane[l].pc = "finishing" /\ Record(l) /\ lane[l].msg \in Messages
  BY AtWork DEF Finish, IndInv
<1>2. spent' \in 0..MaxFaults
  BY DEF Finish, IndInv, Typed, TypeOK
<1>3. CASE lane[l].outcome \in Final
  <2>1. /\ lane' \in [Lanes -> LaneStates] /\ Others(l)
        /\ lane'[l].pc = "acking" /\ lane'[l].msg = lane[l].msg
    BY <1>1, <1>3, Proceeding DEF Finish, IndInv
  <2>2. Typed' /\ Delivered' /\ ClaimsHold' /\ DeadLetters'
    BY <1>1, <1>2, <1>3, <2>1, OutcomeRecorded DEF Finish, IndInv, Typed, TypeOK
  <2>3. Quarantines'
    BY <1>3, <2>1, KeepsQuarantines DEF Finish, IndInv, Others
  <2> QED
    BY <2>2, <2>3 DEF IndInv
<1>4. CASE lane[l].outcome \notin Final
  <2>1. PICK p \in BOOLEAN : Raise(l, p)
    BY <1>4 DEF Finish
  <2>2. /\ lane' \in [Lanes -> LaneStates] /\ Others(l)
        /\ lane'[l].pc = "failing" /\ lane'[l].msg = lane[l].msg
        /\ errors' \in [Messages -> 0..MaxDeliveries]
        /\ own' \in [Deliveries -> 0..MaxDeliveries]
    BY <1>1, <2>1, Raising DEF IndInv
  <2>3. Typed' /\ Delivered' /\ ClaimsHold' /\ DeadLetters'
    BY <1>1, <1>2, <2>2, OutcomeRecorded DEF Finish
  <2>4. Quarantines'
    BY <1>1, <2>1, ErrorsAreKept DEF Finish, IndInv
  <2> QED
    BY <2>3, <2>4 DEF IndInv
<1> QED
  BY <1>3, <1>4

(* A record that raises may have taken effect.                               *)
LEMMA FinishFailsStep ==
  ASSUME IndInv, NEW l \in Lanes, FinishFails(l)
  PROVE  IndInv'
<1>1. lane[l].pc = "finishing" /\ lane[l].msg \in Messages
  BY AtWork DEF FinishFails, IndInv
<1>2. spent' \in 0..MaxFaults
  <2>1. UNCHANGED spent \/ Strike
    BY DEF FinishFails
  <2> QED
    BY <2>1, Striking DEF IndInv, Typed, TypeOK
<1>3. PICK p \in BOOLEAN : Raise(l, p)
  BY DEF FinishFails
<1>4. CASE UNCHANGED <<row, settled>>
  BY <1>1, <1>2, <1>3, <1>4, MeetingAnError DEF FinishFails
<1>5. CASE Record(l)
  <2>1. /\ lane' \in [Lanes -> LaneStates] /\ Others(l)
        /\ lane'[l].pc = "failing" /\ lane'[l].msg = lane[l].msg
        /\ errors' \in [Messages -> 0..MaxDeliveries]
        /\ own' \in [Deliveries -> 0..MaxDeliveries]
    BY <1>1, <1>3, Raising DEF IndInv
  <2>2. Typed' /\ Delivered' /\ ClaimsHold' /\ DeadLetters'
    BY <1>1, <1>2, <1>5, <2>1, OutcomeRecorded DEF FinishFails
  <2>3. Quarantines'
    BY <1>1, <1>3, ErrorsAreKept DEF FinishFails, IndInv
  <2> QED
    BY <2>2, <2>3 DEF IndInv
<1> QED
  BY <1>4, <1>5 DEF FinishFails

(* A permanent error is given up on.                                         *)
LEMMA QuarantinePermanentStep ==
  ASSUME IndInv, NEW l \in Lanes, QuarantinePermanent(l)
  PROVE  IndInv'
<1>1. /\ lane[l].pc = "failing" /\ lane[l].permanent /\ Proceed(l, "acking")
      /\ quarantined' = quarantined \cup {DeliveryOf(l)}
  BY DEF QuarantinePermanent, GiveUp
<1>2. errors[lane[l].msg] = MaxDeliveries /\ MaxDeliveries \in Nat
  BY <1>1, LimitsAssumption DEF IndInv, Quarantines, PermanentIsEnough
<1>3. errors[lane[l].msg] >= MaxDeliveries
  BY <1>2
<1> QED
  BY <1>1, <1>3, GoingOn DEF QuarantinePermanent

(* Counting an error moves it from the lane to the counter.                  *)
LEMMA CountFailureStep ==
  ASSUME IndInv, NEW l \in Lanes, CountFailure(l)
  PROVE  IndInv'
<1>. PICK m0 \in Messages : m0 = lane[l].msg
  BY AtWork DEF CountFailure, IndInv
<1>1. /\ lane[l].pc = "failing" /\ ~lane[l].permanent
      /\ m0 \in Messages /\ DeliveryOf(l) \in Deliveries
      /\ Consumption(DeliveryOf(l)) = ConsumptionOf(l) /\ DeliveryOf(l)[2] = m0
  BY AtWork DEF CountFailure, IndInv, DeliveryOf
<1>2. /\ errors \in [Messages -> 0..MaxDeliveries] /\ count \in [Messages -> 0..MaxDeliveries]
      /\ MaxDeliveries \in Nat \ {0}
  BY LimitsAssumption DEF IndInv, Typed, TypeOK
<1>3. /\ count' \in [Messages -> 0..MaxDeliveries]
      /\ \A m \in Messages : m # m0 => count'[m] = count[m]
      /\ count'[m0] <= count[m0] + 1
  <2>1. count' = [count EXCEPT ![m0] = UpTo(MaxDeliveries, count[m0])]
    BY DEF CountFailure
  <2>2. UpTo(MaxDeliveries, count[m0]) \in 0..MaxDeliveries
        /\ UpTo(MaxDeliveries, count[m0]) <= count[m0] + 1
    BY <1>1, <1>2 DEF UpTo
  <2> QED
    BY <1>1, <1>2, <2>1, <2>2
<1>4. errors[m0] = MaxDeliveries \/ count[m0] + Cardinality(Uncounted(m0)) <= errors[m0]
  BY <1>1 DEF IndInv, Quarantines, CountedOnce
<1>5. l \in Uncounted(m0)
  BY <1>1 DEF Uncounted
<1>6. Cardinality(Uncounted(m0) \ {l}) = Cardinality(Uncounted(m0)) - 1
      /\ Cardinality(Uncounted(m0) \ {l}) \in Nat
  BY <1>5, UncountedFinite, FS_RemoveElement, FS_CardinalityType
<1>7. count'[m0] >= MaxDeliveries => errors[m0] >= MaxDeliveries
  BY <1>1, <1>2, <1>3, <1>4, <1>6, UncountedFinite
<1>8. /\ lane' \in [Lanes -> LaneStates] /\ Others(l) /\ lane'[l].pc \in {"idle", "acking"}
      /\ lane'[l].pc = "acking" => /\ lane'[l].msg = m0
                                   /\ quarantined' = quarantined \cup {DeliveryOf(l)}
                                   /\ count'[m0] >= MaxDeliveries
      /\ lane'[l].pc = "idle" => quarantined' = quarantined
  <2>1. CASE count'[m0] >= MaxDeliveries
    BY <1>1, <2>1, Proceeding DEF CountFailure, GiveUp, IndInv
  <2>2. CASE ~(count'[m0] >= MaxDeliveries)
    BY <1>1, <2>2, Releasing DEF CountFailure, IndInv
  <2> QED
    BY <2>1, <2>2
<1>9. /\ quarantined \subseteq quarantined' /\ quarantined' \subseteq Deliveries
      /\ \A d \in quarantined' : d \in quarantined \/ errors[d[2]] >= MaxDeliveries
  BY <1>1, <1>7, <1>8 DEF IndInv, Typed, TypeOK
<1>10. Typed'
  <2>1. TypeOK'
    BY <1>3, <1>8, <1>9 DEF CountFailure, IndInv, Typed, TypeOK
  <2> QED
    BY <1>1, <1>8, <2>1, RestingLane DEF CountFailure, IndInv, Typed
<1>11. Delivered'
  <2>1. lane'[l].pc = "acking" => Excused(DeliveryOf(l))'
    BY <1>8 DEF Excused, DeliveryOf
  <2> QED
    BY <1>8, <1>9, <2>1, KeepsDelivered DEF CountFailure, IndInv, Others
<1>12. NoNewWork
  BY <1>8 DEF NoNewWork, Others
<1>13. ClaimsHold' /\ DeadLetters'
  BY <1>12, KeepsClaims, KeepsDeadLetters DEF CountFailure, IndInv
<1>14. Quarantines'
  <2>1. QuarantineIsEarned'
    BY <1>9 DEF CountFailure, IndInv, Quarantines, QuarantineIsEarned
  <2>2. PermanentIsEnough'
    <3>1. UNCHANGED errors
      BY DEF CountFailure
    <3>2. \A k \in Lanes : lane'[k].pc = "failing" => lane'[k] = lane[k]
      BY <1>8 DEF Others
    <3> QED
      BY <3>1, <3>2 DEF IndInv, Quarantines, PermanentIsEnough
  <2>3. Uncounted(m0)' = Uncounted(m0) \ {l}
    BY <1>8 DEF Uncounted, Others
  <2>4. \A m \in Messages : m # m0 => Uncounted(m)' = Uncounted(m)
    BY <1>8 DEF Uncounted, Others
  <2>5. errors[m0] = MaxDeliveries \/ count'[m0] + Cardinality(Uncounted(m0)') <= errors[m0]
    BY <1>1, <1>2, <1>3, <1>4, <1>6, <2>3, UncountedFinite
  <2>6. CountedOnce'
    <3> SUFFICES ASSUME NEW m \in Messages, errors[m] # MaxDeliveries
                 PROVE  count'[m] + Cardinality(Uncounted(m)') <= errors[m]
      BY DEF CountFailure, CountedOnce
    <3>1. count[m] + Cardinality(Uncounted(m)) <= errors[m]
      BY DEF IndInv, Quarantines, CountedOnce
    <3>2. m # m0 => count'[m] = count[m] /\ Uncounted(m)' = Uncounted(m)
      BY <1>3, <2>4
    <3>3. CASE m = m0
      BY <2>5, <3>3
    <3>4. CASE m # m0
      BY <3>1, <3>2, <3>4
    <3> QED
      BY <3>3, <3>4
  <2> QED
    BY <2>1, <2>2, <2>6 DEF Quarantines
<1> QED
  BY <1>10, <1>11, <1>13, <1>14 DEF IndInv

(* The counter is out of reach: the lane lets go.                            *)
LEMMA CounterUnavailableStep ==
  ASSUME IndInv, NEW l \in Lanes, CounterUnavailable(l)
  PROVE  IndInv'
BY LettingGo, Striking DEF CounterUnavailable, IndInv, Typed, TypeOK

(* An acknowledgement finds the event settled or the entry given up on.      *)
LEMMA AckStep ==
  ASSUME IndInv, NEW l \in Lanes, Ack(l)
  PROVE  IndInv'
<1>1. lane[l].pc = "acking" /\ DeliveryOf(l) \in Deliveries
  BY AtWork DEF Ack, IndInv
<1>2. Excused(DeliveryOf(l))
  BY <1>1 DEF IndInv, Delivered, OutcomesRecorded
<1>3. [state |-> "acked", idle |-> 0] \in Entries
  BY LimitsAssumption DEF Entries
<1>4. /\ entry' \in [Deliveries -> Entries]
      /\ \A d \in Deliveries : d # DeliveryOf(l) => entry'[d] = entry[d]
  BY <1>1, <1>3 DEF Ack, IndInv, Typed, TypeOK
<1> QED
  BY <1>1, <1>2, <1>4, LettingGo DEF Ack, IndInv, Typed, TypeOK

(* An acknowledgement that is lost leaves the entry pending.                 *)
LEMMA AckFailsStep ==
  ASSUME IndInv, NEW l \in Lanes, AckFails(l)
  PROVE  IndInv'
BY LettingGo, Striking DEF AckFails, IndInv, Typed, TypeOK

(* A process that dies lets go of its entry.                                 *)
LEMMA CrashStep ==
  ASSUME IndInv, NEW l \in Lanes, Crash(l)
  PROVE  IndInv'
BY LettingGo, Striking DEF Crash, IndInv, Typed, TypeOK

(* Time ages rows, entries and handlers, and changes nothing else of them.   *)
LEMMA TickStep ==
  ASSUME IndInv, Tick
  PROVE  IndInv'
<1>1. /\ entry' \in [Deliveries -> Entries]
      /\ \A d \in Deliveries : entry'[d].state = entry[d].state
  BY LimitsAssumption DEF Tick, UpTo, IndInv, Typed, TypeOK, Entries
<1>2. /\ row' \in [Consumptions -> Rows]
      /\ \A c \in Consumptions : row'[c].status = row[c].status
                                 /\ row'[c].attempts = row[c].attempts
  BY LimitsAssumption DEF Tick, UpTo, IndInv, Typed, TypeOK, Rows
<1>3. /\ lane' \in [Lanes -> LaneStates]
      /\ \A l \in Lanes : /\ lane'[l].pc = lane[l].pc /\ lane'[l].msg = lane[l].msg
                          /\ lane'[l].attempt = lane[l].attempt
                          /\ lane'[l].outcome = lane[l].outcome
                          /\ lane'[l].permanent = lane[l].permanent
  BY LimitsAssumption DEF Tick, UpTo, IndInv, Typed, TypeOK, LaneStates
<1>4. Typed'
  <2>1. TypeOK'
    BY <1>1, <1>2, <1>3 DEF Tick, ghosts, IndInv, Typed, TypeOK
  <2> QED
    BY <1>2, <1>3, <2>1 DEF IndInv, Typed, AttemptsLeft, Occupied
<1>5. Delivered'
  <2>1. \A l \in Lanes : lane'[l].pc = "acking" => Excused(DeliveryOf(l))'
    BY <1>3 DEF Tick, ghosts, IndInv, Delivered, OutcomesRecorded, Excused, DeliveryOf
  <2> QED
    BY <1>1, <1>2, <2>1, KeepsDelivered DEF Tick, ghosts, IndInv
<1>6. NoNewWork
  BY <1>3 DEF NoNewWork
<1>7. ClaimsHold' /\ DeadLetters'
  BY <1>2, <1>6, KeepsClaims, KeepsDeadLetters DEF Tick, ghosts, IndInv
<1>8. Quarantines'
  BY <1>3, KeepsQuarantines DEF Tick, ghosts, IndInv
<1> QED
  BY <1>4, <1>5, <1>7, <1>8 DEF IndInv

-----------------------------------------------------------------------------
(* A step that changes nothing keeps everything.                             *)
LEMMA StutterStep == IndInv /\ UNCHANGED vars => IndInv'
<1> SUFFICES ASSUME IndInv, UNCHANGED vars PROVE IndInv'
  OBVIOUS
<1>1. Typed'
  BY DEF vars, ghosts, IndInv, Typed, TypeOK, AttemptsLeft, Occupied
<1>2. Delivered'
  BY KeepsDelivered DEF vars, ghosts, IndInv
<1>3. NoNewWork
  BY DEF NoNewWork, vars
<1>4. ClaimsHold' /\ DeadLetters'
  BY <1>3, KeepsClaims, KeepsDeadLetters DEF vars, ghosts, IndInv
<1>5. Quarantines'
  BY KeepsQuarantines DEF vars, ghosts, IndInv
<1> QED
  BY <1>1, <1>2, <1>4, <1>5 DEF IndInv

(* Every step keeps the invariant. *)
LEMMA Inductive == IndInv /\ [Next]_vars => IndInv'
<1> SUFFICES ASSUME IndInv, [Next]_vars PROVE IndInv'
  OBVIOUS
<1>1. CASE \E m \in Messages : Append(m)
  BY <1>1, AppendStep
<1>2. CASE \E l \in Lanes, m \in Messages : Read(l, m) \/ Reclaim(l, m)
  BY <1>2, DeliverStep DEF Read, Reclaim
<1>3. CASE \E l \in Lanes : RunDelivery(l)
  <2> SUFFICES ASSUME NEW l \in Lanes, RunDelivery(l) PROVE IndInv'
    BY <1>3
  <2> QED
    BY ClaimRunsStep, ClaimSettledStep, ClaimHeldStep, DecodeFailsStep,
       HandlerSucceedsStep, HandlerRejectsStep, HandlerFailsStep, HandlerTimesOutStep,
       FinishStep, QuarantinePermanentStep, CountFailureStep, AckStep
       DEF RunDelivery
<1>4. CASE \E l \in Lanes : Fault(l)
  <2> SUFFICES ASSUME NEW l \in Lanes, Fault(l) PROVE IndInv'
    BY <1>4
  <2> QED
    BY ClaimFailsStep, FinishFailsStep, CounterUnavailableStep, AckFailsStep, CrashStep
       DEF Fault
<1>5. CASE Tick
  BY <1>5, TickStep
<1>6. CASE UNCHANGED vars
  BY <1>6, StutterStep
<1> QED
  BY <1>1, <1>2, <1>3, <1>4, <1>5, <1>6 DEF Next

(* The invariant holds in every reachable state. *)
THEOREM Invariance == Spec => []IndInv
BY Initially, Inductive, PTL DEF Spec

(* Every variable keeps its type.                                            *)
THEOREM TypeCorrect == Spec => []TypeOK
<1>1. IndInv => TypeOK
  BY DEF IndInv, Typed
<1> QED
  BY <1>1, Invariance, PTL

(* An entry leaves the pending-entries list only with a recorded outcome or  *)
(* given up on, whatever dies, is held or is delivered again.                *)
THEOREM NoEntryIsDropped == Spec => []NothingDropped
<1>1. IndInv => NothingDropped
  BY DEF IndInv, Delivered
<1> QED
  BY <1>1, Invariance, PTL

(* Two lanes run a handler for one event and group, or it succeeds twice,    *)
(* only if a claim of AbandonAfter was taken over.                           *)
THEOREM HandlersRunAlone == Spec => []RunsExclusively
<1>1. IndInv => RunsExclusively
  <2> SUFFICES ASSUME IndInv PROVE RunsExclusively
    OBVIOUS
  <2>1. ASSUME NEW k \in Lanes, NEW l \in Lanes, k # l, Running(k), Running(l),
               ConsumptionOf(k) = ConsumptionOf(l)
        PROVE  ConsumptionOf(l) \in takenOver
    <3>1. ConsumptionOf(l) \in Consumptions
      BY <2>1, AtWork DEF IndInv, Running
    <3> QED
      BY <2>1, <3>1 DEF IndInv, ClaimsHold, Untroubled, Works
  <2>2. ASSUME NEW c \in Consumptions, runs[c] > 1
        PROVE  c \in takenOver
    <3>1. runs[c] \in 0..2
      BY DEF IndInv, Typed, TypeOK
    <3> QED
      BY <2>2, <3>1 DEF IndInv, ClaimsHold, Untroubled
  <2> QED
    BY <2>1, <2>2 DEF RunsExclusively
<1> QED
  BY <1>1, Invariance, PTL

(* A dead-lettered event has failed max_attempts times; a quarantined entry  *)
(* met a permanent error or MAX_DELIVERY_ATTEMPTS errors.                    *)
THEOREM GivingUpNeedsFailures == Spec => []GivingUpIsEarned
<1>1. IndInv => GivingUpIsEarned
  BY DEF IndInv, DeadLetters, Quarantines, GivingUpIsEarned
<1> QED
  BY <1>1, Invariance, PTL
=============================================================================
