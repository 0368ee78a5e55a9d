--------------------------- MODULE GapReplayProofs ---------------------------
(***************************************************************************)
(* Proofs about GapReplay for any rows, guards, batch, skew and faults: a  *)
(* trim of what is consumed takes nothing from the group, and what a trim  *)
(* takes stays within the reach of a replay up to a first lapse.           *)
(***************************************************************************)
EXTENDS GapReplay, FiniteSetTheorems, WellFoundedInduction, TLAPS

(* The newest entry of its event.                                            *)
Newest(i) == \A j \in i + 1 .. now : log[j] # log[i]

(* Rows and entries: a row not marked yet is NULL and belongs to the newest  *)
(* entry of its event, a marked one bears a time at most Skew after it.      *)
RowsStand ==
    /\ \A i \in unmarked : row[log[i]] = 0 /\ Newest(i) /\ now <= i + Skew
    /\ \A e \in Events : row[e] # 0 =>
          \E i \in 1 .. now : /\ log[i] = e /\ Newest(i)
                              /\ i <= row[e] /\ row[e] <= i + Skew

(* What the group read and the stream still has is pending or handled.       *)
DeliveredStands == \A i \in first .. pos : i \in pending \/ log[i] \in handled

(* What a pass has in hand: a survey of its past, whose watermark is at or   *)
(* before all that the group had to handle then, and rows that are locked   *)
(* only while they are requeued.                                            *)
PassStands(g) ==
    /\ guard[g].pc \in {"over", "consumed"} => guard[g].seen.last <= now
    /\ At(g, "over") => /\ Watermark(guard[g].seen) <= pos
                        /\ \A i \in pending : Watermark(guard[g].seen) <= i
    /\ guard[g].batch # {} => At(g, "requeueing")
PassesStand == \A g \in Guards : PassStands(g)

(* Gaps lie in what was trimmed: the one recorded, and those guards hold.    *)
Holding(g) == guard[g].pc \in {"trimmed", "replaying", "requeueing", "deleting"}
GapsBehind ==
    /\ gap # None => gap.until <= first
    /\ \A g \in Guards : Holding(g) =>
          /\ guard[g].gap # None
          /\ guard[g].gap.after <= guard[g].gap.until /\ guard[g].gap.until <= first

(* Nothing before the end of a recorded gap was marked after it was recorded,*)
(* unless the group handled it.                                              *)
Settled(r) ==
    \A i \in 1 .. now :
        i < r.until /\ Newest(i) /\ log[i] \notin handled => row[log[i]] <= r.recorded

GapsSettled ==
    /\ gap # None => Settled(gap)
    /\ \A g \in Guards : guard[g].pc \in {"replaying", "requeueing", "deleting"} => Settled(guard[g].gap)

(* A trimmed entry that is not marked is one the group handled.              *)
TrimmedMarked == \A i \in unmarked : i < first => log[i] \in handled

(* An entry the group no longer has and never handled.                       *)
Missing(i) ==
    /\ i \in 1 .. pos /\ i \notin pending /\ log[i] \notin handled
    /\ row[log[i]] # 0 /\ Newest(i)

Inside(r, i) == r.after < i /\ i < r.until

(* A row that a guard has locked and another passed over for good.           *)
Relied(e) == \E g \in Guards : e \in guard[g].batch /\ guard[g].passed

Covered(i) ==
    \/ gap # None /\ Inside(gap, i)
    \/ \E g \in Guards : At(g, "trimmed") /\ Inside(guard[g].gap, i)
    \/ Relied(log[i])

MissingCovered == \A i \in 1 .. now : Missing(i) => Covered(i)

(* A gap about to be deleted has nothing left in it but what its last batch  *)
(* takes, or another guard's does.                                          *)
LastBatch(g) ==
    At(g, "deleting") \/ (At(g, "requeueing") /\ ReplayOver(Cardinality(guard[g].batch)))
Emptied(g) ==
    LastBatch(g) =>
        \A i \in 1 .. now :
            Inside(guard[g].gap, i) /\ Newest(i) /\ log[i] \notin handled
                => row[log[i]] = 0 \/ log[i] \in guard[g].batch \/ Relied(log[i])
ReplayedEmpty == \A g \in Guards : Emptied(g)

(* What stands until a first lapse.                                          *)
NoLapse == TrimmedMarked /\ GapsSettled /\ MissingCovered /\ ReplayedEmpty

(* The inductive invariant.                                                  *)
IndInv ==
    /\ TypeOK /\ RowsStand /\ DeliveredStands /\ PassesStand /\ GapsBehind
    /\ lapses = {} => NoLapse

-----------------------------------------------------------------------------
LEMMA LeastExists ==
  ASSUME NEW S \in SUBSET Nat, S # {}
  PROVE  LeastOf(S) \in S /\ \A j \in S : LeastOf(S) <= j
<1> DEFINE R == {ss \in Nat \X Nat : ss[1] < ss[2]}
<1>1. IsWellFoundedOn(R, Nat)
  BY NatLessThanWellFounded DEF OpToRel
<1>2. PICK i \in S : \A j \in S : <<j, i>> \notin R
  BY <1>1, WFMin
<1>3. ASSUME NEW j \in S
      PROVE  i <= j
  <2>1. i \in Nat /\ j \in Nat
    OBVIOUS
  <2>2. <<j, i>> \in Nat \X Nat /\ <<j, i>>[1] = j /\ <<j, i>>[2] = i
    BY <2>1
  <2>3. ~(j < i)
    BY <1>2, <2>2
  <2> HIDE DEF R
  <2> QED
    BY <2>1, <2>3
<1> QED
  BY <1>3 DEF LeastOf

LEMMA Numbers ==
  ASSUME TypeOK
  PROVE  /\ now \in Nat /\ now <= MaxAppends /\ MaxAppends \in Nat /\ Skew \in Nat
         /\ first \in Nat /\ first # 0 /\ first <= now + 1
         /\ pos \in Nat /\ pos <= now
         /\ \A i \in pending : i \in Nat /\ i # 0 /\ i <= pos
         /\ \A i \in unmarked : i \in Nat /\ i # 0 /\ i <= now
         /\ \A i \in 1 .. now : log[i] \in Events
         /\ \A e \in Events : row[e] \in Nat /\ row[e] <= now
         /\ guard \in [Guards -> Passes]
BY BoundsAssumption, SkewAssumption DEF TypeOK, now, Passes

LEMMA SurveyFields ==
  ASSUME NEW seen \in Surveys
  PROVE  /\ seen.last \in Times /\ seen.pos \in Times /\ seen.oldest \in Times
         /\ seen.room \in BOOLEAN
BY DEF Surveys

LEMMA GapFields ==
  ASSUME NEW r \in Gaps
  PROVE  r.after \in Times /\ r.until \in Times /\ r.recorded \in Times
BY DEF Gaps

LEMMA TimesAreNaturals ==
    MaxAppends \in Nat /\ \A t \in Times : t \in Nat /\ t <= MaxAppends + 1
BY BoundsAssumption DEF Times

LEMMA RestingState ==
    /\ Resting \in Passes /\ Resting.pc = "idle" /\ Resting.batch = {}
    /\ NoSurvey \in Surveys
<1>1. 0 \in Times
  BY BoundsAssumption DEF Times
<1>2. NoSurvey \in Surveys
  BY <1>1 DEF NoSurvey, Surveys
<1> QED
  BY <1>2 DEF Resting, Passes, PCs

(* A guard alone moves, and where to.                                        *)
OthersStay(g) == \A h \in Guards : h # g => guard'[h] = guard[h]

LEMMA Went ==
  ASSUME TypeOK, NEW g \in Guards, NEW pc \in PCs, NEW seen \in Surveys,
         NEW lost \in Gaps \cup {None}, Goto(g, pc, seen, lost)
  PROVE  /\ guard' \in [Guards -> Passes] /\ OthersStay(g)
         /\ guard'[g].pc = pc /\ guard'[g].seen = seen /\ guard'[g].gap = lost
         /\ guard'[g].batch = {}
<1>1. PICK new \in Passes : new = [Resting EXCEPT !.pc = pc, !.seen = seen, !.gap = lost]
  BY RestingState DEF Passes
<1>2. guard' = [guard EXCEPT ![g] = new]
  BY <1>1 DEF Goto
<1>4. new.pc = pc /\ new.seen = seen /\ new.gap = lost /\ new.batch = {}
  BY <1>1, RestingState DEF Passes
<1>3. guard' \in [Guards -> Passes] /\ OthersStay(g) /\ guard'[g] = new
  BY <1>2, Numbers DEF OthersStay
<1> QED
  BY <1>3, <1>4

LEMMA Ended ==
  ASSUME TypeOK, NEW g \in Guards, EndPass(g)
  PROVE  /\ guard' \in [Guards -> Passes] /\ OthersStay(g)
         /\ guard'[g].pc = "idle" /\ guard'[g].batch = {}
BY RestingState, Numbers DEF EndPass, OthersStay

(* What a pass does after the budget asks nothing of the invariant.          *)
AtEase(g) ==
    /\ guard' \in [Guards -> Passes] /\ OthersStay(g)
    /\ guard'[g].pc \in {"idle", "enforced"} /\ guard'[g].batch = {}

LEMMA Phased ==
  ASSUME TypeOK, NEW g \in Guards, NEW seen, ReplayPhase(g, seen)
  PROVE  AtEase(g)
<1>1. CASE seen.room
  BY <1>1, Went, RestingState DEF ReplayPhase, AtEase, PCs
<1>2. CASE ~seen.room
  BY <1>2, Ended DEF ReplayPhase, AtEase
<1> QED
  BY <1>1, <1>2

LEMMA Budgeted ==
  ASSUME TypeOK, NEW g \in Guards, NEW seen \in Surveys, BudgetPhase(g, seen)
  PROVE  /\ trims' \in 0 .. MaxTrims
         /\ \/ AtEase(g)
            \/ /\ guard' \in [Guards -> Passes] /\ OthersStay(g)
               /\ guard'[g].pc \in {"over", "consumed"} /\ guard'[g].seen = seen
               /\ guard'[g].batch = {}
<1>1. CASE trims' = trims /\ ReplayPhase(g, seen)
  BY <1>1, Phased DEF TypeOK
<1>2. CASE /\ trims < MaxTrims /\ trims' = trims + 1
           /\ Goto(g, IF first <= Watermark(seen) THEN "over" ELSE "consumed", seen, None)
  <2>1. trims' \in 0 .. MaxTrims
    BY <1>2, BoundsAssumption DEF TypeOK
  <2>2. CASE first <= Watermark(seen)
    <3>1. Goto(g, "over", seen, None)
      BY <1>2, <2>2
    <3> QED
      BY <2>1, <3>1, Went DEF PCs
  <2>3. CASE ~(first <= Watermark(seen))
    <3>1. Goto(g, "consumed", seen, None)
      BY <1>2, <2>3
    <3> QED
      BY <2>1, <3>1, Went DEF PCs
  <2> QED
    BY <2>2, <2>3
<1> QED
  BY <1>1, <1>2 DEF BudgetPhase

LEMMA GapsAreNotNone == None \notin Gaps
BY NoneAssumption, TimesAreNaturals DEF Gaps

(* A widened record holds both windows.                                      *)
LEMMA Widening ==
  ASSUME TypeOK, NEW after \in Times, NEW until \in Times, after <= until,
         gap' = Widened(after, until)
  PROVE  /\ gap' \in Gaps /\ gap' # None
         /\ gap'.after <= after /\ until <= gap'.until
         /\ gap'.after <= gap'.until /\ gap'.recorded <= now
         /\ \/ gap'.recorded = now /\ gap'.until \in {until, IF gap = None THEN until ELSE gap.until}
            \/ gap # None /\ gap'.recorded = gap.recorded /\ gap'.until = gap.until
         /\ gap # None => gap'.after <= gap.after /\ gap.until <= gap'.until
<1>1. now \in Times /\ now \in Nat /\ after \in Nat /\ until \in Nat
  BY Numbers, TimesAreNaturals DEF Times
<1>2. CASE gap = None
  <2>1. PICK r \in Gaps : r = [after |-> after, until |-> until, recorded |-> now]
    BY <1>1 DEF Gaps
  <2>2. gap' = r
    BY <1>2, <2>1 DEF Widened
  <2>3. r.after = after /\ r.until = until /\ r.recorded = now
    BY <2>1
  <2> QED
    BY <1>1, <1>2, <2>2, <2>3, GapsAreNotNone
<1>3. CASE gap # None
  <2>1. /\ gap \in Gaps /\ gap.after \in Times /\ gap.until \in Times /\ gap.recorded \in Times
        /\ gap.after \in Nat /\ gap.until \in Nat /\ gap.after <= gap.until /\ gap.recorded <= now
    BY <1>3, GapFields, TimesAreNaturals DEF TypeOK
  <2>2. PICK rec \in Times :
            rec = IF after < gap.after \/ gap.until < until THEN now ELSE gap.recorded
    BY <1>1, <2>1
  <2>3. Least(gap.after, after) \in Times /\ Most(gap.until, until) \in Times
    BY <2>1 DEF Least, Most
  <2>4. PICK r \in Gaps : r = [after |-> Least(gap.after, after),
                              until |-> Most(gap.until, until), recorded |-> rec]
    BY <2>3 DEF Gaps
  <2>5. gap' = r
    BY <1>3, <2>2, <2>4 DEF Widened
  <2>6. r.after = Least(gap.after, after) /\ r.until = Most(gap.until, until) /\ r.recorded = rec
    BY <2>4
  <2>7. /\ r.after <= after /\ r.after <= gap.after
        /\ until <= r.until /\ gap.until <= r.until /\ r.until \in {until, gap.until}
    BY <1>1, <2>1, <2>6 DEF Least, Most
  <2>8. r.after <= r.until /\ rec <= now
    BY <1>1, <2>1, <2>2, <2>6 DEF Least, Most
  <2>9. rec = now \/ (rec = gap.recorded /\ r.until = gap.until)
    BY <1>1, <2>1, <2>2, <2>6 DEF Most
  <2>10. r.recorded <= now /\ r.recorded = rec
    BY <2>6, <2>8
  <2>11. r.until \in {until, IF gap = None THEN until ELSE gap.until}
    BY <1>3, <2>7
  <2> QED
    BY <1>3, <2>5, <2>7, <2>8, <2>9, <2>10, <2>11, GapsAreNotNone
<1> QED
  BY <1>2, <1>3

-----------------------------------------------------------------------------
(* Each part of the invariant, and what a step may not disturb to keep it.   *)
LEMMA RowsKept ==
  ASSUME RowsStand, UNCHANGED <<log, row, unmarked>>
  PROVE  RowsStand'
BY DEF RowsStand, Newest, now

LEMMA DeliveredKept ==
  ASSUME TypeOK, DeliveredStands, UNCHANGED <<log, pos, pending, handled>>,
         first' \in Nat, first <= first'
  PROVE  DeliveredStands'
BY Numbers DEF DeliveredStands

LEMMA WatermarkIsNatural ==
  ASSUME NEW seen \in Surveys
  PROVE  Watermark(seen) \in Nat /\ Watermark(seen) <= MaxAppends + 1
BY SurveyFields, TimesAreNaturals DEF Watermark

GuardsPass ==
    \A g \in Guards :
        \/ guard'[g] = guard[g]
        \/ /\ guard'[g].pc \notin {"over", "consumed"}
           /\ guard'[g].batch # {} => guard'[g].pc = "requeueing"
        \/ /\ guard'[g].pc = "consumed" /\ At(g, "over")
           /\ guard'[g].seen = guard[g].seen /\ guard'[g].batch = {}

LEMMA PassesKept ==
  ASSUME TypeOK, PassesStand, now' \in Nat, now <= now', pos' \in Nat, pos <= pos',
         \A i \in pending' : i \in pending \/ (i \in Nat /\ pos < i), GuardsPass
  PROVE  PassesStand'
<1> SUFFICES ASSUME NEW g \in Guards
             PROVE  PassStands(g)'
  BY DEF PassesStand
<1>1. /\ PassStands(g) /\ guard[g].seen \in Surveys
      /\ guard[g].seen.last \in Nat /\ Watermark(guard[g].seen) \in Nat
  BY Numbers, SurveyFields, TimesAreNaturals, WatermarkIsNatural
     DEF PassesStand, Passes
<1>2. CASE guard'[g] = guard[g]
  BY <1>1, <1>2, Numbers DEF PassStands, At
<1>3. CASE /\ guard'[g].pc \notin {"over", "consumed"}
           /\ guard'[g].batch # {} => guard'[g].pc = "requeueing"
  BY <1>3 DEF PassStands, At
<1>4. CASE /\ guard'[g].pc = "consumed" /\ At(g, "over")
           /\ guard'[g].seen = guard[g].seen /\ guard'[g].batch = {}
  BY <1>1, <1>4, Numbers DEF PassStands, At
<1> QED
  BY <1>2, <1>3, <1>4 DEF GuardsPass

LEMMA HeldGap ==
  ASSUME TypeOK, GapsBehind, NEW g \in Guards, Holding(g)
  PROVE  /\ guard[g].gap \in Gaps /\ guard[g].gap # None
         /\ guard[g].gap.after \in Nat /\ guard[g].gap.until \in Nat
         /\ guard[g].gap.after \in Times /\ guard[g].gap.until \in Times
         /\ guard[g].gap.recorded \in Nat
         /\ guard[g].gap.after <= guard[g].gap.until /\ guard[g].gap.until <= first
BY Numbers, GapFields, TimesAreNaturals DEF GapsBehind, Passes

LEMMA RecordedGap ==
  ASSUME TypeOK, GapsBehind, gap # None
  PROVE  /\ gap \in Gaps /\ gap.after \in Nat /\ gap.until \in Nat /\ gap.recorded \in Nat
         /\ gap.after <= gap.until /\ gap.until <= first /\ gap.recorded <= now
BY GapFields, TimesAreNaturals DEF GapsBehind, TypeOK

GuardsHold ==
    \A g \in Guards :
        \/ guard'[g] = guard[g]
        \/ guard'[g].pc \notin {"trimmed", "replaying", "requeueing", "deleting"}
        \/ Holding(g) /\ guard'[g].gap = guard[g].gap

LEMMA BehindKept ==
  ASSUME TypeOK, GapsBehind, first' \in Nat, first <= first', gap' \in {gap, None}, GuardsHold
  PROVE  GapsBehind'
<1>1. gap' # None => gap'.until <= first'
  BY RecordedGap, Numbers
<1>2. ASSUME NEW g \in Guards, Holding(g)'
      PROVE  (/\ guard[g].gap # None
              /\ guard[g].gap.after <= guard[g].gap.until /\ guard[g].gap.until <= first)'
  <2>1. guard'[g].gap = guard[g].gap /\ Holding(g)
    BY <1>2 DEF GuardsHold, Holding
  <2> QED
    BY <2>1, HeldGap, Numbers
<1> QED
  BY <1>1, <1>2 DEF GapsBehind

(* What was trimmed keeps its rows, or they are NULL again, or its events    *)
(* are handled now.                                                          *)
TrimmedStay ==
    \A i \in 1 .. now' :
        i < first /\ Newest(i)' /\ log'[i] \notin handled'
            => /\ i \in 1 .. now /\ Newest(i) /\ log[i] \notin handled /\ log'[i] = log[i]
               /\ row'[log'[i]] = row[log[i]] \/ row'[log'[i]] = 0

LEMMA SameTrimmed ==
  ASSUME UNCHANGED <<log, row, handled>>
  PROVE  TrimmedStay
BY DEF TrimmedStay, Newest, now

GuardsReplay ==
    \A g \in Guards :
        \/ guard'[g] = guard[g]
        \/ guard'[g].pc \notin {"replaying", "requeueing", "deleting"}
        \/ guard[g].pc \in {"replaying", "requeueing", "deleting"} /\ guard'[g].gap = guard[g].gap

LEMMA SettledKept ==
  ASSUME TypeOK, GapsBehind, GapsSettled, TrimmedStay, gap' \in {gap, None}, now' \in Nat,
         GuardsReplay
  PROVE  GapsSettled'
<1>1. ASSUME gap' # None
      PROVE  Settled(gap)'
  <2>1. gap' = gap /\ Settled(gap) /\ gap.until \in Nat /\ gap.recorded \in Nat /\ gap.until <= first
    BY <1>1, RecordedGap DEF GapsSettled
  <2> QED
    BY <2>1, Numbers DEF Settled, TrimmedStay
<1>2. ASSUME NEW g \in Guards, guard'[g].pc \in {"replaying", "requeueing", "deleting"}
      PROVE  Settled(guard[g].gap)'
  <2>1. guard'[g].gap = guard[g].gap /\ guard[g].pc \in {"replaying", "requeueing", "deleting"}
    BY <1>2 DEF GuardsReplay
  <2>2. /\ Settled(guard[g].gap) /\ guard[g].gap.until \in Nat /\ guard[g].gap.recorded \in Nat
        /\ guard[g].gap.until <= first
    BY <2>1, HeldGap DEF GapsSettled, Holding
  <2> QED
    BY <2>1, <2>2, Numbers DEF Settled, TrimmedStay
<1> QED
  BY <1>1, <1>2 DEF GapsSettled

LEMMA MissingIsTrimmed ==
  ASSUME TypeOK, DeliveredStands, NEW i \in 1 .. now, Missing(i)
  PROVE  i < first
BY Numbers DEF DeliveredStands, Missing

(* Nothing more is missing.                                                  *)
NoMoreMissing == \A i \in 1 .. now' : Missing(i)' => i \in 1 .. now /\ Missing(i)

LEMMA SameMissing ==
  ASSUME UNCHANGED <<log, row, pos, pending, handled>>
  PROVE  NoMoreMissing
BY DEF NoMoreMissing, Missing, Newest, now

LEMMA FewerMissing ==
  ASSUME TypeOK, TypeOK', DeliveredStands', TrimmedStay, first' = first,
         \A i \in 1 .. pos' : i < first /\ i \notin pending' /\ log'[i] \notin handled'
                              => i \in (1 .. pos) \ pending
  PROVE  NoMoreMissing
<1> SUFFICES ASSUME NEW i \in 1 .. now', Missing(i)'
             PROVE  i \in 1 .. now /\ Missing(i)
  BY DEF NoMoreMissing
<1>1. i < first /\ i \in Nat /\ i # 0
  <2>1. now' \in Nat /\ pos' \in Nat /\ first \in Nat
    BY Numbers DEF TypeOK, now
  <2>2. i \in Nat /\ i # 0 /\ i <= pos' /\ i \notin pending' /\ log'[i] \notin handled'
    BY <2>1 DEF Missing
  <2> QED
    BY <2>1, <2>2 DEF DeliveredStands
<1>2. i \in 1 .. pos' /\ i \notin pending' /\ log'[i] \notin handled' /\ Newest(i)'
      /\ row'[log'[i]] # 0
  BY DEF Missing
<1>3. /\ i \in 1 .. now /\ Newest(i) /\ log[i] \notin handled /\ log'[i] = log[i]
      /\ row'[log'[i]] = row[log[i]] \/ row'[log'[i]] = 0
  BY <1>1, <1>2 DEF TrimmedStay
<1> QED
  BY <1>1, <1>2, <1>3 DEF Missing

CoverStays == \A i \in 1 .. now : Missing(i) /\ Missing(i)' /\ Covered(i) => Covered(i)'

LEMMA SameCover ==
  ASSUME gap' = gap, \A i \in 1 .. now : log'[i] = log[i],
         \A g \in Guards : guard'[g] = guard[g] \/ (~At(g, "trimmed") /\ guard[g].batch = {})
  PROVE  CoverStays
BY DEF CoverStays, Covered, Relied, Inside, At

LEMMA MissingKept ==
  ASSUME MissingCovered, NoMoreMissing, CoverStays
  PROVE  MissingCovered'
BY DEF MissingCovered, NoMoreMissing, CoverStays

(* Rows that are relied on stay so until they are requeued.                  *)
FlightStays == \A e \in Events : Relied(e) => Relied(e)' \/ row'[e] = 0

LEMMA SameFlight ==
  ASSUME \A g \in Guards : guard'[g] = guard[g] \/ guard[g].batch = {}
  PROVE  FlightStays
BY DEF FlightStays, Relied

LEMMA EmptiedKept ==
  ASSUME TypeOK, GapsBehind, TrimmedStay, FlightStays, now' \in Nat,
         NEW g \in Guards, Emptied(g), guard'[g] = guard[g]
  PROVE  Emptied(g)'
<1> SUFFICES ASSUME LastBatch(g), NEW i \in 1 .. now',
                    Inside(guard[g].gap, i)', Newest(i)', log'[i] \notin handled'
             PROVE  row'[log'[i]] = 0 \/ log'[i] \in guard[g].batch \/ Relied(log[i])'
  BY DEF Emptied, LastBatch, At
<1>1. guard[g].gap.until <= first /\ guard[g].gap.until \in Nat
  BY HeldGap DEF At, Holding, LastBatch
<1>2. i < first /\ Inside(guard[g].gap, i)
  BY <1>1, Numbers DEF Inside
<1>3. /\ i \in 1 .. now /\ Newest(i) /\ log[i] \notin handled /\ log'[i] = log[i]
      /\ row'[log'[i]] = row[log[i]] \/ row'[log'[i]] = 0
      /\ log[i] \in Events
  BY <1>2, Numbers DEF TrimmedStay
<1>4. row[log[i]] = 0 \/ log[i] \in guard[g].batch \/ Relied(log[i])
  BY <1>2, <1>3 DEF Emptied
<1>5. Relied(log[i]) => Relied(log[i])' \/ row'[log'[i]] = 0
  BY <1>3 DEF FlightStays, Relied
<1> QED
  BY <1>3, <1>4, <1>5

LEMMA ReplayedKept ==
  ASSUME TypeOK, GapsBehind, ReplayedEmpty, TrimmedStay, FlightStays, now' \in Nat,
         \A g \in Guards : guard'[g] = guard[g] \/ guard'[g].pc \notin {"requeueing", "deleting"}
  PROVE  ReplayedEmpty'
<1> SUFFICES ASSUME NEW g \in Guards
             PROVE  Emptied(g)'
  BY DEF ReplayedEmpty
<1>1. CASE guard'[g] = guard[g]
  BY <1>1, EmptiedKept DEF ReplayedEmpty
<1>2. CASE guard'[g].pc \notin {"requeueing", "deleting"}
  BY <1>2 DEF Emptied, LastBatch, At
<1> QED
  BY <1>1, <1>2

-----------------------------------------------------------------------------
(* The dispatcher and the group.                                             *)
LEMMA Appended ==
  ASSUME TypeOK, NEW e \in Events, log' = Append(log, e)
  PROVE  /\ log' \in Seq(Events) /\ now' = now + 1 /\ log'[now + 1] = e
         /\ \A i \in 1 .. now : log'[i] = log[i]
BY DEF TypeOK, now

LEMMA NewestIsOne ==
  ASSUME TypeOK, NEW i \in 1 .. now, NEW j \in 1 .. now, Newest(i), Newest(j), log[i] = log[j]
  PROVE  i = j
BY Numbers DEF Newest

LEMMA PublishStep ==
  ASSUME IndInv, NEW e \in Events, Publish(e)
  PROVE  IndInv'
<1>1. /\ log' \in Seq(Events) /\ now' = now + 1 /\ log'[now + 1] = e
      /\ \A i \in 1 .. now : log'[i] = log[i]
      /\ now < MaxAppends
  BY Appended DEF IndInv, Publish
<1>2. /\ UNCHANGED <<first, pos, pending, handled, active, row, gap, guard, lapses, trims, faults>>
      /\ unmarked' = unmarked \cup {now + 1} /\ lapses = {}
      /\ row[e] = 0 /\ \A i \in unmarked : log[i] # e /\ now - i < Skew
  BY DEF Publish, groupVars, Timely
<1>3. TypeOK'
  <2>1. now' <= MaxAppends /\ now' \in Nat /\ row' \in [Events -> 0 .. now']
    BY <1>1, <1>2, Numbers DEF IndInv, TypeOK
  <2>2. /\ first \in 1 .. now + 1 /\ pos \in 0 .. now /\ unmarked \subseteq 1 .. now
        /\ now \in Nat /\ now + 1 \in 1 .. now + 1
    BY Numbers DEF IndInv, TypeOK
  <2>4. unmarked' \subseteq 1 .. now' /\ first' \in 1 .. now' + 1 /\ pos' \in 0 .. now'
    <3>1. PICK n \in Nat : n = now /\ now' = n + 1
      BY <1>1, <2>2
    <3>2. \A i \in 1 .. n : i \in 1 .. n + 1
      BY <3>1
    <3>3. unmarked' \subseteq 1 .. n + 1
      BY <1>2, <2>2, <3>1, <3>2
    <3>4. first \in 1 .. n + 1 + 1 /\ pos \in 0 .. n + 1
      BY <2>2, <3>1
    <3> QED
      BY <1>2, <3>1, <3>3, <3>4
  <2>3. gap' # None => gap'.after <= gap'.until /\ gap'.recorded <= now'
    BY <1>1, <1>2, Numbers, RecordedGap DEF IndInv
  <2> QED
    BY <1>1, <1>2, <2>1, <2>3, <2>4 DEF IndInv, TypeOK
<1>4. \A i \in 1 .. now : Newest(i) /\ log[i] # e => Newest(i)'
  <2> SUFFICES ASSUME NEW i \in 1 .. now, Newest(i), log[i] # e, NEW j \in i + 1 .. now + 1
               PROVE  log'[j] # log'[i]
    BY <1>1 DEF Newest
  <2>1. CASE j = now + 1
    BY <1>1, <2>1
  <2>2. CASE j # now + 1
    <3>1. j \in i + 1 .. now /\ j \in 1 .. now
      BY <2>2, Numbers DEF IndInv
    <3> QED
      BY <1>1, <3>1 DEF Newest
  <2> QED
    BY <2>1, <2>2
<1>5. RowsStand'
  <2>1. ASSUME NEW i \in unmarked'
        PROVE  (row[log[i]] = 0 /\ Newest(i) /\ now <= i + Skew)'
    <3>1. CASE i = now + 1
      BY <1>1, <1>2, <3>1, Numbers DEF IndInv, Newest
    <3>2. CASE i \in unmarked
      BY <1>1, <1>2, <1>4, <3>2, Numbers DEF IndInv, RowsStand
    <3> QED
      BY <1>2, <3>1, <3>2
  <2>2. ASSUME NEW x \in Events, row'[x] # 0
        PROVE  \E i \in 1 .. now' : /\ log'[i] = x /\ Newest(i)'
                                    /\ i <= row'[x] /\ row'[x] <= i + Skew
    <3>1. x # e /\ row'[x] = row[x]
      BY <1>2, <2>2
    <3>2. PICK i \in 1 .. now : log[i] = x /\ Newest(i) /\ i <= row[x] /\ row[x] <= i + Skew
      BY <2>2, <3>1 DEF IndInv, RowsStand
    <3> QED
      BY <1>1, <1>4, <3>1, <3>2, Numbers DEF IndInv
  <2> QED
    BY <2>1, <2>2 DEF RowsStand
<1>6. DeliveredStands'
  BY <1>1, <1>2, Numbers DEF IndInv, DeliveredStands
<1>7. PassesStand'
  BY <1>1, <1>2, Numbers, PassesKept DEF IndInv, GuardsPass
<1>8. GapsBehind'
  BY <1>2, Numbers, BehindKept DEF IndInv, GuardsHold
<1>9. TrimmedStay
  BY <1>1, <1>2, Numbers DEF IndInv, TrimmedStay, Newest
<1>10. NoLapse'
  <2>1. NoLapse
    BY <1>2 DEF IndInv
  <2>2. TrimmedMarked'
    BY <1>1, <1>2, <2>1, Numbers DEF IndInv, NoLapse, TrimmedMarked
  <2>3. GapsSettled'
    BY <1>1, <1>2, <1>9, <2>1, Numbers, SettledKept DEF IndInv, NoLapse, GuardsReplay
  <2>4. NoMoreMissing
    BY <1>2, <1>3, <1>6, <1>9, FewerMissing DEF IndInv
  <2>5. MissingCovered'
    BY <1>1, <1>2, <2>1, <2>4, SameCover, MissingKept DEF NoLapse
  <2>6. ReplayedEmpty'
    BY <1>1, <1>2, <1>9, <2>1, Numbers, SameFlight, ReplayedKept DEF IndInv, NoLapse
  <2> QED
    BY <2>2, <2>3, <2>5, <2>6 DEF NoLapse
<1> QED
  BY <1>3, <1>5, <1>6, <1>7, <1>8, <1>10 DEF IndInv

LEMMA MarkPublishedStep ==
  ASSUME IndInv, NEW i \in 1 .. now, MarkPublished(i)
  PROVE  IndInv'
<1>1. /\ UNCHANGED <<log, first, pos, pending, handled, active, gap, guard, lapses, trims, faults>>
      /\ row' = [row EXCEPT ![log[i]] = now] /\ unmarked' = unmarked \ {i} /\ i \in unmarked
  BY DEF MarkPublished, groupVars
<1>2. /\ now' = now /\ log[i] \in Events /\ row'[log[i]] = now
      /\ \A e \in Events : e # log[i] => row'[e] = row[e]
      /\ row' \in [Events -> 0 .. now]
  <2>1. row \in [Events -> 0 .. now] /\ now \in 0 .. now /\ log[i] \in Events
    BY Numbers DEF IndInv, TypeOK
  <2> QED
    BY <1>1, <2>1 DEF now
<1>3. TypeOK'
  BY <1>1, <1>2 DEF IndInv, TypeOK
<1>4. Newest(i) /\ now <= i + Skew
  BY <1>1 DEF IndInv, RowsStand
<1>5. \A j \in 1 .. now : Newest(j) /\ log[j] = log[i] => j = i
  BY <1>4, NewestIsOne DEF IndInv
<1>6. \A j : Newest(j)' <=> Newest(j)
  BY <1>1, <1>2 DEF Newest
<1>7. RowsStand'
  <2>1. ASSUME NEW j \in unmarked'
        PROVE  (row[log[j]] = 0 /\ Newest(j) /\ now <= j + Skew)'
    <3>1. j \in unmarked /\ j # i /\ j \in 1 .. now
      BY <1>1 DEF IndInv, TypeOK
    <3>2. row[log[j]] = 0 /\ Newest(j) /\ now <= j + Skew /\ log[j] \in Events
      BY <3>1, Numbers DEF IndInv, RowsStand
    <3> QED
      BY <1>1, <1>2, <1>5, <1>6, <3>1, <3>2
  <2>2. ASSUME NEW e \in Events, row'[e] # 0
        PROVE  \E j \in 1 .. now' : /\ log'[j] = e /\ Newest(j)'
                                    /\ j <= row'[e] /\ row'[e] <= j + Skew
    <3>1. CASE e = log[i]
      BY <1>1, <1>2, <1>4, <1>6, <3>1, Numbers DEF IndInv
    <3>2. CASE e # log[i]
      <4>1. PICK j \in 1 .. now : log[j] = e /\ Newest(j) /\ j <= row[e] /\ row[e] <= j + Skew
        BY <1>2, <2>2, <3>2 DEF IndInv, RowsStand
      <4> QED
        BY <1>1, <1>2, <1>6, <3>2, <4>1
    <3> QED
      BY <3>1, <3>2
  <2> QED
    BY <2>1, <2>2 DEF RowsStand
<1>8. DeliveredStands'
  BY <1>1, Numbers, DeliveredKept DEF IndInv
<1>9. PassesStand'
  BY <1>1, <1>2, Numbers, PassesKept DEF IndInv, GuardsPass
<1>10. GapsBehind'
  BY <1>1, Numbers, BehindKept DEF IndInv, GuardsHold
<1>11. ASSUME lapses' = {}
       PROVE  NoLapse'
  <2>1. NoLapse
    BY <1>1, <1>11 DEF IndInv
  <2>2. TrimmedMarked'
    BY <1>1, <2>1 DEF NoLapse, TrimmedMarked
  <2>3. TrimmedStay
    <3> SUFFICES ASSUME NEW k \in 1 .. now, k < first, Newest(k), log[k] \notin handled
                 PROVE  row'[log[k]] = row[log[k]]
      BY <1>1, <1>2, <1>6 DEF TrimmedStay
    <3>1. log[k] # log[i]
      BY <1>1, <1>5, <2>1 DEF NoLapse, TrimmedMarked
    <3> QED
      BY <1>2, <3>1, Numbers DEF IndInv
  <2>4. GapsSettled'
    BY <1>1, <1>2, <2>1, <2>3, Numbers, SettledKept DEF IndInv, NoLapse, GuardsReplay
  <2>5. NoMoreMissing
    BY <1>1, <1>3, <1>8, <2>3, FewerMissing DEF IndInv
  <2>6. MissingCovered'
    BY <1>1, <2>1, <2>5, SameCover, MissingKept DEF NoLapse
  <2>7. ReplayedEmpty'
    BY <1>1, <1>2, <2>1, <2>3, Numbers, SameFlight, ReplayedKept DEF IndInv, NoLapse
  <2> QED
    BY <2>2, <2>4, <2>6, <2>7 DEF NoLapse
<1> QED
  BY <1>3, <1>7, <1>8, <1>9, <1>10, <1>11 DEF IndInv

LEMMA ReadStep ==
  ASSUME IndInv, Read
  PROVE  IndInv'
<1>1. PICK next \in Nat :
        /\ next = Most(pos + 1, first) /\ next <= now /\ pos' = next
        /\ pending' = pending \cup {next} /\ active' = TRUE
  <2>1. Most(pos + 1, first) \in Nat
    BY Numbers DEF IndInv, Most
  <2> QED
    BY <2>1 DEF Read
<1>11. lapses' = lapses \cup (IF pos + 1 < first /\ ~Recorded(pos, first)
                              THEN {"read on"} ELSE {})
  BY DEF Read
<1>2. /\ UNCHANGED <<log, row, unmarked, first, handled, gap, guard, trims, faults>>
      /\ now' = now
  BY DEF Read, outboxVars, now
<1>3. /\ pos < next /\ next # 0 /\ first <= next
      /\ \A i \in 1 .. next : i <= pos \/ i = next \/ (i < first /\ pos + 1 < first)
  <2>1. pos \in Nat /\ first \in Nat /\ next = IF pos + 1 < first THEN first ELSE pos + 1
    BY <1>1, Numbers DEF IndInv, Most
  <2> QED
    BY <1>1, <2>1
<1>4. TypeOK'
  <2>1. pos' \in 0 .. now' /\ pending' \subseteq 1 .. pos'
    <3>1. now \in Nat /\ pos \in Nat /\ \A i \in pending : i \in 1 .. pos
      BY Numbers DEF IndInv
    <3>2. next \in 0 .. now' /\ next \in 1 .. next /\ \A i \in 1 .. pos : i \in 1 .. next
      BY <1>1, <1>2, <1>3, <3>1
    <3> QED
      BY <1>1, <3>1, <3>2
  <2>2. lapses' \subseteq Lapses
    BY <1>11 DEF IndInv, TypeOK, Lapses
  <2> QED
    BY <1>1, <1>2, <2>1, <2>2 DEF IndInv, TypeOK
<1>5. RowsStand'
  BY <1>2, RowsKept DEF IndInv
<1>6. DeliveredStands'
  BY <1>1, <1>2, <1>3, Numbers DEF IndInv, DeliveredStands
<1>7. PassesStand'
  BY <1>1, <1>2, <1>3, Numbers, PassesKept DEF IndInv, GuardsPass
<1>8. GapsBehind'
  BY <1>2, Numbers, BehindKept DEF IndInv, GuardsHold
<1>9. TrimmedStay
  BY <1>2, SameTrimmed
<1>10. ASSUME lapses' = {}
       PROVE  NoLapse'
  <2>1. NoLapse
    BY <1>10, <1>11 DEF IndInv
  <2>2. TrimmedMarked'
    BY <1>2, <2>1 DEF NoLapse, TrimmedMarked
  <2>3. GapsSettled'
    BY <1>2, <1>9, <2>1, Numbers, SettledKept DEF IndInv, NoLapse, GuardsReplay
  <2>4. ASSUME NEW i \in 1 .. now, Missing(i)'
        PROVE  Covered(i)
    <3>1. i \in 1 .. next /\ i \notin pending /\ i # next
      BY <1>1, <2>4 DEF Missing
    <3>2. CASE i <= pos
      <4>1. Missing(i)
        BY <1>2, <2>4, <3>1, <3>2, Numbers DEF IndInv, Missing, Newest
      <4> QED
        BY <2>1, <4>1 DEF NoLapse, MissingCovered
    <3>3. CASE ~(i <= pos)
      <4>1. i < first /\ pos + 1 < first
        BY <1>3, <3>1, <3>3
      <4>2. Recorded(pos, first)
        BY <1>10, <1>11, <4>1
      <4>3. CASE Spans(gap, pos, first)
        <5>1. gap # None /\ gap.after \in Nat /\ gap.until \in Nat /\ gap.after <= pos /\ first <= gap.until
          BY <4>3, RecordedGap DEF IndInv, Spans
        <5>2. Inside(gap, i)
          BY <3>3, <4>1, <5>1, Numbers DEF IndInv, Inside
        <5> QED
          BY <5>1, <5>2 DEF Covered
      <4>4. CASE \E g \in Guards : guard[g].pc = "trimmed" /\ Spans(guard[g].gap, pos, first)
        <5>1. PICK g \in Guards : guard[g].pc = "trimmed" /\ Spans(guard[g].gap, pos, first)
          BY <4>4
        <5>2. guard[g].gap.after \in Nat /\ guard[g].gap.until \in Nat
          BY <5>1, HeldGap DEF IndInv, Holding
        <5>3. Inside(guard[g].gap, i)
          BY <3>3, <4>1, <5>1, <5>2, Numbers DEF IndInv, Inside, Spans
        <5> QED
          BY <5>1, <5>3 DEF Covered, At
      <4> QED
        BY <4>2, <4>3, <4>4 DEF Recorded
    <3> QED
      BY <3>2, <3>3
  <2>5. \A i \in 1 .. now : Covered(i) => Covered(i)'
    BY <1>2 DEF Covered, Relied, Inside, At
  <2>6. MissingCovered'
    BY <1>2, <2>4, <2>5 DEF MissingCovered
  <2>7. ReplayedEmpty'
    BY <1>2, <1>9, <2>1, Numbers, SameFlight, ReplayedKept DEF IndInv, NoLapse
  <2> QED
    BY <2>2, <2>3, <2>6, <2>7 DEF NoLapse
<1> QED
  BY <1>4, <1>5, <1>6, <1>7, <1>8, <1>10 DEF IndInv

LEMMA HandleStep ==
  ASSUME IndInv, NEW i \in 1 .. now, Handle(i)
  PROVE  IndInv'
<1>1. /\ UNCHANGED <<log, row, unmarked, first, pos, gap, guard, lapses, trims, faults>>
      /\ pending' = pending \ {i} /\ handled' = handled \cup {log[i]} /\ i \in pending
      /\ active' = active
      /\ now' = now
  BY DEF Handle, outboxVars, now
<1>2. TypeOK'
  BY <1>1, Numbers DEF IndInv, TypeOK
<1>3. RowsStand'
  BY <1>1, RowsKept DEF IndInv
<1>4. DeliveredStands'
  BY <1>1 DEF IndInv, DeliveredStands
<1>5. PassesStand'
  BY <1>1, Numbers, PassesKept DEF IndInv, GuardsPass
<1>6. GapsBehind'
  BY <1>1, Numbers, BehindKept DEF IndInv, GuardsHold
<1>7. TrimmedStay
  BY <1>1 DEF TrimmedStay, Newest
<1>8. ASSUME lapses' = {}
      PROVE  NoLapse'
  <2>1. NoLapse
    BY <1>1, <1>8 DEF IndInv
  <2>2. TrimmedMarked'
    BY <1>1, <2>1 DEF NoLapse, TrimmedMarked
  <2>3. GapsSettled'
    BY <1>1, <1>7, <2>1, Numbers, SettledKept DEF IndInv, NoLapse, GuardsReplay
  <2>4. NoMoreMissing
    BY <1>1, <1>2, <1>4, <1>7, FewerMissing DEF IndInv
  <2>5. MissingCovered'
    BY <1>1, <2>1, <2>4, SameCover, MissingKept DEF NoLapse
  <2>6. ReplayedEmpty'
    BY <1>1, <1>7, <2>1, Numbers, SameFlight, ReplayedKept DEF IndInv, NoLapse
  <2> QED
    BY <2>2, <2>3, <2>5, <2>6 DEF NoLapse
<1> QED
  BY <1>2, <1>3, <1>4, <1>5, <1>6, <1>8 DEF IndInv

LEMMA ReclaimTrimmedStep ==
  ASSUME IndInv, NEW i \in 1 .. now, ReclaimTrimmed(i)
  PROVE  IndInv'
<1>1. /\ UNCHANGED <<log, row, unmarked, first, pos, handled, gap, guard, trims, faults>>
      /\ pending' = pending \ {i} /\ i \in pending /\ i < first /\ active' = active
      /\ now' = now
  BY DEF ReclaimTrimmed, outboxVars, now
<1>9. lapses' = lapses \cup (IF Recorded(i - 1, first) THEN {} ELSE {"read on"})
  BY DEF ReclaimTrimmed
<1>2. TypeOK'
  <2>1. lapses' \subseteq Lapses
    BY <1>9 DEF IndInv, TypeOK, Lapses
  <2> QED
    BY <1>1, <2>1 DEF IndInv, TypeOK
<1>3. RowsStand'
  BY <1>1, RowsKept DEF IndInv
<1>4. DeliveredStands'
  BY <1>1, Numbers DEF IndInv, DeliveredStands
<1>5. PassesStand'
  BY <1>1, Numbers, PassesKept DEF IndInv, GuardsPass
<1>6. GapsBehind'
  BY <1>1, Numbers, BehindKept DEF IndInv, GuardsHold
<1>7. TrimmedStay
  BY <1>1, SameTrimmed
<1>8. ASSUME lapses' = {}
      PROVE  NoLapse'
  <2>1. NoLapse
    BY <1>8, <1>9 DEF IndInv
  <2>2. TrimmedMarked'
    BY <1>1, <2>1 DEF NoLapse, TrimmedMarked
  <2>3. GapsSettled'
    BY <1>1, <1>7, <2>1, Numbers, SettledKept DEF IndInv, NoLapse, GuardsReplay
  <2>4. Covered(i)
    <3>1. Recorded(i - 1, first) /\ i \in Nat /\ i # 0 /\ first \in Nat
      <4>1. Recorded(i - 1, first)
        BY <1>8, <1>9
      <4> QED
        BY <4>1, Numbers DEF IndInv
    <3>2. CASE Spans(gap, i - 1, first)
      <4>1. gap # None /\ gap.after \in Nat /\ gap.until \in Nat
        BY <3>2, RecordedGap DEF IndInv, Spans
      <4>2. Inside(gap, i)
        BY <1>1, <3>1, <3>2, <4>1 DEF Spans, Inside
      <4> QED
        BY <4>1, <4>2 DEF Covered
    <3>3. CASE \E g \in Guards : guard[g].pc = "trimmed" /\ Spans(guard[g].gap, i - 1, first)
      <4>1. PICK g \in Guards : guard[g].pc = "trimmed" /\ Spans(guard[g].gap, i - 1, first)
        BY <3>3
      <4>2. guard[g].gap.after \in Nat /\ guard[g].gap.until \in Nat
        BY <4>1, HeldGap DEF IndInv, Holding
      <4>3. Inside(guard[g].gap, i)
        BY <1>1, <3>1, <4>1, <4>2 DEF Spans, Inside
      <4> QED
        BY <4>1, <4>3 DEF Covered, At
    <3> QED
      BY <3>1, <3>2, <3>3 DEF Recorded
  <2>5. \A k \in 1 .. now : Missing(k)' => k = i \/ Missing(k)
    BY <1>1 DEF Missing, Newest
  <2>6. \A k \in 1 .. now : Covered(k) => Covered(k)'
    BY <1>1 DEF Covered, Relied, Inside, At
  <2>7. MissingCovered'
    BY <1>1, <2>1, <2>4, <2>5, <2>6 DEF NoLapse, MissingCovered
  <2>8. ReplayedEmpty'
    BY <1>1, <1>7, <2>1, Numbers, SameFlight, ReplayedKept DEF IndInv, NoLapse
  <2> QED
    BY <2>2, <2>3, <2>7, <2>8 DEF NoLapse
<1> QED
  BY <1>2, <1>3, <1>4, <1>5, <1>6, <1>8 DEF IndInv

-----------------------------------------------------------------------------
(* Steps that leave the log, the rows and the group as they are, and the gap.*)
LEMMA QuietStep ==
  ASSUME IndInv, TypeOK', PassesStand', GapsBehind',
         UNCHANGED <<log, row, unmarked, pos, pending, handled>>, first <= first',
         lapses' = {} => /\ lapses = {} /\ TrimmedMarked' /\ GapsSettled'
                         /\ CoverStays /\ ReplayedEmpty'
  PROVE  IndInv'
<1>1. first' \in Nat /\ now' = now /\ now \in Nat /\ pos \in Nat
  BY Numbers DEF IndInv, TypeOK, now
<1>2. RowsStand' /\ DeliveredStands'
  BY <1>1, RowsKept, DeliveredKept DEF IndInv
<1>4. ASSUME lapses' = {}
      PROVE  NoLapse'
  <2>1. NoLapse /\ NoMoreMissing
    BY <1>4, SameMissing DEF IndInv
  <2> QED
    BY <1>4, <2>1, MissingKept DEF NoLapse
<1> QED
  BY <1>2, <1>4 DEF IndInv

(* A trim that no lapse comes with takes marked rows or handled events.      *)
LEMMA TrimMarked ==
  ASSUME UNCHANGED <<log, unmarked, handled>>, lapses' = lapses \cup Unmarked(first'),
         lapses' = {}
  PROVE  lapses = {} /\ TrimmedMarked'
<1>1. lapses = {} /\ Unmarked(first') = {}
  OBVIOUS
<1>2. ~\E i \in unmarked : i < first' /\ log[i] \notin handled
  BY <1>1 DEF Unmarked
<1> QED
  BY <1>1, <1>2 DEF TrimmedMarked

LEMMA TrimLapses ==
  ASSUME lapses \subseteq Lapses, NEW kept
  PROVE  lapses \cup Unmarked(kept) \subseteq Lapses
BY DEF Unmarked, Lapses

LEMMA TrimElsewhereStep ==
  ASSUME IndInv, TrimElsewhere
  PROVE  IndInv'
<1>1. /\ UNCHANGED <<log, row, unmarked, pos, pending, handled, active, gap, guard, faults>>
      /\ trims' = trims + 1 /\ trims < MaxTrims /\ now' = now
      /\ first' \in first + 1 .. now + 1 /\ lapses' = lapses \cup Unmarked(first')
  BY DEF TrimElsewhere, outboxVars, groupVars, now
<1>2. first' \in Nat /\ first <= first' /\ first' \in 1 .. now + 1
  BY <1>1, Numbers DEF IndInv
<1>3. TypeOK'
  <2>1. lapses' \subseteq Lapses
    BY <1>1, TrimLapses DEF IndInv, TypeOK
  <2>2. trims' \in 0 .. MaxTrims
    BY <1>1, BoundsAssumption DEF IndInv, TypeOK
  <2> QED
    BY <1>1, <1>2, <2>1, <2>2 DEF IndInv, TypeOK
<1>4. GapsBehind'
  BY <1>1, <1>2, BehindKept DEF IndInv, GuardsHold
<1>5. ASSUME lapses' = {}
      PROVE  /\ lapses = {} /\ TrimmedMarked' /\ GapsSettled'
             /\ CoverStays /\ ReplayedEmpty'
  <2>1. lapses = {} /\ TrimmedMarked'
    BY <1>1, <1>5, TrimMarked
  <2>2. TrimmedStay
    BY <1>1, SameTrimmed
  <2>3. GapsSettled'
    BY <1>1, <2>1, <2>2, Numbers, SettledKept DEF IndInv, NoLapse, GuardsReplay
  <2>4. CoverStays
    BY <1>1, SameCover
  <2>5. ReplayedEmpty'
    BY <1>1, <2>1, <2>2, Numbers, SameFlight, ReplayedKept DEF IndInv, NoLapse
  <2> QED
    BY <2>1, <2>3, <2>4, <2>5
<1>6. PassesStand'
  BY <1>1, Numbers, PassesKept DEF IndInv, GuardsPass
<1> QED
  BY <1>1, <1>2, <1>3, <1>4, <1>5, <1>6, QuietStep

(* One guard moves to where nothing is asked of it, or from a trim it        *)
(* skipped on to the next.                                                   *)
Eases(g) ==
    /\ guard' \in [Guards -> Passes] /\ OthersStay(g)
    /\ guard'[g].batch = {}
    /\ \/ guard'[g].pc \in {"idle", "enforced"}
       \/ /\ guard'[g].pc = "consumed" /\ At(g, "over")
          /\ guard'[g].seen = guard[g].seen

LEMMA EasesPass ==
  ASSUME NEW g \in Guards, Eases(g)
  PROVE  GuardsPass /\ GuardsHold /\ GuardsReplay
BY DEF Eases, OthersStay, GuardsPass, GuardsHold, GuardsReplay

LEMMA AtEaseEases ==
  ASSUME NEW g \in Guards, AtEase(g)
  PROVE  Eases(g)
BY DEF AtEase, Eases

LEMMA EasingStep ==
  ASSUME IndInv, TypeOK', NEW g \in Guards, Eases(g),
         UNCHANGED <<log, row, unmarked, pos, pending, handled, gap>>, first <= first',
         lapses' = {} => lapses = {} /\ TrimmedMarked' /\ CoverStays /\ FlightStays
  PROVE  IndInv'
<1>1. GuardsPass /\ GuardsHold /\ GuardsReplay /\ TrimmedStay
  BY EasesPass, SameTrimmed
<1>2. first' \in Nat /\ now' = now /\ now \in Nat /\ pos \in Nat
  BY Numbers DEF IndInv, TypeOK, now
<1>3. GapsBehind' /\ PassesStand'
  BY <1>1, <1>2, BehindKept, PassesKept DEF IndInv
<1>4. ASSUME lapses' = {}
      PROVE  /\ lapses = {} /\ TrimmedMarked' /\ GapsSettled'
             /\ CoverStays /\ ReplayedEmpty'
  <2>1. NoLapse
    BY <1>4 DEF IndInv
  <2>2. GapsSettled'
    BY <1>1, <1>2, <2>1, SettledKept DEF IndInv, NoLapse
  <2>3. \A h \in Guards : guard'[h] = guard[h] \/ guard'[h].pc \notin {"requeueing", "deleting"}
    BY DEF Eases, OthersStay
  <2>4. ReplayedEmpty'
    BY <1>1, <1>2, <1>4, <2>1, <2>3, ReplayedKept DEF IndInv, NoLapse
  <2> QED
    BY <1>4, <2>2, <2>4
<1> QED
  BY <1>1, <1>3, <1>4, QuietStep

(* The cover of another guard, and of the gap, is not touched.               *)
LEMMA EasingCover ==
  ASSUME NEW g \in Guards, OthersStay(g), UNCHANGED <<gap, log>>, ~At(g, "trimmed"),
         guard[g].batch = {}
  PROVE  CoverStays /\ FlightStays
<1>1. \A h \in Guards : guard'[h] = guard[h] \/ (~At(h, "trimmed") /\ guard[h].batch = {})
  BY DEF OthersStay
<1> QED
  BY <1>1, SameCover, SameFlight

LEMMA NothingLocked ==
  ASSUME IndInv, NEW g \in Guards, ~At(g, "requeueing")
  PROVE  guard[g].batch = {}
BY DEF IndInv, PassesStand, PassStands

LEMMA TrimConsumedStep ==
  ASSUME IndInv, NEW g \in Guards, TrimConsumed(g)
  PROVE  IndInv'
<1> DEFINE mark == Watermark(guard[g].seen)
<1>1. /\ UNCHANGED <<log, row, unmarked, pos, pending, handled, active, gap, lapses, trims, faults>>
      /\ At(g, "over") /\ now' = now
      /\ first' \in first .. Most(first, mark)
      /\ Goto(g, "consumed", guard[g].seen, None) \/ ReplayPhase(g, guard[g].seen)
  BY DEF TrimConsumed, outboxVars, groupVars, now
<1>2. guard[g].seen \in Surveys /\ mark \in Nat /\ mark <= pos /\ \A i \in pending : mark <= i
  BY <1>1, Numbers, WatermarkIsNatural DEF IndInv, PassesStand, PassStands, Passes
<1>3. Eases(g)
  <2>1. CASE Goto(g, "consumed", guard[g].seen, None)
    BY <1>1, <1>2, <2>1, Went DEF IndInv, Eases, PCs
  <2>2. CASE ReplayPhase(g, guard[g].seen)
    BY <2>2, Phased, AtEaseEases DEF IndInv
  <2> QED
    BY <1>1, <2>1, <2>2
<1> HIDE DEF mark
<1>4. /\ first' \in Nat /\ first <= first' /\ first' \in 1 .. now + 1
      /\ first' <= first \/ first' <= mark
  BY <1>1, <1>2, Numbers DEF IndInv, Most
<1>5. TypeOK'
  BY <1>1, <1>3, <1>4 DEF IndInv, TypeOK, Eases, Passes
<1>6. ASSUME lapses = {}
      PROVE  TrimmedMarked'
  <2> SUFFICES ASSUME NEW i \in unmarked, i < first'
               PROVE  log[i] \in handled
    BY <1>1 DEF TrimmedMarked
  <2>1. CASE i < first
    BY <1>6, <2>1 DEF IndInv, NoLapse, TrimmedMarked
  <2>2. CASE ~(i < first)
    BY <1>2, <1>4, <2>2, Numbers DEF IndInv, DeliveredStands
  <2> QED
    BY <2>1, <2>2
<1>7. CoverStays /\ FlightStays
  BY <1>1, <1>3, NothingLocked, EasingCover DEF Eases, At
<1> QED
  BY <1>1, <1>3, <1>4, <1>5, <1>6, <1>7, EasingStep

LEMMA NeededIsTime ==
  ASSUME NEW seen \in Surveys
  PROVE  NeededAfter(seen) \in Times /\ NeededAfter(seen) \in Nat
<1>1. CASE seen.oldest = 0
  BY <1>1, SurveyFields, TimesAreNaturals DEF NeededAfter
<1>2. CASE seen.oldest # 0
  <2>1. seen.oldest - 1 \in Times /\ seen.pos \in Times
    BY <1>2, SurveyFields, BoundsAssumption DEF Times
  <2> QED
    BY <1>2, <2>1, TimesAreNaturals DEF NeededAfter, Least
<1> QED
  BY <1>1, <1>2

LEMMA LostGap ==
  ASSUME TypeOK, NEW seen \in Surveys, seen.last <= now, NEW kept \in first .. now + 1,
         NEW lost, lost = Lost(seen, kept), lost # None
  PROVE  lost \in Gaps /\ lost.after <= lost.until /\ lost.until <= kept
<1>1. PICK bound \in Nat : bound = IF kept <= now THEN kept ELSE seen.last + 1
  BY Numbers, SurveyFields, TimesAreNaturals
<1>2. bound <= kept /\ bound \in Times /\ now \in Times
  BY <1>1, Numbers, SurveyFields, TimesAreNaturals DEF Times
<1>3. /\ NeededAfter(seen) + 1 < bound
      /\ lost = [after |-> NeededAfter(seen), until |-> bound, recorded |-> now]
  BY <1>1 DEF Lost
<1>4. PICK r \in Gaps : r = [after |-> NeededAfter(seen), until |-> bound, recorded |-> now]
  BY <1>2, NeededIsTime DEF Gaps
<1>5. lost = r /\ r.after = NeededAfter(seen) /\ r.until = bound
  BY <1>3, <1>4
<1> QED
  BY <1>2, <1>3, <1>5, NeededIsTime

LEMMA TrimUnreadStep ==
  ASSUME IndInv, NEW g \in Guards, TrimUnread(g)
  PROVE  IndInv'
<1>1. PICK kept \in first .. now + 1 :
        /\ first' = kept /\ lapses' = lapses \cup Unmarked(kept)
        /\ IF Lost(guard[g].seen, kept) = None THEN ReplayPhase(g, guard[g].seen)
           ELSE Goto(g, "trimmed", [NoSurvey EXCEPT !.room = guard[g].seen.room],
                     Lost(guard[g].seen, kept))
  BY DEF TrimUnread
<1>2. PICK lost : lost = Lost(guard[g].seen, kept)
  OBVIOUS
<1>3. /\ UNCHANGED <<log, row, unmarked, pos, pending, handled, active, gap, trims, faults>>
      /\ At(g, "consumed") /\ now' = now
  BY DEF TrimUnread, outboxVars, groupVars, now
<1>4. guard[g].seen \in Surveys /\ guard[g].seen.last <= now
  BY <1>3, Numbers DEF IndInv, PassesStand, PassStands, Passes, At
<1>5. first' \in Nat /\ first <= first' /\ first' \in 1 .. now + 1
  BY <1>1, Numbers DEF IndInv
<1>6. \/ AtEase(g)
      \/ /\ guard' \in [Guards -> Passes] /\ OthersStay(g)
         /\ guard'[g].pc = "trimmed" /\ guard'[g].gap = lost /\ lost # None
         /\ guard'[g].batch = {}
  <2>1. CASE lost = None
    <3>1. ReplayPhase(g, guard[g].seen)
      BY <1>1, <1>2, <2>1
    <3> QED
      BY <3>1, Phased DEF IndInv
  <2>2. CASE lost # None
    <3>1. Goto(g, "trimmed", [NoSurvey EXCEPT !.room = guard[g].seen.room], lost)
      BY <1>1, <1>2, <2>2
    <3>2. lost \in Gaps \cup {None}
      BY <1>2, <1>4, <2>2, LostGap DEF IndInv
    <3>3. [NoSurvey EXCEPT !.room = guard[g].seen.room] \in Surveys
      BY <1>4, RestingState, SurveyFields DEF Surveys
    <3> QED
      BY <2>2, <3>1, <3>2, <3>3, Went DEF IndInv, PCs
  <2> QED
    BY <2>1, <2>2
<1>7. TypeOK'
  <2>1. lapses' \subseteq Lapses
    BY <1>1, TrimLapses DEF IndInv, TypeOK
  <2>2. guard' \in [Guards -> Passes]
    BY <1>6 DEF AtEase
  <2> QED
    BY <1>3, <1>5, <2>1, <2>2 DEF IndInv, TypeOK, Passes
<1>8. ASSUME lapses' = {}
      PROVE  lapses = {} /\ TrimmedMarked' /\ CoverStays /\ FlightStays
  <2>1. lapses = {} /\ TrimmedMarked'
    BY <1>1, <1>3, <1>8, TrimMarked
  <2>2. CoverStays /\ FlightStays
    BY <1>3, <1>6, NothingLocked, EasingCover DEF AtEase, At
  <2> QED
    BY <2>1, <2>2
<1>9. CASE AtEase(g)
  BY <1>3, <1>5, <1>7, <1>8, <1>9, AtEaseEases, EasingStep
<1>10. CASE /\ guard' \in [Guards -> Passes] /\ OthersStay(g)
            /\ guard'[g].pc = "trimmed" /\ guard'[g].gap = lost /\ lost # None
            /\ guard'[g].batch = {}
  <2>1. GuardsPass /\ GuardsReplay /\ TrimmedStay
    BY <1>3, <1>10, SameTrimmed DEF OthersStay, GuardsPass, GuardsReplay
  <2>2. PassesStand'
    BY <1>3, <2>1, Numbers, PassesKept DEF IndInv
  <2>3. GapsBehind'
    <3>1. lost.after <= lost.until /\ lost.until <= first'
      BY <1>1, <1>2, <1>4, <1>10, LostGap DEF IndInv
    <3>2. gap' # None => gap'.until <= first'
      BY <1>3, <1>5, RecordedGap, Numbers DEF IndInv
    <3>3. ASSUME NEW h \in Guards, Holding(h)'
          PROVE  (/\ guard[h].gap # None
                  /\ guard[h].gap.after <= guard[h].gap.until /\ guard[h].gap.until <= first)'
      <4>1. CASE h = g
        BY <1>10, <3>1, <4>1
      <4>2. CASE h # g
        <5>1. guard'[h] = guard[h] /\ Holding(h)
          BY <1>10, <3>3, <4>2 DEF OthersStay, Holding
        <5> QED
          BY <1>5, <5>1, HeldGap, Numbers DEF IndInv
      <4> QED
        BY <4>1, <4>2
    <3> QED
      BY <3>2, <3>3 DEF GapsBehind
  <2>4. ASSUME lapses' = {}
        PROVE  GapsSettled' /\ ReplayedEmpty'
    <3>1. NoLapse
      BY <1>8, <2>4 DEF IndInv
    <3>2. GapsSettled'
      BY <1>3, <2>1, <3>1, Numbers, SettledKept DEF IndInv, NoLapse
    <3>3. \A h \in Guards : guard'[h] = guard[h] \/ guard'[h].pc \notin {"requeueing", "deleting"}
      BY <1>10 DEF OthersStay
    <3>4. ReplayedEmpty'
      BY <1>3, <1>8, <2>1, <2>4, <3>1, <3>3, Numbers, ReplayedKept DEF IndInv, NoLapse
    <3> QED
      BY <3>2, <3>4
  <2> QED
    BY <1>3, <1>5, <1>7, <1>8, <2>2, <2>3, <2>4, QuietStep
<1> QED
  BY <1>6, <1>9, <1>10

(* A guard that records a loss: the windows already recorded stay covered,   *)
(* and its own is covered from here on by the record.                        *)
LEMMA WideningStep ==
  ASSUME IndInv, TypeOK', PassesStand', NEW g \in Guards, OthersStay(g),
         guard[g].batch = {}, guard'[g].batch = {}, guard'[g].pc \notin {"trimmed", "replaying", "requeueing", "deleting"},
         UNCHANGED <<log, row, unmarked, first, pos, pending, handled, lapses>>,
         NEW after \in Times, NEW until \in Times, after <= until, until <= first,
         gap' = Widened(after, until),
         At(g, "trimmed") => after <= guard[g].gap.after /\ guard[g].gap.until <= until
  PROVE  IndInv'
<1>1. /\ gap' \in Gaps /\ gap' # None
      /\ gap'.after <= after /\ until <= gap'.until
      /\ gap'.after <= gap'.until /\ gap'.recorded <= now
      /\ \/ gap'.recorded = now /\ gap'.until \in {until, IF gap = None THEN until ELSE gap.until}
         \/ gap # None /\ gap'.recorded = gap.recorded /\ gap'.until = gap.until
      /\ gap # None => gap'.after <= gap.after /\ gap.until <= gap'.until
  BY Widening DEF IndInv
<1>2. /\ gap'.after \in Nat /\ gap'.until \in Nat /\ gap'.recorded \in Nat
      /\ after \in Nat /\ until \in Nat /\ now' = now /\ now \in Nat /\ first \in Nat
  BY <1>1, GapFields, TimesAreNaturals, Numbers DEF IndInv, now
<1>3. gap # None => gap.after \in Nat /\ gap.until \in Nat /\ gap.until <= first
  BY RecordedGap DEF IndInv
<1>4. GuardsHold /\ GuardsReplay /\ TrimmedStay
  BY SameTrimmed DEF OthersStay, GuardsHold, GuardsReplay
<1>5. gap'.until <= first
  BY <1>1, <1>2, <1>3
<1>6. GapsBehind'
  <2>1. ASSUME NEW h \in Guards, Holding(h)'
        PROVE  (/\ guard[h].gap # None
                /\ guard[h].gap.after <= guard[h].gap.until /\ guard[h].gap.until <= first)'
    <3>1. guard'[h] = guard[h] /\ Holding(h)
      BY <2>1 DEF OthersStay, Holding
    <3> QED
      BY <3>1, HeldGap DEF IndInv
  <2> QED
    BY <1>5, <2>1 DEF GapsBehind
<1>7. ASSUME lapses' = {}
      PROVE  /\ lapses = {} /\ TrimmedMarked' /\ GapsSettled'
             /\ CoverStays /\ ReplayedEmpty'
  <2>1. lapses = {} /\ NoLapse
    BY <1>7 DEF IndInv
  <2>2. TrimmedMarked'
    BY <2>1 DEF NoLapse, TrimmedMarked
  <2>3. GapsSettled'
    <3>1. Settled(gap)'
      <4> SUFFICES ASSUME NEW i \in 1 .. now, i < gap'.until, Newest(i), log[i] \notin handled
                   PROVE  row[log[i]] <= gap'.recorded
        BY <1>2 DEF Settled, Newest
      <4>1. CASE gap'.recorded = now
        BY <4>1, Numbers DEF IndInv
      <4>2. CASE gap # None /\ gap'.recorded = gap.recorded /\ gap'.until = gap.until
        BY <2>1, <4>2 DEF NoLapse, GapsSettled, Settled
      <4> QED
        BY <1>1, <4>1, <4>2
    <3>2. ASSUME NEW h \in Guards, guard'[h].pc \in {"replaying", "requeueing", "deleting"}
          PROVE  Settled(guard[h].gap)'
      <4>1. guard'[h] = guard[h]
        BY <3>2 DEF OthersStay
      <4>2. Settled(guard[h].gap)
        BY <2>1, <3>2, <4>1 DEF NoLapse, GapsSettled
      <4> QED
        BY <1>2, <4>1, <4>2 DEF Settled, Newest
    <3> QED
      BY <3>1, <3>2 DEF GapsSettled
  <2>4. CoverStays
    <3> SUFFICES ASSUME NEW i \in 1 .. now, Covered(i)
                 PROVE  Covered(i)'
      BY DEF CoverStays
    <3>0. i \in Nat
      BY <1>2
    <3>3. CASE Relied(log[i])
      BY <3>3 DEF Covered, Relied, OthersStay
    <3>1. CASE gap # None /\ Inside(gap, i)
      BY <1>1, <1>2, <1>3, <3>0, <3>1 DEF Covered, Inside
    <3>2. ASSUME NEW h \in Guards, At(h, "trimmed"), Inside(guard[h].gap, i)
          PROVE  Covered(i)'
      <4>1. CASE h = g
        <5>1. /\ after <= guard[g].gap.after /\ guard[g].gap.until <= until
              /\ guard[g].gap.after \in Nat /\ guard[g].gap.until \in Nat
          BY <3>2, <4>1, HeldGap DEF IndInv, Holding, At
        <5> QED
          BY <1>1, <1>2, <3>0, <3>2, <4>1, <5>1 DEF Covered, Inside
      <4>2. CASE h # g
        BY <3>2, <4>2 DEF Covered, Inside, At, OthersStay
      <4> QED
        BY <4>1, <4>2
    <3> QED
      BY <3>1, <3>2, <3>3 DEF Covered
  <2>5. ReplayedEmpty'
    <3>1. \A h \in Guards : guard'[h] = guard[h] \/ guard'[h].pc \notin {"requeueing", "deleting"}
      BY DEF OthersStay
    <3>2. FlightStays
      BY SameFlight DEF OthersStay
    <3> QED
      BY <1>2, <1>4, <2>1, <3>1, <3>2, ReplayedKept DEF IndInv, NoLapse
  <2> QED
    BY <2>1, <2>2, <2>3, <2>4, <2>5
<1>8. first <= first'
  BY <1>2
<1> QED
  BY <1>6, <1>7, <1>8, QuietStep

LEMMA RecordTrimmedStep ==
  ASSUME IndInv, NEW g \in Guards, RecordTrimmed(g)
  PROVE  IndInv'
<1>1. /\ UNCHANGED <<log, row, unmarked, first, pos, pending, handled, active, lapses, trims, faults>>
      /\ At(g, "trimmed") /\ now' = now /\ ReplayPhase(g, guard[g].seen)
      /\ gap' = Widened(guard[g].gap.after, guard[g].gap.until)
  BY DEF RecordTrimmed, outboxVars, groupVars, now
<1>2. PICK after \in Times, until \in Times :
        /\ after = guard[g].gap.after /\ until = guard[g].gap.until
        /\ after <= until /\ until <= first /\ after \in Nat /\ until \in Nat
  BY <1>1, HeldGap DEF IndInv, Holding, At
<1>3. AtEase(g)
  BY <1>1, Phased DEF IndInv
<1>4. /\ gap' \in Gaps /\ gap' # None
      /\ gap'.after <= gap'.until /\ gap'.recorded <= now
  BY <1>1, <1>2, Widening DEF IndInv
<1>5. TypeOK'
  BY <1>1, <1>3, <1>4 DEF IndInv, TypeOK, AtEase, Passes
<1>6. PassesStand'
  BY <1>1, <1>3, AtEaseEases, EasesPass, Numbers, PassesKept DEF IndInv
<1>7. /\ guard'[g].pc \notin {"trimmed", "replaying", "requeueing", "deleting"} /\ OthersStay(g)
      /\ guard[g].batch = {} /\ guard'[g].batch = {}
  BY <1>1, <1>3, NothingLocked DEF AtEase, At
<1> QED
  BY <1>1, <1>2, <1>5, <1>6, <1>7, WideningStep

LEMMA SurveyStep ==
  ASSUME IndInv, NEW g \in Guards, Survey(g)
  PROVE  IndInv'
<1>1. /\ UNCHANGED <<log, row, unmarked, first, pos, pending, handled, active, lapses, faults>>
      /\ At(g, "idle") /\ now' = now
  BY DEF Survey, outboxVars, groupVars, now
<1>2. PICK oldest \in Times :
        /\ oldest = IF pending = {} THEN 0 ELSE LeastOf(pending)
        /\ oldest = 0 => pending = {}
        /\ oldest # 0 => oldest \in pending
        /\ \A i \in pending : oldest <= i
  <2>1. CASE pending = {}
    BY <2>1, BoundsAssumption DEF Times
  <2>2. CASE pending # {}
    <3>1. pending \in SUBSET Nat
      BY Numbers DEF IndInv
    <3>2. LeastOf(pending) \in pending /\ \A i \in pending : LeastOf(pending) <= i
      BY <2>2, <3>1, LeastExists
    <3>3. LeastOf(pending) \in Times /\ LeastOf(pending) # 0
      BY <3>2, Numbers DEF IndInv, Times
    <3> QED
      BY <2>2, <3>2, <3>3
  <2> QED
    BY <2>1, <2>2
<1>3. PICK seen \in Surveys :
        seen = [last |-> now, pos |-> pos, room |-> Room, oldest |-> oldest]
  <2>1. now \in Times /\ pos \in Times /\ Room \in BOOLEAN
    BY Numbers DEF IndInv, Times, Room
  <2> QED
    BY <2>1 DEF Surveys
<1>4. seen.last = now /\ seen.pos = pos /\ seen.oldest = oldest
  BY <1>3
<1>5. /\ gap' = IF LossSeen(seen) THEN Widened(NeededAfter(seen), first) ELSE gap
      /\ BudgetPhase(g, seen)
  BY <1>2, <1>3 DEF Survey
<1>6. /\ trims' \in 0 .. MaxTrims /\ guard' \in [Guards -> Passes] /\ OthersStay(g)
      /\ \/ guard'[g].pc \in {"idle", "enforced"}
         \/ guard'[g].pc \in {"over", "consumed"} /\ guard'[g].seen = seen
      /\ guard[g].batch = {} /\ guard'[g].batch = {}
  BY <1>1, <1>5, Budgeted, NothingLocked DEF IndInv, AtEase, At
<1>7. guard'[g].pc \notin {"trimmed", "replaying", "requeueing", "deleting"}
  BY <1>6
<1>8. PassesStand'
  <2>1. Watermark(seen) <= pos /\ \A i \in pending : Watermark(seen) <= i
    BY <1>2, <1>4, Numbers DEF IndInv, Watermark
  <2>2. PassStands(g)'
    BY <1>1, <1>4, <1>6, <2>1, Numbers DEF IndInv, PassStands, At
  <2>3. ASSUME NEW h \in Guards, h # g
        PROVE  PassStands(h)'
    BY <1>1, <1>6, <2>3 DEF IndInv, PassesStand, PassStands, At, OthersStay
  <2> QED
    BY <2>2, <2>3 DEF PassesStand
<1>9. CASE LossSeen(seen)
  <2>1. PICK after \in Times, until \in Times : after = NeededAfter(seen) /\ until = first
    BY NeededIsTime, Numbers DEF IndInv, Times
  <2>2. after <= until /\ until <= first
    <3>1. /\ first \in Nat /\ pos \in Nat /\ now \in Nat /\ first <= now + 1 /\ pos <= now
          /\ oldest \in Nat
      BY Numbers, TimesAreNaturals DEF IndInv
    <3>2. pos < first \/ (oldest # 0 /\ oldest < first)
      BY <1>4, <1>9, <3>1 DEF LossSeen
    <3>3. NeededAfter(seen) <= first
      BY <1>4, <3>1, <3>2 DEF NeededAfter, Least
    <3> QED
      BY <1>4, <2>1, <3>1, <3>3
  <2>3. gap' = Widened(after, until)
    BY <1>5, <1>9, <2>1
  <2>4. /\ gap' \in Gaps /\ gap' # None
        /\ gap'.after <= gap'.until /\ gap'.recorded <= now
    BY <2>2, <2>3, Widening DEF IndInv
  <2>5. TypeOK'
    BY <1>1, <1>6, <2>4 DEF IndInv, TypeOK, Passes
  <2>6. ~At(g, "trimmed")
    BY <1>1 DEF At
  <2> QED
    BY <1>1, <1>6, <1>7, <1>8, <2>2, <2>3, <2>5, <2>6, WideningStep
<1>10. CASE ~LossSeen(seen)
  <2>1. gap' = gap
    BY <1>5, <1>10
  <2>2. TypeOK'
    BY <1>1, <1>6, <2>1 DEF IndInv, TypeOK, Passes
  <2>3. GuardsHold /\ GuardsReplay /\ TrimmedStay
    BY <1>1, <1>6, <1>7, SameTrimmed DEF OthersStay, GuardsHold, GuardsReplay
  <2>4. first \in Nat /\ first <= first'
    BY <1>1, Numbers DEF IndInv
  <2>5. GapsBehind'
    BY <1>1, <2>1, <2>3, <2>4, BehindKept DEF IndInv
  <2>6. ASSUME lapses' = {}
        PROVE  /\ lapses = {} /\ TrimmedMarked' /\ GapsSettled'
               /\ CoverStays /\ ReplayedEmpty'
    <3>1. lapses = {} /\ NoLapse
      BY <1>1, <2>6 DEF IndInv
    <3>2. TrimmedMarked'
      BY <1>1, <3>1 DEF NoLapse, TrimmedMarked
    <3>3. GapsSettled'
      BY <1>1, <2>1, <2>3, <3>1, Numbers, SettledKept DEF IndInv, NoLapse
    <3>4. CoverStays /\ FlightStays
      BY <1>1, <1>6, <2>1, EasingCover DEF At
    <3>5. \A h \in Guards : guard'[h] = guard[h] \/ guard'[h].pc \notin {"requeueing", "deleting"}
      BY <1>6, <1>7 DEF OthersStay
    <3>6. ReplayedEmpty'
      BY <1>1, <2>3, <3>1, <3>4, <3>5, Numbers, ReplayedKept DEF IndInv, NoLapse
    <3> QED
      BY <3>1, <3>2, <3>3, <3>4, <3>6
  <2> QED
    BY <1>1, <1>8, <2>2, <2>4, <2>5, <2>6, QuietStep
<1> QED
  BY <1>9, <1>10

LEMMA ReadGapStep ==
  ASSUME IndInv, NEW g \in Guards, ReadGap(g)
  PROVE  IndInv'
<1>1. /\ UNCHANGED <<log, row, unmarked, first, pos, pending, handled, active, gap, lapses, trims, faults>>
      /\ At(g, "enforced") /\ now' = now
  BY DEF ReadGap, outboxVars, groupVars, now
<1>2. /\ guard' \in [Guards -> Passes] /\ OthersStay(g)
      /\ guard'[g].pc = "idle" \/ (guard'[g].pc = "replaying" /\ gap # None /\ guard'[g].gap = gap)
      /\ guard'[g].batch = {}
  <2>1. CASE gap = None
    <3>1. EndPass(g)
      BY <2>1 DEF ReadGap
    <3> QED
      BY <3>1, Ended DEF IndInv
  <2>2. CASE gap # None
    <3>1. Goto(g, "replaying", NoSurvey, gap)
      BY <2>2 DEF ReadGap
    <3>2. gap \in Gaps \cup {None}
      BY DEF IndInv, TypeOK
    <3> QED
      BY <2>2, <3>1, <3>2, RestingState, Went DEF IndInv, PCs
  <2> QED
    BY <2>1, <2>2
<1>3. TypeOK'
  BY <1>1, <1>2 DEF IndInv, TypeOK, Passes
<1>4. GuardsPass
  BY <1>2 DEF GuardsPass, OthersStay
<1>5. PassesStand'
  BY <1>1, <1>4, Numbers, PassesKept DEF IndInv
<1>6. GapsBehind'
  <2>1. gap' # None => gap'.until <= first'
    BY <1>1, RecordedGap DEF IndInv
  <2>2. ASSUME NEW h \in Guards, Holding(h)'
        PROVE  (/\ guard[h].gap # None
                /\ guard[h].gap.after <= guard[h].gap.until /\ guard[h].gap.until <= first)'
    <3>1. CASE h = g
      BY <1>1, <1>2, <2>2, <3>1, RecordedGap DEF IndInv, Holding
    <3>2. CASE h # g
      <4>1. guard'[h] = guard[h] /\ Holding(h)
        BY <1>2, <2>2, <3>2 DEF OthersStay, Holding
      <4> QED
        BY <1>1, <4>1, HeldGap DEF IndInv
    <3> QED
      BY <3>1, <3>2
  <2> QED
    BY <2>1, <2>2 DEF GapsBehind
<1>7. ASSUME lapses' = {}
      PROVE  /\ lapses = {} /\ TrimmedMarked' /\ GapsSettled'
             /\ CoverStays /\ ReplayedEmpty'
  <2>1. lapses = {} /\ NoLapse
    BY <1>1, <1>7 DEF IndInv
  <2>2. TrimmedMarked'
    BY <1>1, <2>1 DEF NoLapse, TrimmedMarked
  <2>3. GapsSettled'
    <3>1. gap' # None => Settled(gap)'
      BY <1>1, <2>1 DEF NoLapse, GapsSettled, Settled, Newest
    <3>2. ASSUME NEW h \in Guards, guard'[h].pc \in {"replaying", "requeueing", "deleting"}
          PROVE  Settled(guard[h].gap)'
      <4>1. \/ gap # None /\ guard'[h].gap = gap
            \/ guard'[h] = guard[h] /\ guard[h].pc \in {"replaying", "requeueing", "deleting"}
        BY <1>2, <3>2 DEF OthersStay
      <4> QED
        BY <1>1, <2>1, <4>1 DEF NoLapse, GapsSettled, Settled, Newest
    <3> QED
      BY <3>1, <3>2 DEF GapsSettled
  <2>4. CoverStays /\ FlightStays
    BY <1>1, <1>2, NothingLocked, EasingCover DEF At
  <2>5. ReplayedEmpty'
    <3>1. \A h \in Guards : guard'[h] = guard[h] \/ guard'[h].pc \notin {"requeueing", "deleting"}
      BY <1>2 DEF OthersStay
    <3> QED
      BY <1>1, <2>1, <2>4, <3>1, SameTrimmed, Numbers, ReplayedKept DEF IndInv, NoLapse
  <2> QED
    BY <2>1, <2>2, <2>3, <2>4, <2>5
<1>8. first <= first'
  BY <1>1, Numbers DEF IndInv
<1> QED
  BY <1>1, <1>3, <1>5, <1>6, <1>7, <1>8, QuietStep

(* Only rows that were ever appended are in a window, so a window is finite, *)
(* and a batch that is not full took all of it.                              *)
LEMMA WindowIsFinite ==
  ASSUME TypeOK, RowsStand, NEW r \in Gaps
  PROVE  IsFiniteSet(InWindow(r))
<1> DEFINE places == 1 .. now
           image == {log[i] : i \in places}
<1>1. IsFiniteSet(places)
  BY Numbers, FS_Interval
<1>2. IsFiniteSet(image)
  <2>1. [i \in places |-> log[i]] \in Surjection(places, image)
    BY DEF Surjection
  <2> HIDE DEF places, image
  <2> QED
    BY <1>1, <2>1, FS_Surjection
<1>3. InWindow(r) \subseteq image
  <2> SUFFICES ASSUME NEW e \in InWindow(r)
               PROVE  \E i \in 1 .. now : log[i] = e
    OBVIOUS
  <2>1. e \in Events /\ row[e] # 0
    BY Numbers DEF InWindow, Window
  <2> QED
    BY <2>1 DEF RowsStand
<1> HIDE DEF image
<1> QED
  BY <1>2, <1>3, FS_Subset

LEMMA ShortBatchIsAll ==
  ASSUME NEW S, IsFiniteSet(S), NEW b \in Batches(S), ReplayOver(Cardinality(b))
  PROVE  b = S
<1>1. /\ b \subseteq S /\ Cardinality(b) = Least(Batch, Cardinality(S))
      /\ Cardinality(b) < Batch
  BY DEF Batches, ReplayOver
<1>2. Cardinality(S) \in Nat
  BY FS_CardinalityType
<1>3. Cardinality(b) = Cardinality(S)
  BY <1>1, <1>2, BatchAssumption DEF Least
<1> QED
  BY <1>1, <1>3, FS_Subset

(* A guard locks a batch, which is what nobody else has locked; when that is *)
(* short, the rest of the window is in batches it relies on from here on.    *)
LEMMA SelectWindowStep ==
  ASSUME IndInv, NEW g \in Guards, SelectWindow(g)
  PROVE  IndInv'
<1>1. /\ UNCHANGED <<log, row, unmarked, first, pos, pending, handled, active, gap, lapses,
                     trims, faults>>
      /\ At(g, "replaying") /\ now' = now
  BY DEF SelectWindow, outboxVars, groupVars, now
<1>2. PICK r \in Gaps :
        /\ r = guard[g].gap /\ r # None /\ r.after \in Nat /\ r.until \in Nat /\ r.recorded \in Nat
        /\ r.after <= r.until /\ r.until <= first
  BY <1>1, HeldGap DEF IndInv, Holding, At
<1> DEFINE rows == InWindow(guard[g].gap)
           locked == UNION {guard[h].batch : h \in Guards}
<1>3. rows = InWindow(r) /\ \A h \in Guards : guard[h].batch \subseteq locked
  BY <1>2
<1>4. PICK b \in Batches(rows \ locked) :
        guard' = [h \in Guards |->
            IF h = g
            THEN [Resting EXCEPT !.pc = IF b = {} THEN "deleting" ELSE "requeueing",
                                 !.gap = guard[g].gap, !.batch = b]
            ELSE [guard[h] EXCEPT
                     !.passed = @ \/ (ReplayOver(Cardinality(b))
                                       /\ guard[h].batch \cap rows # {})]]
  BY DEF SelectWindow
<1>5. /\ b \subseteq rows /\ rows \subseteq Events
      /\ \A e \in locked : \E h \in Guards : e \in guard[h].batch
  BY DEF Batches, InWindow
<1> HIDE DEF rows, locked
<1>6. /\ guard'[g].pc = IF b = {} THEN "deleting" ELSE "requeueing"
      /\ guard'[g].gap = r /\ guard'[g].batch = b /\ guard'[g] \in Passes
  <2>1. PICK pc \in PCs : pc = IF b = {} THEN "deleting" ELSE "requeueing"
    BY DEF PCs
  <2>2. PICK new \in Passes : new = [pc |-> pc, seen |-> NoSurvey, gap |-> r,
                                     batch |-> b, passed |-> FALSE]
    BY <1>5, RestingState DEF Passes
  <2>3. guard'[g] = new
    BY <1>2, <1>4, <2>1, <2>2 DEF Resting
  <2> QED
    BY <2>1, <2>2, <2>3
<1>7. ASSUME NEW h \in Guards, h # g
      PROVE  /\ guard'[h] \in Passes
             /\ guard'[h].pc = guard[h].pc /\ guard'[h].seen = guard[h].seen
             /\ guard'[h].gap = guard[h].gap /\ guard'[h].batch = guard[h].batch
             /\ guard[h].passed => guard'[h].passed
             /\ ReplayOver(Cardinality(b)) /\ guard[h].batch \cap rows # {} => guard'[h].passed
  <2>1. guard[h] \in Passes
    BY Numbers DEF IndInv
  <2>2. PICK over \in BOOLEAN :
          over <=> (guard[h].passed \/ (ReplayOver(Cardinality(b))
                                         /\ guard[h].batch \cap rows # {}))
    OBVIOUS
  <2>3. guard'[h] = [guard[h] EXCEPT !.passed = over]
    BY <1>4, <1>7, <2>2
  <2> QED
    BY <2>1, <2>2, <2>3 DEF Passes
<1>8. guard' \in [Guards -> Passes]
  BY <1>4, <1>6, <1>7
<1>9. TypeOK'
  BY <1>1, <1>8 DEF IndInv, TypeOK
<1>10. guard[g].batch = {}
  BY <1>1, NothingLocked DEF At
<1>11. PassesStand'
  <2>1. PassStands(g)'
    BY <1>6 DEF PassStands, At
  <2>2. ASSUME NEW h \in Guards, h # g
        PROVE  PassStands(h)'
    BY <1>1, <1>7, <2>2 DEF IndInv, PassesStand, PassStands, At
  <2> QED
    BY <2>1, <2>2 DEF PassesStand
<1>12. GapsBehind'
  <2>1. gap' # None => gap'.until <= first'
    BY <1>1, RecordedGap DEF IndInv
  <2>2. ASSUME NEW h \in Guards, Holding(h)'
        PROVE  (/\ guard[h].gap # None
                /\ guard[h].gap.after <= guard[h].gap.until /\ guard[h].gap.until <= first)'
    <3>1. CASE h = g
      BY <1>1, <1>2, <1>6, <3>1
    <3>2. CASE h # g
      <4>1. guard'[h].gap = guard[h].gap /\ Holding(h)
        BY <1>7, <2>2, <3>2 DEF Holding
      <4> QED
        BY <1>1, <4>1, HeldGap DEF IndInv
    <3> QED
      BY <3>1, <3>2
  <2> QED
    BY <2>1, <2>2 DEF GapsBehind
<1>13. \A e : Relied(e) => Relied(e)'
  BY <1>7, <1>10 DEF Relied
<1>14. ASSUME lapses' = {}
       PROVE  /\ lapses = {} /\ TrimmedMarked' /\ GapsSettled'
              /\ CoverStays /\ ReplayedEmpty'
  <2>1. lapses = {} /\ NoLapse
    BY <1>1, <1>14 DEF IndInv
  <2>2. TrimmedMarked'
    BY <1>1, <2>1 DEF NoLapse, TrimmedMarked
  <2>3. Settled(r)
    BY <1>1, <1>2, <2>1 DEF NoLapse, GapsSettled, At
  <2>4. GapsSettled'
    <3>1. gap' # None => Settled(gap)'
      BY <1>1, <2>1 DEF NoLapse, GapsSettled, Settled, Newest
    <3>2. ASSUME NEW h \in Guards, guard'[h].pc \in {"replaying", "requeueing", "deleting"}
          PROVE  Settled(guard[h].gap)'
      <4>1. Settled(guard[h].gap) /\ guard'[h].gap = guard[h].gap
        BY <1>2, <1>6, <1>7, <2>1, <2>3, <3>2 DEF NoLapse, GapsSettled
      <4> QED
        BY <1>1, <4>1 DEF Settled, Newest
    <3> QED
      BY <3>1, <3>2 DEF GapsSettled
  <2>5. CoverStays
    <3> SUFFICES ASSUME NEW i \in 1 .. now, Covered(i)
                 PROVE  Covered(i)'
      BY DEF CoverStays
    <3>1. CASE gap # None /\ Inside(gap, i)
      BY <1>1, <3>1 DEF Covered, Inside
    <3>2. CASE Relied(log[i])
      BY <1>1, <1>13, <3>2 DEF Covered, Relied
    <3>3. ASSUME NEW h \in Guards, At(h, "trimmed"), Inside(guard[h].gap, i)
          PROVE  Covered(i)'
      <4>1. h # g
        BY <1>1, <3>3 DEF At
      <4> QED
        BY <1>7, <3>3, <4>1 DEF Covered, Inside, At
    <3> QED
      BY <3>1, <3>2, <3>3 DEF Covered
  <2>6. Emptied(g)'
    <3> SUFFICES ASSUME LastBatch(g)', NEW i \in 1 .. now, Inside(r, i), Newest(i),
                        log[i] \notin handled, row[log[i]] # 0, log[i] \notin b
                 PROVE  Relied(log[i])'
      BY <1>1, <1>6 DEF Emptied, Newest, Inside
    <3>1. log[i] \in Events /\ i \in Nat /\ Skew \in Nat /\ now \in Nat
      BY Numbers DEF IndInv
    <3>2. ReplayOver(Cardinality(b))
      <4>1. CASE b = {}
        BY <4>1, FS_EmptySet, BatchAssumption DEF ReplayOver
      <4>2. CASE b # {}
        BY <1>6, <4>2 DEF LastBatch, At
      <4> QED
        BY <4>1, <4>2
    <3>3. log[i] \in rows
      <4>1. PICK j \in 1 .. now : /\ log[j] = log[i] /\ Newest(j)
                                  /\ j <= row[log[i]] /\ row[log[i]] <= j + Skew
        BY <3>1 DEF IndInv, RowsStand
      <4>2. j = i
        BY <4>1, NewestIsOne DEF IndInv
      <4>3. PICK t \in 1 .. now : t = row[log[i]]
        BY <3>1, Numbers DEF IndInv
      <4>4. t <= r.recorded
        BY <2>3, <4>3 DEF Settled, Inside
      <4>5. r.after <= t + Skew /\ t <= r.until + Skew
        BY <1>2, <3>1, <4>1, <4>2, <4>3 DEF Inside
      <4>6. t \in Window(r)
        BY <4>4, <4>5 DEF Window, Least
      <4> QED
        BY <1>3, <3>1, <4>3, <4>6 DEF InWindow
    <3>4. b = rows \ locked
      <4>1. IsFiniteSet(rows \ locked)
        BY <1>3, WindowIsFinite, FS_Subset DEF IndInv
      <4> QED
        BY <3>2, <4>1, ShortBatchIsAll
    <3>5. PICK h \in Guards : log[i] \in guard[h].batch
      BY <1>5, <3>3, <3>4
    <3>6. h # g /\ guard[h].batch \cap rows # {}
      BY <1>10, <3>3, <3>5
    <3> QED
      BY <1>1, <1>7, <3>2, <3>3, <3>5, <3>6 DEF Relied
  <2>7. ASSUME NEW h \in Guards, h # g
        PROVE  Emptied(h)'
    <3>1. LastBatch(h)' => LastBatch(h)
      BY <1>7, <2>7 DEF LastBatch, At, ReplayOver
    <3> QED
      BY <1>1, <1>7, <1>13, <2>1, <2>7, <3>1
         DEF NoLapse, ReplayedEmpty, Emptied, Newest, Inside
  <2> QED
    BY <2>1, <2>2, <2>4, <2>5, <2>6, <2>7 DEF ReplayedEmpty
<1>15. first <= first'
  BY <1>1, Numbers DEF IndInv
<1> QED
  BY <1>1, <1>9, <1>11, <1>12, <1>14, <1>15, QuietStep

(* The batch is NULL in the outbox, and stays what a guard that passed it    *)
(* over relied on.                                                          *)
LEMMA RequeueWindowStep ==
  ASSUME IndInv, NEW g \in Guards, RequeueWindow(g)
  PROVE  IndInv'
<1>1. /\ UNCHANGED <<log, unmarked, first, pos, pending, handled, active, gap, lapses, trims,
                     faults>>
      /\ At(g, "requeueing") /\ now' = now
      /\ row' = [e \in Events |-> IF e \in guard[g].batch THEN 0 ELSE row[e]]
  BY DEF RequeueWindow, groupVars, now
<1>2. PICK r \in Gaps : r = guard[g].gap /\ r # None
  BY <1>1, HeldGap DEF IndInv, Holding, At
<1>3. /\ guard' \in [Guards -> Passes] /\ OthersStay(g) /\ guard'[g].batch = {}
      /\ \/ guard'[g].pc = "idle"
         \/ guard'[g].pc = "deleting" /\ guard'[g].gap = r /\ LastBatch(g)
  <2>1. CASE ReplayOver(Cardinality(guard[g].batch))
    <3>1. Goto(g, "deleting", NoSurvey, r)
      BY <1>2, <2>1 DEF RequeueWindow
    <3> QED
      BY <1>1, <2>1, <3>1, RestingState, Went DEF IndInv, PCs, LastBatch
  <2>2. CASE ~ReplayOver(Cardinality(guard[g].batch))
    <3>1. EndPass(g)
      BY <2>2 DEF RequeueWindow
    <3> QED
      BY <3>1, Ended DEF IndInv
  <2> QED
    BY <2>1, <2>2
<1>4. \A e \in Events : row'[e] = row[e] \/ row'[e] = 0
  BY <1>1
<1>5. \A e \in guard[g].batch : e \in Events /\ row'[e] = 0
  BY <1>1, Numbers DEF IndInv, Passes
<1>6. TypeOK'
  <2>1. row' \in [Events -> 0 .. now]
    BY <1>1, Numbers DEF IndInv, TypeOK
  <2> QED
    BY <1>1, <1>3, <2>1 DEF IndInv, TypeOK
<1>7. RowsStand'
  <2>1. \A i \in unmarked : log[i] \in Events
    BY Numbers DEF IndInv
  <2> QED
    BY <1>1, <1>4, <2>1 DEF IndInv, RowsStand, Newest
<1>8. DeliveredStands'
  BY <1>1, Numbers, DeliveredKept DEF IndInv
<1>9. GuardsPass /\ GuardsHold /\ GuardsReplay
  BY <1>1, <1>2, <1>3 DEF GuardsPass, GuardsHold, GuardsReplay, OthersStay, Holding, At
<1>10. PassesStand'
  BY <1>1, <1>9, Numbers, PassesKept DEF IndInv
<1>11. GapsBehind'
  BY <1>1, <1>9, Numbers, BehindKept DEF IndInv
<1>12. TrimmedStay
  BY <1>1, <1>4, Numbers DEF IndInv, TrimmedStay, Newest
<1>13. FlightStays
  <2> SUFFICES ASSUME NEW e \in Events, NEW h \in Guards, e \in guard[h].batch,
                      guard[h].passed
               PROVE  Relied(e)' \/ row'[e] = 0
    BY DEF FlightStays, Relied
  <2>1. CASE h = g
    BY <1>5, <2>1
  <2>2. CASE h # g
    BY <1>3, <2>2 DEF Relied, OthersStay
  <2> QED
    BY <2>1, <2>2
<1>14. ASSUME lapses' = {}
       PROVE  NoLapse'
  <2>1. NoLapse
    BY <1>1, <1>14 DEF IndInv
  <2>2. TrimmedMarked'
    BY <1>1, <2>1 DEF NoLapse, TrimmedMarked
  <2>3. GapsSettled'
    BY <1>1, <1>9, <1>12, <2>1, Numbers, SettledKept DEF IndInv, NoLapse
  <2>4. NoMoreMissing
    BY <1>1, <1>6, <1>8, <1>12, FewerMissing DEF IndInv
  <2>5. CoverStays
    <3> SUFFICES ASSUME NEW i \in 1 .. now, Missing(i)', Covered(i)
                 PROVE  Covered(i)'
      BY DEF CoverStays
    <3>1. CASE gap # None /\ Inside(gap, i)
      BY <1>1, <3>1 DEF Covered, Inside
    <3>2. CASE Relied(log[i])
      <4>1. log[i] \in Events /\ row'[log[i]] # 0
        BY <1>1, Numbers DEF IndInv, Missing
      <4>2. Relied(log[i])'
        BY <1>1, <1>13, <3>2, <4>1 DEF FlightStays, Relied
      <4> QED
        BY <4>2 DEF Covered
    <3>3. ASSUME NEW h \in Guards, At(h, "trimmed"), Inside(guard[h].gap, i)
          PROVE  Covered(i)'
      <4>1. guard'[h] = guard[h]
        BY <1>1, <1>3, <3>3 DEF OthersStay, At
      <4> QED
        BY <3>3, <4>1 DEF Covered, Inside, At
    <3> QED
      BY <3>1, <3>2, <3>3 DEF Covered
  <2>6. MissingCovered'
    BY <2>1, <2>4, <2>5, MissingKept DEF NoLapse
  <2>7. Emptied(g)'
    <3> SUFFICES ASSUME guard'[g].pc = "deleting", NEW i \in 1 .. now, Inside(r, i), Newest(i),
                        log[i] \notin handled
                 PROVE  row'[log[i]] = 0 \/ Relied(log[i])'
      BY <1>1, <1>3 DEF Emptied, LastBatch, At, Newest, Inside
    <3>1. log[i] \in Events
      BY Numbers DEF IndInv
    <3>2. row[log[i]] = 0 \/ log[i] \in guard[g].batch \/ Relied(log[i])
      BY <1>2, <1>3, <2>1 DEF NoLapse, ReplayedEmpty, Emptied
    <3>3. Relied(log[i]) => Relied(log[i])' \/ row'[log[i]] = 0
      BY <1>1, <1>13, <3>1 DEF FlightStays, Relied
    <3> QED
      BY <1>4, <1>5, <3>1, <3>2, <3>3
  <2>8. ReplayedEmpty'
    <3>1. ASSUME NEW h \in Guards, h # g
          PROVE  Emptied(h)'
      <4>1. guard'[h] = guard[h] /\ Emptied(h) /\ now' \in Nat
        BY <1>1, <1>3, <2>1, <3>1, Numbers DEF IndInv, NoLapse, ReplayedEmpty, OthersStay
      <4> QED
        BY <1>12, <1>13, <4>1, EmptiedKept DEF IndInv
    <3> QED
      BY <2>7, <3>1 DEF ReplayedEmpty
  <2> QED
    BY <2>2, <2>3, <2>6, <2>8 DEF NoLapse
<1> QED
  BY <1>6, <1>7, <1>8, <1>10, <1>11, <1>14 DEF IndInv

LEMMA DeleteGapStep ==
  ASSUME IndInv, NEW g \in Guards, DeleteGap(g)
  PROVE  IndInv'
<1>1. /\ UNCHANGED <<log, row, unmarked, first, pos, pending, handled, active, trims, faults>>
      /\ At(g, "deleting") /\ now' = now /\ gap' = None /\ EndPass(g)
      /\ lapses' = lapses \cup (IF gap \in {None, guard[g].gap} THEN {} ELSE {"overtaken"})
  BY DEF DeleteGap, outboxVars, groupVars, now
<1>2. /\ guard' \in [Guards -> Passes] /\ OthersStay(g) /\ guard'[g].pc = "idle"
  BY <1>1, Ended DEF IndInv
<1>8. guard[g].batch = {} /\ guard'[g].batch = {}
  BY <1>1, Ended, NothingLocked DEF IndInv, At
<1>3. TypeOK'
  <2>1. lapses' \subseteq Lapses
    BY <1>1 DEF IndInv, TypeOK, Lapses
  <2> QED
    BY <1>1, <1>2, <2>1 DEF IndInv, TypeOK, Passes
<1>4. GuardsPass /\ GuardsHold /\ GuardsReplay /\ TrimmedStay
  BY <1>1, <1>2, <1>8, SameTrimmed DEF GuardsPass, GuardsHold, GuardsReplay, OthersStay
<1>5. first \in Nat /\ first <= first' /\ now \in Nat /\ pos \in Nat
  BY <1>1, Numbers DEF IndInv
<1>6. PassesStand' /\ GapsBehind'
  BY <1>1, <1>4, <1>5, PassesKept, BehindKept DEF IndInv
<1>7. ASSUME lapses' = {}
      PROVE  /\ lapses = {} /\ TrimmedMarked' /\ GapsSettled'
             /\ CoverStays /\ ReplayedEmpty'
  <2>1. lapses = {} /\ gap \in {None, guard[g].gap}
    BY <1>1, <1>7
  <2>2. NoLapse
    BY <2>1 DEF IndInv
  <2>3. TrimmedMarked'
    BY <1>1, <2>2 DEF NoLapse, TrimmedMarked
  <2>4. GapsSettled'
    BY <1>1, <1>4, <1>5, <2>2, SettledKept DEF IndInv, NoLapse
  <2>5. CoverStays
    <3> SUFFICES ASSUME NEW i \in 1 .. now, Missing(i), Covered(i)
                 PROVE  Covered(i)'
      BY DEF CoverStays
    <3>1. CASE Relied(log[i])
      BY <1>1, <1>2, <1>8, <3>1 DEF Covered, Relied, OthersStay
    <3>2. CASE gap # None /\ Inside(gap, i)
      <4>1. Relied(log[i])
        BY <1>1, <1>8, <2>1, <2>2, <3>2
           DEF NoLapse, ReplayedEmpty, Emptied, LastBatch, Missing
      <4> QED
        BY <3>1, <4>1
    <3>3. ASSUME NEW h \in Guards, At(h, "trimmed"), Inside(guard[h].gap, i)
          PROVE  Covered(i)'
      <4>1. guard'[h] = guard[h]
        BY <1>1, <1>2, <3>3 DEF OthersStay, At
      <4> QED
        BY <3>3, <4>1 DEF Covered, Inside, At
    <3> QED
      BY <3>1, <3>2, <3>3 DEF Covered
  <2>6. ReplayedEmpty'
    <3>1. \A h \in Guards : guard'[h] = guard[h] \/ guard'[h].pc \notin {"requeueing", "deleting"}
      BY <1>2 DEF OthersStay
    <3>2. FlightStays
      BY <1>2, <1>8, SameFlight DEF OthersStay
    <3> QED
      BY <1>1, <1>4, <1>5, <2>2, <3>1, <3>2, ReplayedKept DEF IndInv, NoLapse
  <2> QED
    BY <2>1, <2>3, <2>4, <2>5, <2>6
<1> QED
  BY <1>1, <1>3, <1>5, <1>6, <1>7, QuietStep

(* A loss, or a batch, that is given up while it matters is a lapse.         *)
LEMMA GivenUp ==
  ASSUME IndInv, NEW g \in Guards, Eases(g), UNCHANGED <<gap, log>>,
         lapses' = lapses \cup Unrecorded(g) \cup RolledBack(g), lapses' = {}
  PROVE  lapses = {} /\ CoverStays /\ FlightStays
<1>1. lapses = {} /\ Unrecorded(g) = {} /\ ~guard[g].passed
  BY DEF RolledBack
<1>2. \A e : Relied(e) => Relied(e)'
  BY <1>1 DEF Relied, Eases, OthersStay
<1>3. CoverStays
  <2> SUFFICES ASSUME NEW i \in 1 .. now, Missing(i), Covered(i)
               PROVE  Covered(i)'
    BY DEF CoverStays
  <2>1. At(g, "trimmed") => ~Inside(guard[g].gap, i)
    BY <1>1 DEF Unrecorded, Missing, Inside
  <2>2. CASE gap # None /\ Inside(gap, i)
    BY <2>2 DEF Covered, Inside
  <2>3. CASE Relied(log[i])
    BY <1>2, <2>3 DEF Covered, Relied
  <2>4. ASSUME NEW h \in Guards, At(h, "trimmed"), Inside(guard[h].gap, i)
        PROVE  Covered(i)'
    <3>1. guard'[h] = guard[h]
      BY <2>1, <2>4 DEF Eases, OthersStay
    <3> QED
      BY <2>4, <3>1 DEF Covered, Inside, At
  <2> QED
    BY <2>2, <2>3, <2>4 DEF Covered
<1> QED
  BY <1>1, <1>2, <1>3 DEF FlightStays

LEMMA FaultStep ==
  ASSUME IndInv, NEW g \in Guards, Eases(g), faults < MaxFaults, faults' = faults + 1,
         UNCHANGED <<log, row, unmarked, first, pos, pending, handled, active, gap, trims>>,
         lapses' = lapses \cup Unrecorded(g) \cup RolledBack(g)
  PROVE  IndInv'
<1>1. TypeOK'
  <2>1. lapses' \subseteq Lapses
    BY DEF IndInv, TypeOK, Lapses, Unrecorded, RolledBack
  <2>2. faults' \in 0 .. MaxFaults
    BY BoundsAssumption DEF IndInv, TypeOK
  <2>3. now' = now
    BY DEF now
  <2> QED
    BY <2>1, <2>2, <2>3 DEF IndInv, TypeOK, Eases, Passes
<1>2. first <= first'
  BY Numbers DEF IndInv
<1>3. ASSUME lapses' = {}
      PROVE  lapses = {} /\ TrimmedMarked' /\ CoverStays /\ FlightStays
  <2>1. lapses = {} /\ CoverStays /\ FlightStays
    BY <1>3, GivenUp
  <2> QED
    BY <2>1 DEF IndInv, NoLapse, TrimmedMarked
<1> QED
  BY <1>1, <1>2, <1>3, EasingStep

LEMMA StepFailsStep ==
  ASSUME IndInv, NEW g \in Guards, StepFails(g)
  PROVE  IndInv'
<1>1. /\ UNCHANGED <<log, row, unmarked, first, pos, pending, handled, active, gap, trims>>
      /\ faults < MaxFaults /\ faults' = faults + 1
      /\ lapses' = lapses \cup Unrecorded(g) \cup RolledBack(g)
  BY DEF StepFails, outboxVars, groupVars
<1>2. \/ At(g, "over") /\ Goto(g, "consumed", guard[g].seen, None)
      \/ ReplayPhase(g, guard[g].seen) \/ EndPass(g)
  BY DEF StepFails, At
<1>3. Eases(g)
  <2>1. CASE At(g, "over") /\ Goto(g, "consumed", guard[g].seen, None)
    <3>1. guard[g].seen \in Surveys
      BY Numbers DEF IndInv, Passes
    <3> QED
      BY <2>1, <3>1, Went DEF IndInv, Eases, PCs
  <2>2. CASE ReplayPhase(g, guard[g].seen)
    BY <2>2, Phased, AtEaseEases DEF IndInv
  <2>3. CASE EndPass(g)
    BY <2>3, Ended DEF IndInv, Eases
  <2> QED
    BY <1>2, <2>1, <2>2, <2>3
<1> QED
  BY <1>1, <1>3, FaultStep

LEMMA CrashStep ==
  ASSUME IndInv, NEW g \in Guards, Crash(g)
  PROVE  IndInv'
<1>1. /\ UNCHANGED <<log, row, unmarked, first, pos, pending, handled, active, gap, trims>>
      /\ faults < MaxFaults /\ faults' = faults + 1
      /\ lapses' = lapses \cup Unrecorded(g) \cup RolledBack(g)
      /\ EndPass(g)
  BY DEF Crash, outboxVars, groupVars
<1>2. Eases(g)
  BY <1>1, Ended DEF IndInv, Eases
<1> QED
  BY <1>1, <1>2, FaultStep

-----------------------------------------------------------------------------
LEMMA Initially == Init => IndInv
<1> SUFFICES ASSUME Init
             PROVE  IndInv
  OBVIOUS
<1>1. now = 0 /\ log \in Seq(Events) /\ first = 1 /\ pos = 0 /\ pending = {} /\ unmarked = {}
  BY DEF Init, now
<1>2. /\ \A g \in Guards : guard[g].pc = "idle"
      /\ guard \in [Guards -> Passes] /\ \A g \in Guards : guard[g].batch = {}
  BY RestingState DEF Init
<1>3. TypeOK
  <2>1. active \in BOOLEAN /\ handled = {} /\ gap = None /\ lapses = {}
    BY DEF Init
  <2>2. row \in [Events -> 0 .. now] /\ trims \in 0 .. MaxTrims /\ faults \in 0 .. MaxFaults
    BY <1>1, BoundsAssumption DEF Init
  <2> QED
    BY <1>1, <1>2, <2>1, <2>2, BoundsAssumption DEF TypeOK
<1>4. RowsStand /\ DeliveredStands
  BY <1>1 DEF Init, RowsStand, DeliveredStands
<1>5. PassesStand /\ GapsBehind
  BY <1>2 DEF Init, PassesStand, PassStands, GapsBehind, Holding, At
<1>6. NoLapse
  BY <1>1, <1>2 DEF Init, NoLapse, TrimmedMarked, GapsSettled, MissingCovered,
                    ReplayedEmpty, Emptied, LastBatch, At
<1> QED
  BY <1>3, <1>4, <1>5, <1>6 DEF IndInv

(* Whether the readers are silent matters to the gate alone.                 *)
LEMMA SilentStep ==
  ASSUME IndInv, active' \in BOOLEAN,
         UNCHANGED <<log, row, unmarked, first, pos, pending, handled, gap, guard, lapses,
                     trims, faults>>
  PROVE  IndInv'
<1>1. now' = now
  BY DEF now
<1>2. TypeOK'
  BY <1>1 DEF IndInv, TypeOK
<1>3. PassesStand' /\ GapsBehind'
  BY <1>1 DEF IndInv, PassesStand, PassStands, GapsBehind, Holding, At
<1>4. ASSUME lapses' = {}
      PROVE  /\ lapses = {} /\ TrimmedMarked' /\ GapsSettled'
             /\ CoverStays /\ ReplayedEmpty'
  <2>1. lapses = {} /\ NoLapse
    BY <1>4 DEF IndInv
  <2>2. TrimmedMarked' /\ GapsSettled'
    BY <1>1, <2>1 DEF NoLapse, TrimmedMarked, GapsSettled, Settled, Newest
  <2>3. CoverStays
    BY SameCover
  <2>4. ReplayedEmpty'
    BY <1>1, <2>1 DEF NoLapse, ReplayedEmpty, Emptied, LastBatch, Relied, Newest, Inside, At
  <2> QED
    BY <2>1, <2>2, <2>3, <2>4
<1>5. first <= first'
  BY Numbers DEF IndInv
<1> QED
  BY <1>2, <1>3, <1>4, <1>5, QuietStep

LEMMA FallsSilentStep ==
  ASSUME IndInv, FallsSilent
  PROVE  IndInv'
<1>1. /\ UNCHANGED <<log, row, unmarked, first, pos, pending, handled, gap, guard, lapses,
                     trims, faults>>
      /\ active' = FALSE
  BY DEF FallsSilent, outboxVars
<1> QED
  BY <1>1, SilentStep

LEMMA StutterStep ==
  ASSUME IndInv, UNCHANGED vars
  PROVE  IndInv'
<1>1. /\ UNCHANGED <<log, row, unmarked, first, pos, pending, handled, gap, guard, lapses,
                     trims, faults>>
      /\ active' = active /\ active \in BOOLEAN
  BY DEF vars, IndInv, TypeOK
<1> QED
  BY <1>1, SilentStep

LEMMA NextStep == IndInv /\ [Next]_vars => IndInv'
<1> SUFFICES ASSUME IndInv, [Next]_vars
             PROVE  IndInv'
  OBVIOUS
<1>1. CASE Dispatch
  BY <1>1, PublishStep, MarkPublishedStep DEF Dispatch
<1>2. CASE Consume
  BY <1>2, ReadStep, HandleStep, ReclaimTrimmedStep DEF Consume
<1>3. CASE TrimElsewhere
  BY <1>3, TrimElsewhereStep
<1>4. ASSUME NEW g \in Guards, Pass(g)
      PROVE  IndInv'
  BY <1>4, SurveyStep, TrimConsumedStep, TrimUnreadStep, RecordTrimmedStep, ReadGapStep,
     SelectWindowStep, RequeueWindowStep, DeleteGapStep DEF Pass
<1>5. ASSUME NEW g \in Guards, StepFails(g) \/ Crash(g)
      PROVE  IndInv'
  BY <1>5, StepFailsStep, CrashStep
<1>6. CASE FallsSilent
  BY <1>6, FallsSilentStep
<1>7. CASE UNCHANGED vars
  BY <1>7, StutterStep
<1> QED
  BY <1>1, <1>2, <1>3, <1>4, <1>5, <1>6, <1>7 DEF Next

(* Rows, deliveries, surveys and gaps stand in every state, and up to a      *)
(* first lapse every entry the group lost is covered by a window.            *)
THEOREM Invariance == Spec => []IndInv
<1>1. Init => IndInv
  BY Initially
<1>2. IndInv /\ [Next]_vars => IndInv'
  BY NextStep
<1> QED
  BY <1>1, <1>2, PTL DEF Spec

-----------------------------------------------------------------------------
(* The state is of its type: a window has its ends in order, a row bears a   *)
(* time that has been, a guard has at most one record in hand.               *)
THEOREM TypeCorrectness == Spec => []TypeOK
<1>1. IndInv => TypeOK
  BY DEF IndInv
<1> QED
  BY <1>1, Invariance, PTL

(* Up to a first lapse, an event the group has yet to handle is in the       *)
(* outbox, with the group, in the hands of a guard about to record its loss  *)
(* or to requeue its row, or in the window a replay requeues ("never misses  *)
(* one").                                                                    *)
THEOREM LossesAreRecoverable == Spec => []LossIsRecoverable
<1>1. IndInv => LossIsRecoverable
  <2> SUFFICES ASSUME IndInv, lapses = {}, NEW e \in Events, e \notin handled,
                      ~Unpublished(e), ~OfGroup(e)
               PROVE  \/ AboutToRecord(e) \/ AboutToRequeue(e)
                      \/ gap # None /\ e \in InWindow(gap)
    BY DEF LossIsRecoverable, NothingForgotten, Kept
  <2>1. row[e] # 0
    <3> SUFFICES ASSUME row[e] = 0
                 PROVE  FALSE
      OBVIOUS
    <3>1. PICK i \in unmarked : log[i] = e
      BY DEF Unpublished
    <3>2. i \in 1 .. now /\ first <= i
      BY <3>1, Numbers DEF IndInv, NoLapse, TrimmedMarked
    <3>3. i <= pos /\ i \notin pending
      BY <3>1, <3>2, Numbers DEF IndInv, OfGroup
    <3> QED
      BY <3>1, <3>2, <3>3, Numbers DEF IndInv, DeliveredStands
  <2>2. PICK i \in 1 .. now : log[i] = e /\ Newest(i) /\ i <= row[e] /\ row[e] <= i + Skew
    BY <2>1 DEF IndInv, RowsStand
  <2>3. Missing(i)
    BY <2>1, <2>2, Numbers DEF IndInv, Missing, OfGroup
  <2>4. Covered(i)
    BY <2>3 DEF IndInv, NoLapse, MissingCovered
  <2>5. i \in Nat /\ Skew \in Nat /\ Skew # 0
    BY Numbers, SkewAssumption DEF IndInv
  <2>6. CASE gap # None /\ Inside(gap, i)
    <3>1. gap.after \in Nat /\ gap.until \in Nat /\ gap.recorded \in Nat
      BY <2>6, RecordedGap DEF IndInv
    <3>2. PICK t \in 1 .. now : t = row[e]
      BY <2>1, Numbers DEF IndInv
    <3>3. t <= gap.recorded
      BY <2>2, <2>6, <3>2 DEF IndInv, NoLapse, GapsSettled, Settled, Inside
    <3>4. gap.after <= t + Skew /\ t <= gap.until + Skew
      BY <2>2, <2>5, <2>6, <3>1, <3>2 DEF Inside
    <3>5. t \in Window(gap)
      BY <3>3, <3>4 DEF Window, Least
    <3> QED
      BY <2>6, <3>2, <3>5 DEF InWindow
  <2>7. ASSUME NEW g \in Guards, At(g, "trimmed"), Inside(guard[g].gap, i)
        PROVE  AboutToRecord(e)
    <3>1. guard[g].gap.until \in Nat
      BY <2>7, HeldGap DEF IndInv, Holding, At
    <3>2. guard[g].gap.after < i /\ i < guard[g].gap.until + Skew
      BY <2>5, <2>7, <3>1 DEF Inside
    <3> QED
      BY <2>2, <2>7, <3>2 DEF AboutToRecord
  <2>8. CASE Relied(log[i])
    BY <2>2, <2>8 DEF Relied, AboutToRequeue
  <2> QED
    BY <2>4, <2>6, <2>7, <2>8 DEF Covered
<1> QED
  BY <1>1, Invariance, PTL

(* The first phase of a trim takes only what the group read and does not     *)
(* have pending, however old its survey is by then.                          *)
THEOREM ConsumedTrimsAreFree == Spec => ConsumedTrimIsFree
<1>1. IndInv /\ [Next]_vars =>
          [(\E g \in Guards : At(g, "over") /\ guard'[g] # guard[g])
               => \A i \in first .. first' - 1 : i <= pos /\ i \notin pending]_vars
  <2> SUFFICES ASSUME IndInv, Next, NEW g \in Guards, At(g, "over"), guard'[g] # guard[g]
               PROVE  \A i \in first .. first' - 1 : i <= pos /\ i \notin pending
    OBVIOUS
  <2>1. first \in Nat /\ pos \in Nat
    BY Numbers DEF IndInv
  <2>2. CASE first' = first
    BY <2>1, <2>2
  <2>3. CASE TrimConsumed(g)
    <3>1. /\ Watermark(guard[g].seen) \in Nat /\ Watermark(guard[g].seen) <= pos
          /\ \A i \in pending : Watermark(guard[g].seen) <= i
      BY Numbers, WatermarkIsNatural DEF IndInv, PassesStand, PassStands, Passes
    <3>2. first' \in Nat /\ (first' <= first \/ first' <= Watermark(guard[g].seen))
      BY <2>1, <2>3, <3>1 DEF TrimConsumed, Most
    <3>3. ASSUME NEW i \in first .. first' - 1
          PROVE  i <= pos /\ i \notin pending
      <4>1. PICK mark \in Nat : mark = Watermark(guard[g].seen)
        BY <3>1
      <4>2. PICK end \in Nat : end = first' /\ (end <= first \/ end <= mark)
        BY <3>2, <4>1
      <4>3. i \in first .. end - 1
        BY <4>2
      <4>4. i \in Nat /\ first <= i /\ i < end
        BY <2>1, <4>3
      <4>5. i < mark
        BY <2>1, <4>2, <4>4
      <4> QED
        BY <2>1, <3>1, <4>1, <4>4, <4>5
    <3> QED
      BY <3>3
  <2>4. ASSUME NEW h \in Guards, h # g
        PROVE  ~TrimConsumed(h) /\ ~TrimUnread(h)
    <3>1. ASSUME TrimConsumed(h) \/ TrimUnread(h)
          PROVE  OthersStay(h)
      <4>2. guard[h].seen \in Surveys
        BY Numbers DEF IndInv, Passes
      <4>3. CASE TrimConsumed(h)
        BY <4>2, <4>3, Went, Phased DEF IndInv, TrimConsumed, PCs, AtEase
      <4>4. CASE TrimUnread(h)
        <5>1. PICK lost : \/ ReplayPhase(h, guard[h].seen)
                          \/ Goto(h, "trimmed",
                                  [NoSurvey EXCEPT !.room = guard[h].seen.room], lost)
          BY <4>4 DEF TrimUnread
        <5>2. CASE ReplayPhase(h, guard[h].seen)
          BY <5>2, Phased DEF IndInv, AtEase
        <5>3. CASE Goto(h, "trimmed", [NoSurvey EXCEPT !.room = guard[h].seen.room], lost)
          BY <5>3, Numbers DEF IndInv, Goto, OthersStay
        <5> QED
          BY <5>1, <5>2, <5>3
      <4> QED
        BY <3>1, <4>3, <4>4
    <3> QED
      BY <2>4, <3>1 DEF OthersStay
  <2>5. ~TrimUnread(g) /\ ~TrimElsewhere
    BY DEF TrimUnread, TrimElsewhere, At
  <2>6. ASSUME NEW h \in Guards
        PROVE  /\ Survey(h) \/ RecordTrimmed(h) \/ ReadGap(h) => first' = first
               /\ SelectWindow(h) \/ RequeueWindow(h) \/ DeleteGap(h) => first' = first
               /\ StepFails(h) \/ Crash(h) => first' = first
    BY DEF Survey, RecordTrimmed, ReadGap, SelectWindow, RequeueWindow, DeleteGap, StepFails,
           Crash
  <2>7. Dispatch \/ Consume \/ FallsSilent => first' = first
    BY DEF Dispatch, Consume, FallsSilent, Publish, MarkPublished, Read, Handle, ReclaimTrimmed
  <2> QED
    BY <2>2, <2>3, <2>4, <2>5, <2>6, <2>7 DEF Next, Pass
<1> QED
  BY <1>1, Invariance, PTL DEF Spec, ConsumedTrimIsFree

=============================================================================
