-------------------------- MODULE OutboxWakeProofs --------------------------
(***************************************************************************)
(* Proofs about OutboxWake, for every set of events.                       *)
(***************************************************************************)
EXTENDS OutboxWake, TLAPS

\* The types of OutboxWake's variables hold in every reachable state.
THEOREM TypeCorrect == Spec => []TypeOK
<1>1. Init => TypeOK
  BY DEF Init, TypeOK, Connections
<1>2. TypeOK /\ [Next]_vars => TypeOK'
  <2> SUFFICES ASSUME TypeOK, [Next]_vars PROVE TypeOK'
    OBVIOUS
  <2>1. ASSUME NEW e \in Events, Commit(e) \/ BecomeReady(e) \/ ClaimedElsewhere(e)
        PROVE  TypeOK'
    BY <2>1 DEF TypeOK, Commit, BecomeReady, ClaimedElsewhere, Listening
  <2>2. CASE Dispatch
    BY <2>2 DEF TypeOK, Dispatch, ClaimBatch, FinishBatch, BeginWait, Woken,
                FallbackPoll, ClearWake
  <2>3. CASE Listen
    BY <2>3 DEF TypeOK, Listen, Connect, ServeConnection, OnNotify, Disconnect,
                GoDeaf, Connections, Ready
  <2>4. CASE UNCHANGED vars
    BY <2>4 DEF TypeOK, vars
  <2> QED
    BY <2>1, <2>2, <2>3, <2>4 DEF Next
<1> QED
  BY <1>1, <1>2, PTL DEF Spec

\* Every step keeps the promise that a row the dispatcher could not see at its
\* last claim is either quiet or announced.
LEMMA AnnouncedStep == TypeOK /\ Announced /\ [Next]_vars => Announced'
<1> SUFFICES ASSUME TypeOK, Announced, [Next]_vars PROVE Announced'
  OBVIOUS
<1> USE DEF TypeOK, Announced, Ready
<1>1. ASSUME NEW e \in Events, Commit(e)
      PROVE  Announced'
  <2>1. CASE Listening
    <3>1. inFlight' /\ quiet' = quiet /\ quiet \subseteq Ready'
      BY <1>1, <2>1 DEF Commit
    <3> QED
      BY <3>1
  <2>2. CASE ~Listening
    <3>1. Ready' = Ready \cup {e} /\ quiet' = quiet \cup {e}
      BY <1>1, <2>2 DEF Commit
    <3>2. pc' = pc /\ wake' = wake /\ inFlight' = inFlight
      BY <1>1, <2>2 DEF Commit
    <3> QED
      BY <3>1, <3>2
  <2> QED
    BY <2>1, <2>2
<1>2. ASSUME NEW e \in Events, BecomeReady(e)
      PROVE  Announced'
  <2>1. Ready' = Ready \cup {e} /\ quiet' = quiet \cup {e}
    BY <1>2 DEF BecomeReady
  <2> QED
    BY <1>2, <2>1 DEF BecomeReady
<1>3. ASSUME NEW e \in Events, ClaimedElsewhere(e)
      PROVE  Announced'
  <2>1. Ready' = Ready \ {e} /\ quiet' = quiet \ {e}
    BY <1>3 DEF ClaimedElsewhere
  <2> QED
    BY <1>3, <2>1 DEF ClaimedElsewhere
<1>4. CASE ClaimBatch
  <2>1. quiet' = {} /\ Ready' = {}
    BY <1>4 DEF ClaimBatch
  <2> QED
    BY <2>1
<1>5. CASE FinishBatch \/ BeginWait \/ Woken \/ FallbackPoll \/ ClearWake
  BY <1>5 DEF FinishBatch, BeginWait, Woken, FallbackPoll, ClearWake
<1>6. CASE Connect \/ ServeConnection \/ OnNotify
  BY <1>6 DEF Connect, ServeConnection, OnNotify
<1>7. CASE Disconnect \/ GoDeaf
  BY <1>7 DEF Disconnect, GoDeaf
<1>8. CASE UNCHANGED vars
  BY <1>8 DEF vars
<1> QED
  BY <1>1, <1>2, <1>3, <1>4, <1>5, <1>6, <1>7, <1>8 DEF Next, Dispatch, Listen

\* No order of commits, notifications, reconnects, wakes and clears makes the
\* dispatcher sleep on work it could have been told of.
THEOREM NoLostWakeUp == Spec => []NothingOverlooked
<1>1. Init => Announced
  BY DEF Init, Announced, Ready
<1>2. TypeOK /\ Announced => NothingOverlooked
  BY DEF TypeOK, Announced, NothingOverlooked, Ready
<1> QED
  BY <1>1, <1>2, TypeCorrect, AnnouncedStep, PTL DEF Spec
=============================================================================
