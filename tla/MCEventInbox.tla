---------------------------- MODULE MCEventInbox ----------------------------
(***************************************************************************)
(* Instances of EventInbox for TLC: two entries that carry one event, a    *)
(* reading and a reclaiming lane per process.                              *)
(***************************************************************************)
EXTENDS EventInbox, TLC

CONSTANTS g1, g2, r1, r2, c1, c2

MCOneEvent == [m \in Messages |-> CHOOSE e \in EventIds : TRUE]

MCOneGroup == [l \in Lanes |-> g1]

MCTwoGroups == [l \in Lanes |-> IF l \in {r1, c1} THEN g1 ELSE g2]

MCSymmetry == Permutations(Reclaimers) \cup Permutations(Readers)
              \cup Permutations(Messages)
=============================================================================
