--------------------------- MODULE MCScheduleRuns ---------------------------
\* Instances of ScheduleRuns for TLC.
EXTENDS ScheduleRuns, TLC

MCSymmetry == Permutations(Workers) \cup Permutations(Occurrences)
=============================================================================
