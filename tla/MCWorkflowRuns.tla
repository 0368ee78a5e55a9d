--------------------------- MODULE MCWorkflowRuns ---------------------------
\* Small workflows for TLC.  Chain meets every kind of wait once; Loop passes
\* the same timer twice, which is what iterations of a loop are to the engine.
EXTENDS WorkflowRuns, TLC

CONSTANTS j1, j2

Suspension(n, kind) == [node |-> n, kind |-> kind]

Chain == <<Suspension("agent", "AGENT"), Suspension("timer", "TIME"),
           Suspension("fn", "FUNCTION"), Suspension("form", "HUMAN")>>
Filling == <<Suspension("form", "HUMAN"), Suspension("timer", "TIME"),
             Suspension("fn", "FUNCTION")>>
Loop == <<Suspension("timer", "TIME"), Suspension("timer", "TIME")>>

JobSymmetry == Permutations(Jobs)
=============================================================================
