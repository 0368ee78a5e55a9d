----------------------------- MODULE MCWaitSweep ----------------------------
\* Two timers, an open form and a step on a function: what one deployment holds.
EXTENDS WaitSweep, TLC

CONSTANTS t1, t2, f, m

MCKindOf == (t1 :> "TIME") @@ (t2 :> "TIME") @@ (f :> "HUMAN") @@ (m :> "MACHINE")

MCSymmetry == Permutations({t1, t2})
=============================================================================
