--------------------------- MODULE MCFunctionRun ---------------------------
\* Instances of FunctionRun for TLC: two dispatchers that may hold one run.
EXTENDS FunctionRun
=============================================================================
