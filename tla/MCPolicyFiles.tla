--------------------------- MODULE MCPolicyFiles ---------------------------
EXTENDS PolicyFiles

\* Two of the one command and one of the other: a merge each way, and a second
\* one that read before either.
MCCommand == [p \in Procs |-> IF p = "generate" THEN "generate" ELSE "apply"]
=============================================================================
