----------------------------- MODULE MCFindings -----------------------------
EXTENDS Findings, TLC
Symmetric == Permutations(Worker)
\* At the start there is everything to find.
Everything == {Ids}
=============================================================================
