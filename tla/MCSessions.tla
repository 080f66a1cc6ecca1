----------------------------- MODULE MCSessions -----------------------------
(* Sessions on small instances: the symmetry of interchangeable tokens.    *)
EXTENDS Sessions, TLC

TokenSymmetry == Permutations(Token) \cup Permutations(Sid)
=============================================================================
