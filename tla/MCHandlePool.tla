----------------------------- MODULE MCHandlePool -----------------------------
(* HandlePool for TLC.  Dimensions and threads are model values that the   *)
(* specification only compares, so they are interchangeable.               *)
EXTENDS HandlePool

Symmetry == Permutations(Known) \cup Permutations(Caller)
==============================================================================
