------------------------- MODULE MCFunctionRegistry -------------------------
(* FunctionRegistry with the symmetry of its threads, names and functions. *)
EXTENDS FunctionRegistry, TLC

Symmetry == Permutations(Threads) \cup Permutations(Names) \cup Permutations(Functions)
=============================================================================
