--------------------------- MODULE MCContainerHeap ---------------------------
(* ContainerHeap with the symmetry of variables and of the places in memory. *)
EXTENDS ContainerPromise, TLC

Indices == -1..0

\* Two states that differ in the last statement only have the same future.
State == <<env, kind, body, count, due, gain, temps, stale>>

Symmetry == Permutations(Objects) \cup Permutations(Vars)
=============================================================================
