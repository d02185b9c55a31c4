----------------------------- MODULE MCObjectRef -----------------------------
(* ObjectRef with the symmetry of its threads, addresses and handles. *)
EXTENDS ObjectRef, TLC

Symmetry ==
  Permutations(Threads) \cup Permutations(Objects)
    \cup Permutations(Locals) \cup Permutations(Fields)
=============================================================================
