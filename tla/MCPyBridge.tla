----------------------------- MODULE MCPyBridge -----------------------------
(* Two threads, three Python variables and three C++ objects, one a module. *)
EXTENDS PyBridge, TLC

Symmetry ==
  Permutations(Wrappers) \cup Permutations(Threads) \cup Permutations(Objects \ ModuleObjects)
=============================================================================
