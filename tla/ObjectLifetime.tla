--------------------------- MODULE ObjectLifetime ---------------------------
(***************************************************************************)
(* What the object model promises to every user of object_p, object_r and  *)
(* McValue (src/src/object.h): an object that something refers to exists,  *)
(* an object nothing refers to is destroyed exactly once, and nothing can  *)
(* refer again to an object once its last reference is gone.  The promise  *)
(* says nothing of counters: ObjectRef shows how count_ keeps it.          *)
(***************************************************************************)
CONSTANTS
  Objects,   \* the memory an object may live in
  Tokens     \* whatever may refer to an object

VARIABLES
  alive,     \* the objects that are constructed and not yet destroyed
  refs       \* refs[o]: the tokens that refer to o

vars == <<alive, refs>>

TypeOK ==
  /\ alive \in SUBSET Objects
  /\ refs \in [Objects -> SUBSET Tokens]

Init ==
  /\ alive = {}
  /\ refs = [o \in Objects |-> {}]

\* References only come from references: none appears at an unreferenced o.
NoneFromNothing(o) == refs'[o] # {} => refs[o] # {}

Share ==
  /\ alive' = alive
  /\ refs' \in [Objects -> SUBSET Tokens]
  /\ \A o \in Objects : NoneFromNothing(o)

Create(n) ==
  /\ n \notin alive
  /\ alive' = alive \cup {n}
  /\ refs' \in [Objects -> SUBSET Tokens]
  /\ refs'[n] # {}
  /\ \A o \in Objects \ {n} : NoneFromNothing(o)

Destroy(d) ==
  /\ d \in alive
  /\ refs[d] = {}
  /\ alive' = alive \ {d}
  /\ UNCHANGED refs

Next ==
  \/ Share
  \/ \E n \in Objects : Create(n)
  \/ \E d \in Objects : Destroy(d)

Safe == Init /\ [][Next]_vars

\* An object without references is not kept: it is destroyed some time later.
Spec == Safe /\ \A d \in Objects : WF_vars(Destroy(d))

\* The state half of the promise: whatever is referred to exists.
HeldIsAlive == \A o \in Objects : refs[o] # {} => o \in alive
=============================================================================
