-------------------------- MODULE ContainerPromise --------------------------
(***************************************************************************)
(* What ContainerHeap promises of memory as a whole: what is lost is lost  *)
(* to cycles, and a script sees none of it (PyHeap).                       *)
(***************************************************************************)
EXTENDS ContainerHeap

\* The containers in the values of o.
Inside(o) == {Slots(kind[o], body[o])[s] : s \in DOMAIN Slots(kind[o], body[o])} \cap Objects

\* The nodes that can be reached from those in from: every set that has these,
\* and what is inside its own members, has them all.
Closed(S) == \A o \in S : Inside(o) \subseteq S
Reachable(from) == {o \in Objects : \A S \in SUBSET Objects : from \subseteq S /\ Closed(S) => o \in S}

InUse == Reachable(Containers)

\* Memory is lost to cycles only: between statements a node no variable leads
\* to, that is not deleted, is held by a container that holds itself.
LeaksAreCycles ==
  Between =>
    \A o \in Objects \ InUse :
      kind[o] # "free" =>
        \E p \in Objects \ InUse : p \in Reachable(Inside(p)) /\ o \in Reachable({p})

\* A container as a script sees it, and all it can see.
Seen(o) == [kind |-> kind[o], body |-> body[o]]
Sight == [o \in InUse |-> Seen(o)]

\* No statement shows that containers are counted: names and what they lead to
\* change as if containers lived for ever.
Python == INSTANCE PyHeap WITH names <- env, contents <- Sight
ActsLikePython == Python!Spec
=============================================================================
