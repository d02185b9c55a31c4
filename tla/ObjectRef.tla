------------------------------ MODULE ObjectRef ------------------------------
(***************************************************************************)
(* Intrusive reference counting: object_t, object_p, MakeObject and the    *)
(* CopyOnWrite method of src/src/object.h.                                 *)
(*                                                                         *)
(* A handle is one object_p.  It is either a local of some thread or a     *)
(* field of a heap object, and holds in data its data_ member.  Only the   *)
(* counter is atomic in the code: an operation of object_p is a pointer    *)
(* update, then IncCounter, then DecCounter, and other threads run between *)
(* them.  The registers gain and drop of a thread are the increment and    *)
(* the decrement it still owes; reap is the destructor it is in and outer   *)
(* the one that waits for a destructor to return.                          *)
(***************************************************************************)
EXTENDS Integers, FiniteSets

CONSTANTS
  Threads,   \* threads that share objects
  Objects,   \* heap addresses
  Locals,    \* object_p variables on the threads' stacks
  Fields,    \* the object_p members of an object
  None       \* no object, no handle

Handles == Locals \cup (Objects \X Fields)

ASSUME FiniteAssumption ==
  /\ IsFiniteSet(Threads)
  /\ IsFiniteSet(Objects)
  /\ IsFiniteSet(Locals)
  /\ IsFiniteSet(Fields)

ASSUME DistinctAssumption ==
  /\ None \notin Objects
  /\ None \notin Handles
  /\ None \notin Threads
  /\ Threads \cap Handles = {}
  /\ Locals \cap (Objects \X Fields) = {}

VARIABLES
  heap,      \* heap[o]: "free", "live" or "dying" (its destructor runs)
  count,     \* count[o]: count_ of the object at o
  data,      \* data[h]: data_ of the handle h
  owner,     \* owner[l]: the thread whose stack holds the local l
  gain,      \* gain[t]: handle that t made point to an object not yet counted
  drop,      \* drop[t]: object whose DecCounter t still has to call
  reap,      \* reap[t]: object whose destructor t is running
  outer,     \* outer[o]: object whose destructor waits for that of o
  stale,     \* stale[t]: handle in reset(), data_ not yet nulled
  write,     \* write[t]: local whose node t writes, from CopyOnWrite on
  clone,     \* clone[t]: node MakeObject is copying for CopyOnWrite
  todo       \* todo[t]: fields of that node the copy has not reached

registers == <<gain, drop, reap, outer, stale, write, clone, todo>>
vars == <<heap, count, data, owner, registers>>

TypeOK ==
  /\ heap \in [Objects -> {"free", "live", "dying"}]
  /\ count \in [Objects -> Nat]
  /\ data \in [Handles -> Objects \cup {None}]
  /\ owner \in [Locals -> Threads]
  /\ gain \in [Threads -> Handles \cup {None}]
  /\ drop \in [Threads -> Objects \cup {None}]
  /\ reap \in [Threads -> Objects \cup {None}]
  /\ outer \in [Objects -> Objects \cup {None}]
  /\ stale \in [Threads -> Locals \cup {None}]
  /\ write \in [Threads -> Locals \cup {None}]
  /\ clone \in [Threads -> Objects \cup {None}]
  /\ todo \in [Threads -> SUBSET Fields]

Init ==
  /\ heap = [o \in Objects |-> "free"]
  /\ count = [o \in Objects |-> 0]
  /\ data = [h \in Handles |-> None]
  /\ owner \in [Locals -> Threads]
  /\ gain = [t \in Threads |-> None]
  /\ drop = [t \in Threads |-> None]
  /\ reap = [t \in Threads |-> None]
  /\ outer = [o \in Objects |-> None]
  /\ stale = [t \in Threads |-> None]
  /\ write = [t \in Threads |-> None]
  /\ clone = [t \in Threads |-> None]
  /\ todo = [t \in Threads |-> {}]

-----------------------------------------------------------------------------
(* What a thread may touch. *)

\* The thread is between two operations of object_p.
Ready(t) ==
  /\ gain[t] = None
  /\ drop[t] = None
  /\ reap[t] = None
  /\ stale[t] = None
  /\ clone[t] = None

Owned(t) == {l \in Locals : owner[l] = t}

\* The node whose members t may write: the result of its CopyOnWrite.
Node(t) == IF write[t] = None THEN None ELSE data[write[t]]

\* The handles t may write.  The handle CopyOnWrite was called on is in use.
Writable(t) ==
  (Owned(t) \ {write[t]}) \cup {h \in Objects \X Fields : h[1] = Node(t)}

\* The handles t may copy from: its own, and the members of objects it holds.
Readable(t) ==
  (Owned(t) \ {write[t]})
    \cup {h \in Objects \X Fields : \E l \in Owned(t) : data[l] = h[1]}

-----------------------------------------------------------------------------
(* Operations of object_p.  Each is the part that runs before the counter  *)
(* is touched; IncCounter and DecCounter below pay what it owes.           *)

\* MakeObject: the constructed object, counted once by the returned object_p.
Make(t, h, o) ==
  /\ Ready(t) /\ write[t] = None
  /\ h \in Owned(t) /\ data[h] = None
  /\ heap[o] = "free"
  /\ heap' = [heap EXCEPT ![o] = "live"]
  /\ count' = [count EXCEPT ![o] = 1]
  /\ data' = [data EXCEPT ![h] = o]
  /\ UNCHANGED <<owner, registers>>

\* Mutant of CopyAssign: the new object is not counted.
CopyAssignUncounted(t, h, s) ==
  /\ Ready(t)
  /\ h \in Writable(t) /\ s \in Readable(t)
  /\ data[h] # data[s]
  /\ data' = [data EXCEPT ![h] = data[s]]
  /\ drop' = [drop EXCEPT ![t] = data[h]]
  /\ UNCHANGED <<heap, count, owner, gain, reap, outer, stale, write, clone, todo>>

\* Copy construction (data[h] = None) and copy assignment: the old object is
\* released only after the new one is counted.
CopyAssign(t, h, s) ==
  /\ Ready(t)
  /\ h \in Writable(t) /\ s \in Readable(t)
  /\ data[h] # data[s]
  /\ data' = [data EXCEPT ![h] = data[s]]
  /\ gain' = [gain EXCEPT ![t] = IF data[s] = None THEN None ELSE h]
  /\ drop' = [drop EXCEPT ![t] = data[h]]
  /\ UNCHANGED <<heap, count, owner, reap, outer, stale, write, clone, todo>>

\* Mutant of MoveAssign: the source keeps its pointer.
MoveAssignKeepsSource(t, h, s) ==
  /\ Ready(t)
  /\ h \in Writable(t) /\ s \in Writable(t) /\ h # s
  /\ data' = [data EXCEPT ![h] = data[s]]
  /\ drop' = [drop EXCEPT ![t] = data[h]]
  /\ UNCHANGED <<heap, count, owner, gain, reap, outer, stale, write, clone, todo>>

\* Move construction and move assignment: the reference changes hands.
MoveAssign(t, h, s) ==
  /\ Ready(t)
  /\ h \in Writable(t) /\ s \in Writable(t) /\ h # s
  /\ data' = [data EXCEPT ![h] = data[s], ![s] = None]
  /\ drop' = [drop EXCEPT ![t] = data[h]]
  /\ UNCHANGED <<heap, count, owner, gain, reap, outer, stale, write, clone, todo>>

Swap(t, h, s) ==
  /\ Ready(t)
  /\ h \in Writable(t) /\ s \in Writable(t) /\ h # s
  /\ data' = [data EXCEPT ![h] = data[s], ![s] = data[h]]
  /\ UNCHANGED <<heap, count, owner, registers>>

\* ~object_p of a local: the handle is gone, its object loses a reference.
Destruct(t, h) ==
  /\ Ready(t)
  /\ h \in Owned(t) \ {write[t]} /\ data[h] # None
  /\ data' = [data EXCEPT ![h] = None]
  /\ drop' = [drop EXCEPT ![t] = data[h]]
  /\ UNCHANGED <<heap, count, owner, gain, reap, outer, stale, write, clone, todo>>

\* reset() calls DecCounter while data_ still points to the object ...
Reset(t, h) ==
  /\ Ready(t)
  /\ h \in Owned(t) \ {write[t]} /\ data[h] # None
  /\ drop' = [drop EXCEPT ![t] = data[h]]
  /\ stale' = [stale EXCEPT ![t] = h]
  /\ UNCHANGED <<heap, count, data, owner, gain, reap, outer, write, clone, todo>>

\* ... and nulls it when DecCounter, with all it destroyed, has returned.
ResetDone(t) ==
  /\ stale[t] # None /\ drop[t] = None /\ reap[t] = None
  /\ data' = [data EXCEPT ![stale[t]] = None]
  /\ stale' = [stale EXCEPT ![t] = None]
  /\ UNCHANGED <<heap, count, owner, gain, drop, reap, outer, write, clone, todo>>

-----------------------------------------------------------------------------
(* The counter. *)

IncCounter(t) ==
  /\ gain[t] # None
  /\ count' = [count EXCEPT ![data[gain[t]]] = @ + 1]
  /\ gain' = [gain EXCEPT ![t] = None]
  /\ UNCHANGED <<heap, data, owner, drop, reap, outer, stale, write, clone, todo>>

\* Mutant of DecCounter: the old object may be released before the new one is
\* counted.
DecCounterEarly(t) ==
  /\ drop[t] # None
  /\ count' = [count EXCEPT ![drop[t]] = @ - 1]
  /\ drop' = [drop EXCEPT ![t] = None]
  /\ IF count[drop[t]] = 1
       THEN /\ heap' = [heap EXCEPT ![drop[t]] = "dying"]
            /\ reap' = [reap EXCEPT ![t] = drop[t]]
            /\ outer' = [outer EXCEPT ![drop[t]] = reap[t]]
       ELSE UNCHANGED <<heap, reap, outer>>
  /\ UNCHANGED <<data, owner, gain, stale, write, clone, todo>>

\* --count_ == 0 is one atomic step; the thread that sees zero deletes.
DecCounter(t) ==
  /\ gain[t] = None /\ drop[t] # None
  /\ count' = [count EXCEPT ![drop[t]] = @ - 1]
  /\ drop' = [drop EXCEPT ![t] = None]
  /\ IF count[drop[t]] = 1
       THEN /\ heap' = [heap EXCEPT ![drop[t]] = "dying"]
            /\ reap' = [reap EXCEPT ![t] = drop[t]]
            /\ outer' = [outer EXCEPT ![drop[t]] = reap[t]]
       ELSE UNCHANGED <<heap, reap, outer>>
  /\ UNCHANGED <<data, owner, gain, stale, write, clone, todo>>

\* Mutant of DestructField: a node is freed without releasing its members.
DestructFieldSilently(t, f) ==
  /\ drop[t] = None /\ reap[t] # None
  /\ data[<<reap[t], f>>] # None
  /\ data' = [data EXCEPT ![<<reap[t], f>>] = None]
  /\ UNCHANGED <<heap, count, owner, gain, drop, reap, outer, stale, write, clone, todo>>

\* delete this: the destructor of a member releases what it points to.
DestructField(t, f) ==
  /\ drop[t] = None /\ reap[t] # None
  /\ data[<<reap[t], f>>] # None
  /\ drop' = [drop EXCEPT ![t] = data[<<reap[t], f>>]]
  /\ data' = [data EXCEPT ![<<reap[t], f>>] = None]
  /\ UNCHANGED <<heap, count, owner, gain, reap, outer, stale, write, clone, todo>>

\* Mutant of Deallocate: the destructor runs and the memory is not given back.
DeallocateLeaks(t) ==
  /\ drop[t] = None /\ reap[t] # None
  /\ \A f \in Fields : data[<<reap[t], f>>] = None
  /\ reap' = [reap EXCEPT ![t] = outer[reap[t]]]
  /\ outer' = [outer EXCEPT ![reap[t]] = None]
  /\ UNCHANGED <<heap, count, data, owner, gain, drop, stale, write, clone, todo>>

Deallocate(t) ==
  /\ drop[t] = None /\ reap[t] # None
  /\ \A f \in Fields : data[<<reap[t], f>>] = None
  /\ heap' = [heap EXCEPT ![reap[t]] = "free"]
  /\ reap' = [reap EXCEPT ![t] = outer[reap[t]]]
  /\ outer' = [outer EXCEPT ![reap[t]] = None]
  /\ UNCHANGED <<count, data, owner, gain, drop, stale, write, clone, todo>>

-----------------------------------------------------------------------------
(* CopyOnWrite: DEFINE_COW_METHOD. *)

\* Mutant of CowUnique: the node is written in place although it is shared.
CowAlwaysInPlace(t, h) ==
  /\ Ready(t) /\ write[t] = None
  /\ h \in Owned(t) /\ data[h] # None
  /\ write' = [write EXCEPT ![t] = h]
  /\ UNCHANGED <<heap, count, data, owner, gain, drop, reap, outer, stale, clone, todo>>

\* data_.unique(): the node is written in place.
CowUnique(t, h) ==
  /\ Ready(t) /\ write[t] = None
  /\ h \in Owned(t) /\ data[h] # None
  /\ count[data[h]] = 1
  /\ write' = [write EXCEPT ![t] = h]
  /\ UNCHANGED <<heap, count, data, owner, gain, drop, reap, outer, stale, clone, todo>>

\* Otherwise MakeObject copy-constructs a new node n, member by member ...
CowClone(t, h, n) ==
  /\ Ready(t) /\ write[t] = None
  /\ h \in Owned(t) /\ data[h] # None
  /\ count[data[h]] # 1
  /\ heap[n] = "free"
  /\ heap' = [heap EXCEPT ![n] = "live"]
  /\ write' = [write EXCEPT ![t] = h]
  /\ clone' = [clone EXCEPT ![t] = n]
  /\ todo' = [todo EXCEPT ![t] = Fields]
  /\ UNCHANGED <<count, data, owner, gain, drop, reap, outer, stale>>

CloneField(t, f) ==
  /\ clone[t] # None /\ gain[t] = None
  /\ f \in todo[t]
  /\ todo' = [todo EXCEPT ![t] = @ \ {f}]
  /\ data' = [data EXCEPT ![<<clone[t], f>>] = data[<<Node(t), f>>]]
  /\ gain' = [gain EXCEPT ![t] =
                IF data[<<Node(t), f>>] = None THEN None ELSE <<clone[t], f>>]
  /\ UNCHANGED <<heap, count, owner, drop, reap, outer, stale, write, clone>>

\* ... swaps it into the handle and lets the temporary release the old node.
CloneDone(t) ==
  /\ clone[t] # None /\ gain[t] = None /\ todo[t] = {}
  /\ count' = [count EXCEPT ![clone[t]] = 1]
  /\ data' = [data EXCEPT ![write[t]] = clone[t]]
  /\ drop' = [drop EXCEPT ![t] = Node(t)]
  /\ clone' = [clone EXCEPT ![t] = None]
  /\ UNCHANGED <<heap, owner, gain, reap, outer, stale, write, todo>>

\* The caller is through with the pointer CopyOnWrite returned.
EndWrite(t) ==
  /\ Ready(t) /\ write[t] # None
  /\ write' = [write EXCEPT ![t] = None]
  /\ UNCHANGED <<heap, count, data, owner, gain, drop, reap, outer, stale, clone, todo>>

\* A handle is passed to another thread (a std::thread argument, a queue).
Handover(t, u, h) ==
  /\ Ready(t) /\ t # u
  /\ h \in Owned(t) \ {write[t]}
  /\ owner' = [owner EXCEPT ![h] = u]
  /\ UNCHANGED <<heap, count, data, registers>>

-----------------------------------------------------------------------------
Operation(t) ==
  \/ \E h \in Locals, o \in Objects : Make(t, h, o) \/ CowClone(t, h, o)
  \/ \E h, s \in Handles : CopyAssign(t, h, s) \/ MoveAssign(t, h, s) \/ Swap(t, h, s)
  \/ \E h \in Locals : Destruct(t, h) \/ Reset(t, h) \/ CowUnique(t, h)
  \/ EndWrite(t)
  \/ \E u \in Threads, h \in Locals : Handover(t, u, h)

\* What a thread does to finish an operation it has begun.
Continue(t) ==
  \/ IncCounter(t)
  \/ DecCounter(t)
  \/ \E f \in Fields : DestructField(t, f) \/ CloneField(t, f)
  \/ Deallocate(t)
  \/ ResetDone(t)
  \/ CloneDone(t)

Next == \E t \in Threads : Operation(t) \/ Continue(t)

Safe == Init /\ [][Next]_vars

\* A thread inside an operation of object_p goes on: nothing in it waits.
Spec == Safe /\ \A t \in Threads : WF_vars(Continue(t))

-----------------------------------------------------------------------------
(* Properties. *)

\* What refers to o: the handles pointing to it and the releases still owed.
Holders(o) ==
  {h \in Handles : data[h] = o /\ \A t \in Threads : stale[t] # h}
    \cup {t \in Threads : drop[t] = o}

\* Those count_ has been told of.
Counted(o) == {x \in Holders(o) : \A t \in Threads : gain[t] # x}

\* count_ is, at every moment, the number of references it was told of: no
\* interleaving of copies, moves, resets and destructors loses or invents one
\* (IncCounter and DecCounter, object.h:48-53).
CountExact == \A o \in Objects : count[o] = Cardinality(Counted(o))

\* Nothing points to freed memory or to an object being destroyed, even
\* between the pointer update and the increment of a copy (object.h:84-103).
NoDangling == \A o \in Objects : Holders(o) # {} => heap[o] = "live"

\* While a thread writes the node CopyOnWrite gave it, its own handle is the
\* only reference to the node: no other thread and no copy can see the write
\* (object.h:147-149 and 247-254).
WriteExclusive ==
  \A t \in Threads :
    write[t] # None /\ Ready(t) => Holders(Node(t)) = {write[t]}

\* Every constructed object is referenced, is being built by CopyOnWrite, or
\* is being destroyed: none is forgotten (object.h:49-53, 140-145).
NoneForgotten ==
  \A o \in Objects :
    /\ heap[o] = "live" => Holders(o) # {} \/ \E t \in Threads : clone[t] = o
    /\ heap[o] = "dying" =>
         (\E t \in Threads : reap[t] = o) \/ (\E p \in Objects : outer[p] = o)

\* The members of objects never form a cycle, which no count could reclaim, as
\* long as nodes are written through CopyOnWrite only (object.h:247-254).
Points(o, p) == \E f \in Fields : data[<<o, f>>] = p

Acyclic ==
  \A S \in (SUBSET Objects) \ {{}} :
    \E o \in S : \A p \in S : ~ Points(o, p)

\* The promise of object.h, with count_ and the registers forgotten.
Lifetime == INSTANCE ObjectLifetime WITH
  Tokens <- Handles \cup Threads,
  alive <- {o \in Objects : heap[o] # "free"} \ {clone[t] : t \in Threads},
  refs <- [o \in Objects |-> Holders(o)]

\* Every step of the handles, counters and destructors is a step of the
\* promise, and an unreferenced object is destroyed (object.h:41-160).
KeepsPromise == Lifetime!Spec

\* A destructor that has started runs to its end, with every object it
\* releases on the way (object.h:49-53).
ReapsCompletely ==
  \A o \in Objects : heap[o] = "dying" ~> heap[o] = "free"
=============================================================================
