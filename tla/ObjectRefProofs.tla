--------------------------- MODULE ObjectRefProofs ---------------------------
(***************************************************************************)
(* The invariants of ObjectRef, for any number of threads, objects,        *)
(* handles and members; and what it promises beyond its counters: no       *)
(* object is forgotten, the members of objects form no cycle, and every    *)
(* step is one of ObjectLifetime.                                          *)
(***************************************************************************)
EXTENDS ObjectRef, FiniteSetTheorems, TLAPS

\* The type invariant as far as it is inductive by itself: that count_ is not
\* negative follows from CountExact.
Shape ==
  /\ heap \in [Objects -> {"free", "live", "dying"}]
  /\ count \in [Objects -> Int]
  /\ data \in [Handles -> Objects \cup {None}]
  /\ owner \in [Locals -> Threads]
  /\ gain \in [Threads -> Handles \cup {None}]
  /\ drop \in [Threads -> Objects \cup {None}]
  /\ reap \in [Threads -> Objects \cup {None}]
  /\ outer \in [Objects -> Objects \cup {None}]
  /\ stale \in [Threads -> Locals \cup {None}]
  /\ write \in [Threads -> Locals \cup {None}]
  /\ clone \in [Threads -> Objects \cup {None}]
  /\ todo \in [Threads -> SUBSET Fields]

CountedIsLive ==
  \A o \in Objects : \A x \in Counted(o) : heap[o] = "live"

FreeIsEmpty ==
  \A o \in Objects : heap[o] = "free" => \A f \in Fields : data[<<o, f>>] = None

\* The destructors of a thread form a chain, and the chains are disjoint.
Reaping ==
  /\ \A t \in Threads :
       reap[t] # None =>
         /\ heap[reap[t]] = "dying"
         /\ \A u \in Threads : reap[u] = reap[t] => u = t
  /\ \A o \in Objects :
       outer[o] # None =>
         /\ heap[o] = "dying" /\ heap[outer[o]] = "dying"
         /\ \A p \in Objects : outer[p] = outer[o] => p = o
         /\ \A t \in Threads : reap[t] # outer[o]

\* The handle a thread has still to count is one only this thread writes.
GainOwn(t) ==
  gain[t] # None =>
    /\ data[gain[t]] # None /\ reap[t] = None /\ stale[t] = None
    /\ \/ gain[t] \in Locals /\ owner[gain[t]] = t /\ gain[t] # write[t] /\ clone[t] = None
       \/ gain[t] \in Objects \X Fields /\ gain[t][1] = clone[t]
       \/ gain[t] \in Objects \X Fields /\ gain[t][1] = Node(t) /\ clone[t] = None

StaleOwn(t) ==
  stale[t] # None =>
    owner[stale[t]] = t /\ stale[t] # write[t] /\ clone[t] = None

WriteOwn(t) ==
  write[t] # None => owner[write[t]] = t /\ data[write[t]] # None

\* Nobody but its maker knows of the node CopyOnWrite is copying.
CloneOwn(t) ==
  clone[t] # None =>
    /\ write[t] # None /\ drop[t] = None /\ reap[t] = None
    /\ heap[clone[t]] = "live"
    /\ \A x \in Handles \cup Threads : x \notin Holders(clone[t])
    /\ \A f \in todo[t] : data[<<clone[t], f>>] = None
    /\ \A u \in Threads : clone[u] = clone[t] => u = t

\* The node under a write is referenced by the handle it is written through.
Exclusive(t) ==
  write[t] # None /\ clone[t] = None =>
    \A x \in Holders(Node(t)) : x = write[t]

\* What keeps a source handle s in place while t copies from it: t owns it, or
\* holds the object it is a member of, or still owes that object's release.
Keeps(t, s) ==
  \/ s \in Locals /\ owner[s] = t
  \/ /\ s \in Objects \X Fields
     /\ \/ drop[t] = s[1]
        \/ \E l \in Locals : owner[l] = t /\ l \in Counted(s[1])

Backed(t) ==
  gain[t] # None =>
    \E s \in Handles : s \in Counted(data[gain[t]]) /\ Keeps(t, s)

IInv ==
  /\ Shape
  /\ CountExact
  /\ CountedIsLive
  /\ FreeIsEmpty
  /\ Reaping
  /\ \A t \in Threads : GainOwn(t)
  /\ \A t \in Threads : StaleOwn(t)
  /\ \A t \in Threads : WriteOwn(t)
  /\ \A t \in Threads : CloneOwn(t)
  /\ \A t \in Threads : Exclusive(t)
  /\ \A t \in Threads : Backed(t)

\* The references counted at an object are finitely many.
LEMMA CountedFinite == ASSUME NEW o \in Objects PROVE IsFiniteSet(Counted(o))
  <1>1. IsFiniteSet(Objects \X Fields)
    BY FS_Product, FiniteAssumption
  <1>2. IsFiniteSet(Handles \cup Threads)
    BY <1>1, FS_Union, FiniteAssumption DEF Handles
  <1>3. Counted(o) \subseteq Handles \cup Threads
    BY DEF Counted, Holders
  <1>4. QED
    BY <1>2, <1>3, FS_Subset

\* Exchanging one element of a finite set for a new one keeps its size.
LEMMA CardTrade ==
  ASSUME NEW S, IsFiniteSet(S), NEW x, x \in S, NEW y, y \notin S
  PROVE  Cardinality((S \ {x}) \cup {y}) = Cardinality(S)
  <1>1. IsFiniteSet(S \ {x}) /\ Cardinality(S \ {x}) = Cardinality(S) - 1
    BY FS_RemoveElement
  <1>2. Cardinality((S \ {x}) \cup {y}) = Cardinality(S \ {x}) + 1
    BY <1>1, FS_AddElement
  <1>3. Cardinality(S) \in Nat
    BY FS_CardinalityType
  <1>4. QED
    BY <1>1, <1>2, <1>3

\* A counter is a natural number, and zero exactly when nothing is counted.
LEMMA CardZero ==
  ASSUME NEW o \in Objects
  PROVE  /\ Cardinality(Counted(o)) \in Nat
         /\ Cardinality(Counted(o)) = 0 <=> Counted(o) = {}
  BY CountedFinite, FS_EmptySet, FS_CardinalityType

\* Membership in the two sets, as the provers need it.
LEMMA HoldersDef ==
  ASSUME NEW o, NEW x
  PROVE  x \in Holders(o) <=>
           \/ x \in Handles /\ data[x] = o /\ \A t \in Threads : stale[t] # x
           \/ x \in Threads /\ drop[x] = o
  BY DEF Holders

\* Counted references are holders no thread has still to count.
LEMMA CountedDef ==
  ASSUME NEW o, NEW x
  PROVE  x \in Counted(o) <=> x \in Holders(o) /\ \A t \in Threads : gain[t] # x
  BY DEF Counted


(***************************************************************************)
(* Consequences of the invariant, used by the steps below.                 *)
(***************************************************************************)

\* The handle a node is written through is counted at that node.
LEMMA WriteHandleCounts ==
  ASSUME IInv, NEW u \in Threads, write[u] # None
  PROVE  /\ write[u] \in Locals /\ owner[write[u]] = u
         /\ Node(u) \in Objects
         /\ write[u] \in Counted(Node(u)) /\ write[u] \in Holders(Node(u))
         /\ heap[Node(u)] = "live"
  <1> USE DistinctAssumption
  <1>1. /\ write[u] \in Locals /\ write[u] \in Handles /\ owner[write[u]] = u
        /\ Node(u) = data[write[u]] /\ Node(u) \in Objects
    BY DEF IInv, Shape, WriteOwn, Node, Handles
  <1>2. \A v \in Threads : stale[v] # write[u] /\ gain[v] # write[u]
    BY <1>1 DEF IInv, Shape, StaleOwn, GainOwn
  <1>3. write[u] \in Holders(Node(u)) /\ write[u] \in Counted(Node(u))
    BY <1>1, <1>2, HoldersDef, CountedDef
  <1> QED
    BY <1>1, <1>3 DEF IInv, CountedIsLive

\* Nothing refers to an object that is not live.
LEMMA HeldIsLive ==
  ASSUME IInv, NEW o \in Objects, NEW x \in Holders(o)
  PROVE  heap[o] = "live"
  <1>1. CASE \A t \in Threads : gain[t] # x
    BY <1>1 DEF Counted, IInv, CountedIsLive
  <1>2. CASE \E t \in Threads : gain[t] = x
    <2>1. PICK t \in Threads : gain[t] = x
      BY <1>2
    <2>2. x \in Handles /\ data[x] = o /\ x # None
      BY <2>1, HoldersDef, DistinctAssumption DEF IInv, Shape
    <2>3. PICK s \in Handles : s \in Counted(o)
      BY <2>1, <2>2 DEF IInv, Backed
    <2> QED
      BY <2>3 DEF IInv, CountedIsLive
  <1> QED
    BY <1>1, <1>2

\* Two threads never write, or copy into, the same node.
LEMMA NodesApart ==
  ASSUME IInv, NEW t \in Threads, NEW u \in Threads, u # t, write[t] # None
  PROVE  /\ clone[u] # Node(t)
         /\ clone[t] = None /\ write[u] # None => Node(u) # Node(t)
  <1>1. /\ write[t] \in Holders(Node(t)) /\ owner[write[t]] = t
        /\ Node(t) \in Objects /\ write[t] \in Handles
    BY WriteHandleCounts DEF Handles
  <1>2. clone[u] # Node(t)
    BY <1>1, DistinctAssumption DEF IInv, CloneOwn
  <1>3. ASSUME clone[t] = None, write[u] # None PROVE Node(u) # Node(t)
    <2>1. write[u] \in Holders(Node(u)) /\ owner[write[u]] = u
      BY <1>3, WriteHandleCounts
    <2> QED
      BY <1>1, <1>3, <2>1 DEF IInv, Exclusive
  <1> QED
    BY <1>2, <1>3

\* A handle a thread may write is in nobody's register.
LEMMA WritableIsFree ==
  ASSUME IInv, NEW t \in Threads, Ready(t), NEW h \in Writable(t)
  PROVE  /\ h \in Handles
         /\ \A u \in Threads : gain[u] # h /\ stale[u] # h /\ write[u] # h
         /\ h \in Locals => owner[h] = t
         /\ h \notin Locals =>
              /\ h \in Objects \X Fields /\ write[t] # None /\ h[1] = Node(t)
              /\ \A u \in Threads : clone[u] # h[1]
  <1> USE DistinctAssumption
  <1>0. \/ h \in Owned(t) \ {write[t]}
        \/ h \in Objects \X Fields /\ h[1] = Node(t)
    BY DEF Writable
  <1>1. CASE h \in Owned(t) \ {write[t]}
    <2>1. h \in Locals /\ h \in Handles /\ owner[h] = t /\ h # write[t] /\ h # None
      BY <1>1 DEF Owned, Handles
    <2>2. ASSUME NEW u \in Threads PROVE gain[u] # h /\ stale[u] # h /\ write[u] # h
      BY <2>1 DEF IInv, GainOwn, StaleOwn, WriteOwn, Ready
    <2> QED
      BY <2>1, <2>2
  <1>2. CASE h \in Objects \X Fields /\ h[1] = Node(t)
    <2>1. h \in Handles /\ h \notin Locals /\ h[1] \in Objects /\ h # None
      BY <1>2 DEF Handles
    <2>2. write[t] # None /\ clone[t] = None /\ gain[t] = None
      BY <1>2, <2>1 DEF Node, Ready
    <2>3. ASSUME NEW u \in Threads PROVE stale[u] # h /\ write[u] # h /\ clone[u] # h[1]
      BY <1>2, <2>1, <2>2, NodesApart DEF IInv, Shape
    <2>4. ASSUME NEW u \in Threads PROVE gain[u] # h
      <3>1. CASE u = t
        BY <2>1, <2>2, <3>1
      <3>2. CASE u # t
        <4>1. write[u] # None => Node(u) # Node(t)
          BY <2>2, <3>2, NodesApart
        <4>2. write[u] = None => Node(u) = None
          BY DEF Node
        <4> QED
          BY <1>2, <2>1, <2>3, <4>1, <4>2 DEF IInv, GainOwn
      <3> QED
        BY <3>1, <3>2
    <2> QED
      BY <1>2, <2>1, <2>2, <2>3, <2>4
  <1> QED
    BY <1>0, <1>1, <1>2

\* A handle a thread may copy from is counted at the object it points to.
LEMMA ReadableCounts ==
  ASSUME IInv, NEW t \in Threads, Ready(t), NEW s \in Readable(t)
  PROVE  /\ s \in Handles
         /\ data[s] # None => s \in Counted(data[s]) /\ s \in Holders(data[s])
         /\ s \in Locals => owner[s] = t /\ s # write[t]
         /\ s \notin Locals =>
              /\ s \in Objects \X Fields
              /\ \E l \in Locals : owner[l] = t /\ data[l] = s[1] /\ l \in Counted(s[1])
  <1> USE DistinctAssumption
  <1>0. ASSUME NEW l \in Locals, owner[l] = t, data[l] # None
        PROVE  l \in Counted(data[l]) /\ l \in Holders(data[l])
    <2>1. l \in Handles /\ l # None
      BY DEF Handles
    <2>2. \A u \in Threads : gain[u] # l /\ stale[u] # l
      BY <1>0, <2>1 DEF IInv, GainOwn, StaleOwn, Ready
    <2> QED
      BY <2>1, <2>2, HoldersDef, CountedDef
  <1>1. CASE s \in Owned(t) \ {write[t]}
    BY <1>0, <1>1 DEF Owned, Handles
  <1>2. CASE s \in Objects \X Fields /\ \E l \in Owned(t) : data[l] = s[1]
    <2>1. PICK l \in Locals : owner[l] = t /\ data[l] = s[1]
      BY <1>2 DEF Owned
    <2>2. s \in Handles /\ s \notin Locals /\ s[1] \in Objects /\ s # None
      BY <1>2 DEF Handles
    <2>3. l \in Counted(s[1]) /\ l \in Holders(s[1]) /\ l \in Handles
      BY <1>0, <2>1, <2>2 DEF Handles
    <2>4. ASSUME NEW u \in Threads PROVE gain[u] # s /\ stale[u] # s
      <3>1. stale[u] # s
        BY <2>2 DEF IInv, Shape
      <3>2. clone[u] # s[1]
        BY <2>2, <2>3 DEF IInv, CloneOwn
      <3>3. CASE u = t
        BY <2>2, <3>1, <3>3 DEF Ready
      <3>4. CASE u # t
        <4>1. CASE write[u] = None
          BY <2>2, <3>1, <3>2, <4>1 DEF IInv, GainOwn, Node
        <4>2. CASE write[u] # None
          <5>1. owner[write[u]] = u
            BY <4>2, WriteHandleCounts
          <5> QED
            BY <2>1, <2>2, <2>3, <3>1, <3>2, <3>4, <4>2, <5>1 DEF IInv, GainOwn, Exclusive
        <4> QED
          BY <4>1, <4>2
      <3> QED
        BY <3>3, <3>4
    <2>5. s \in Holders(data[s]) /\ s \in Counted(data[s])
      BY <2>2, <2>4, HoldersDef, CountedDef
    <2> QED
      BY <1>2, <2>1, <2>2, <2>3, <2>5
  <1> QED
    BY <1>1, <1>2 DEF Readable

(***************************************************************************)
(* What a step of another thread leaves to a thread inside a copy.         *)
(***************************************************************************)

\* The sources u may be copying from stay where they are.
Undisturbed(u) ==
  /\ gain'[u] = gain[u] /\ drop'[u] = drop[u]
  /\ gain[u] # None => data'[gain[u]] = data[gain[u]]
  /\ \A l \in Locals : owner[l] = u =>
       /\ owner'[l] = u
       /\ \A o \in Objects : l \in Counted(o) => l \in Counted(o)'
  /\ \A p \in Objects, f \in Fields :
       (drop[u] = p \/ \E l \in Locals : owner[l] = u /\ l \in Counted(p)) =>
         \A o \in Objects : <<p, f>> \in Counted(o) => <<p, f>> \in Counted(o)'

\* A source that backs a copy in progress goes on backing it in a step that
\* leaves alone what it depends on.
LEMMA BackedKept ==
  ASSUME IInv, Shape', NEW u \in Threads, Undisturbed(u)
  PROVE  Backed(u)'
  <1> USE DistinctAssumption
  <1> SUFFICES ASSUME gain'[u] # None PROVE Backed(u)'
    BY DEF Backed
  <1>1. PICK o \in Objects : o = data[gain[u]] /\ o = data'[gain'[u]]
    BY DEF Undisturbed, IInv, GainOwn, Shape
  <1>2. PICK s \in Handles : s \in Counted(o) /\ Keeps(u, s)
    BY <1>1 DEF IInv, Backed, Undisturbed
  <1>3. s \in Counted(o)' /\ Keeps(u, s)'
    <2>1. CASE s \in Locals /\ owner[s] = u
      BY <1>2, <2>1 DEF Undisturbed, Keeps
    <2>2. CASE s \in Objects \X Fields /\ drop[u] = s[1]
      <3>1. PICK p \in Objects, f \in Fields : s = <<p, f>>
        BY <2>2
      <3> QED
        BY <1>2, <2>2, <3>1 DEF Undisturbed, Keeps
    <2>3. CASE s \in Objects \X Fields /\ \E l \in Locals : owner[l] = u /\ l \in Counted(s[1])
      <3>1. PICK p \in Objects, f \in Fields : s = <<p, f>> /\ s[1] = p
        BY <2>3
      <3>2. PICK l \in Locals : owner[l] = u /\ l \in Counted(p)
        BY <2>3, <3>1
      <3>3. owner'[l] = u /\ l \in Counted(p)' /\ s \in Counted(o)'
        BY <1>2, <3>1, <3>2 DEF Undisturbed
      <3>4. Keeps(u, s)' <=> \/ s \in Locals /\ owner'[s] = u
                             \/ /\ s \in Objects \X Fields
                                /\ drop'[u] = p \/ \E k \in Locals : owner'[k] = u /\ k \in Counted(p)'
        BY <3>1 DEF Keeps
      <3> QED
        BY <2>3, <3>3, <3>4
    <2> QED
      BY <1>2, <2>1, <2>2, <2>3 DEF Keeps
  <1>4. Backed(u)' <=> (gain'[u] # None => \E k \in Handles : k \in Counted(o)' /\ Keeps(u, k)')
    BY <1>1 DEF Backed
  <1> QED
    BY <1>3, <1>4

(***************************************************************************)
(* The count of one object after a step.                                   *)
(***************************************************************************)

\* A step that changes neither an object's counter nor its counted references
\* keeps the counter exact.
LEMMA CountSame ==
  ASSUME IInv, NEW o \in Objects, count'[o] = count[o],
         \A z : z \in Counted(o)' <=> z \in Counted(o)
  PROVE  count'[o] = Cardinality(Counted(o)')
  <1>1. Counted(o)' = Counted(o)
    OBVIOUS
  <1> QED
    BY <1>1 DEF IInv, CountExact

\* A step that hands a counted reference from one holder to another keeps the
\* counter exact.
LEMMA CountTrade ==
  ASSUME IInv, NEW o \in Objects, count'[o] = count[o],
         NEW x \in Counted(o), NEW y, y \notin Counted(o),
         \A z : z \in Counted(o)' <=> (z \in Counted(o) /\ z # x) \/ z = y
  PROVE  count'[o] = Cardinality(Counted(o)')
  <1>1. Counted(o)' = (Counted(o) \ {x}) \cup {y}
    OBVIOUS
  <1>2. Cardinality((Counted(o) \ {x}) \cup {y}) = Cardinality(Counted(o))
    BY CardTrade, CountedFinite
  <1> QED
    BY <1>1, <1>2 DEF IInv, CountExact

(***************************************************************************)
(* One lemma per action.                                                   *)
(***************************************************************************)

\* DecCounter preserves the invariant: the release it owed is gone, and the
\* last one starts the destructor (object.h:49-53).
LEMMA DecCounterInv ==
  ASSUME IInv, NEW t \in Threads, DecCounter(t)
  PROVE  IInv'
  <1> USE DistinctAssumption
  <1>1. Shape /\ Shape'
    BY DEF IInv, Shape, DecCounter
  <1>2. PICK d \in Objects : d = drop[t]
    BY <1>1 DEF Shape, DecCounter
  <1>3. ASSUME NEW o \in Objects, NEW x
        PROVE  x \in Holders(o)' <=> x \in Holders(o) /\ x # t
    BY <1>1 DEF DecCounter, Shape, Holders
  <1>4. ASSUME NEW o \in Objects, NEW x
        PROVE  x \in Counted(o)' <=> x \in Counted(o) /\ x # t
    BY <1>3 DEF DecCounter, Counted
  <1>5. t \in Counted(d) /\ \A o \in Objects \ {d} : t \notin Counted(o)
    BY <1>1, <1>2 DEF Shape, Counted, Holders
  <1>6. heap[d] = "live"
    BY <1>5 DEF IInv, CountedIsLive
  <1>7. CountExact'
    <2> SUFFICES ASSUME NEW o \in Objects
                 PROVE  count'[o] = Cardinality(Counted(o)')
      BY DEF CountExact
    <2>1. count[o] = Cardinality(Counted(o))
      BY DEF IInv, CountExact
    <2>2. CASE o = d
      <3>1. Counted(d)' = Counted(d) \ {t}
        BY <1>4
      <3>2. Cardinality(Counted(d) \ {t}) = Cardinality(Counted(d)) - 1
        BY <1>5, CountedFinite, FS_RemoveElement
      <3> QED
        BY <1>1, <1>2, <2>1, <2>2, <3>1, <3>2 DEF DecCounter, Shape
    <2>3. CASE o # d
      <3>1. Counted(o)' = Counted(o)
        BY <1>4, <1>5, <2>3
      <3> QED
        BY <1>1, <1>2, <2>1, <2>3, <3>1 DEF DecCounter, Shape
    <2> QED
      BY <2>2, <2>3
  <1>8. CountedIsLive'
    <2> SUFFICES ASSUME NEW o \in Objects, NEW x \in Counted(o)'
                 PROVE  heap'[o] = "live"
      BY DEF CountedIsLive
    <2>1. heap[o] = "live"
      BY <1>4 DEF IInv, CountedIsLive
    <2>2. count'[o] # 0
      BY <1>4, <1>7, CountedFinite, FS_Subset, FS_EmptySet DEF CountExact
    <2> QED
      BY <1>1, <1>2, <2>1, <2>2 DEF DecCounter, Shape
  <1>9a. FreeIsEmpty'
    BY <1>1, <1>2, <1>6 DEF IInv, FreeIsEmpty, DecCounter, Shape
  <1>9b. reap[t] # None => heap[reap[t]] = "dying"
    BY DEF IInv, Reaping
  <1>9. Reaping'
    <2>1. CASE count[d] = 1
      <3>1. heap' = [heap EXCEPT ![d] = "dying"] /\ reap' = [reap EXCEPT ![t] = d] /\ outer' = [outer EXCEPT ![d] = reap[t]]
        BY <1>2, <2>1 DEF DecCounter
      <3> QED BY <1>1, <1>6, <3>1 DEF IInv, Reaping, Shape
    <2>2. CASE count[d] # 1
      BY <1>1, <1>2, <2>2 DEF IInv, Reaping, DecCounter, Shape
    <2> QED BY <2>1, <2>2
  <1>10. ASSUME NEW u \in Threads
         PROVE  GainOwn(u)' /\ StaleOwn(u)' /\ WriteOwn(u)'
    BY <1>1, <1>2 DEF IInv, GainOwn, StaleOwn, WriteOwn, DecCounter, Shape, Node
  <1>11. ASSUME NEW u \in Threads PROVE CloneOwn(u)'
    BY <1>1, <1>2 DEF IInv, CloneOwn, DecCounter, Shape, Holders
  <1>12. ASSUME NEW u \in Threads PROVE Exclusive(u)'
    <2>1. Node(u)' = Node(u) BY DEF DecCounter, Node
    <2> QED BY <1>1, <2>1 DEF IInv, Exclusive, DecCounter, Shape, WriteOwn, Node, Holders
  <1>13. ASSUME NEW u \in Threads PROVE Backed(u)'
    <2>1. CASE u = t
      BY <1>1, <2>1 DEF Backed, DecCounter
    <2>2. CASE u # t
      <3>1. Undisturbed(u)
        BY <1>1, <1>2, <1>4, <2>2 DEF Undisturbed, DecCounter, Shape, Handles
      <3> QED
        BY <1>1, <2>2, <3>1, BackedKept
    <2> QED
      BY <2>1, <2>2
  <1> QED
    BY <1>1, <1>7, <1>8, <1>9a, <1>9, <1>10, <1>11, <1>12, <1>13 DEF IInv

(***************************************************************************)
(* What keeps the invariant of one thread, whatever the step.              *)
(***************************************************************************)

\* What a thread has still to count stays its own in another thread's step.
LEMMA GainOwnKept ==
  ASSUME IInv, Shape', NEW u \in Threads,
         gain'[u] = gain[u], reap'[u] = reap[u], stale'[u] = stale[u],
         write'[u] = write[u], clone'[u] = clone[u], Node(u)' = Node(u),
         gain[u] # None => data'[gain[u]] = data[gain[u]],
         \A l \in Locals : owner[l] = u => owner'[l] = u
  PROVE  GainOwn(u)'
  <1> SUFFICES ASSUME gain'[u] # None PROVE GainOwn(u)'
    BY DEF GainOwn
  <1>1. PICK g \in Handles : g = gain[u] /\ g = gain'[u] /\ data'[g] = data[g]
    BY DEF Shape
  <1>2. PICK n : n = Node(u) /\ n = Node(u)'
    OBVIOUS
  <1>3. GainOwn(u)
    BY DEF IInv
  <1>4. GainOwn(u)' <=>
          (gain'[u] # None =>
             /\ data'[g] # None /\ reap'[u] = None /\ stale'[u] = None
             /\ \/ g \in Locals /\ owner'[g] = u /\ g # write'[u] /\ clone'[u] = None
                \/ g \in Objects \X Fields /\ g[1] = clone'[u]
                \/ g \in Objects \X Fields /\ g[1] = n /\ clone'[u] = None)
    BY <1>1, <1>2 DEF GainOwn
  <1> QED
    BY <1>1, <1>2, <1>3, <1>4 DEF GainOwn

\* A node under copy stays private in another thread's step.
LEMMA CloneOwnKept ==
  ASSUME IInv, Shape', NEW u \in Threads, clone'[u] = clone[u],
         clone[u] # None =>
           /\ write'[u] = write[u] /\ drop'[u] = drop[u] /\ reap'[u] = reap[u]
           /\ todo'[u] \subseteq todo[u]
           /\ heap'[clone[u]] = heap[clone[u]]
           /\ \A f \in todo'[u] : data'[<<clone[u], f>>] = data[<<clone[u], f>>]
           /\ \A v \in Threads : clone'[v] = clone[u] => clone[v] = clone[u],
         \A o \in Objects, x \in Handles \cup Threads :
           o = clone[u] => x \notin Holders(o)'
  PROVE  CloneOwn(u)'
  <1> SUFFICES ASSUME clone'[u] # None PROVE CloneOwn(u)'
    BY DEF CloneOwn
  <1>1. PICK c \in Objects : c = clone[u] /\ c = clone'[u]
    BY DEF Shape
  <1>2. CloneOwn(u)
    BY DEF IInv
  <1>3. \A x \in Handles \cup Threads : x \notin Holders(clone[u])'
    BY <1>1 DEF Holders
  <1> QED
    BY <1>1, <1>2, <1>3 DEF CloneOwn

\* A node under write stays private in another thread's step.
LEMMA ExclusiveKept ==
  ASSUME IInv, NEW u \in Threads,
         write'[u] = write[u], clone'[u] = clone[u],
         write[u] # None /\ clone[u] = None =>
           Node(u)' = Node(u)
           /\ \A o \in Objects : o = Node(u) => \A x \in Holders(o)' : x = write[u]
  PROVE  Exclusive(u)'
  <1> SUFFICES ASSUME write[u] # None, clone[u] = None,
                      NEW x \in Holders(Node(u))'
               PROVE  x = write[u]
    BY DEF Exclusive
  <1>1. PICK n \in Objects : n = Node(u) /\ n = Node(u)'
    BY WriteHandleCounts
  <1>2. x \in Holders(n)'
    BY <1>1 DEF Holders
  <1> QED
    BY <1>1, <1>2

(***************************************************************************)
(* What a thread may write, no other thread depends on.                    *)
(***************************************************************************)

\* No other thread has a local at, or owes the release of, the node whose
\* members a thread may write.
LEMMA WritableUnseen ==
  ASSUME IInv, NEW t \in Threads, NEW u \in Threads, u # t, Ready(t),
         NEW p \in Objects, NEW f \in Fields, <<p, f>> \in Writable(t)
  PROVE  drop[u] # p /\ \A l \in Locals : owner[l] = u => l \notin Counted(p)
  <1> USE DistinctAssumption
  <1>1. <<p, f>> \notin Locals /\ <<p, f>>[1] = p
    OBVIOUS
  <1>2. p = Node(t) /\ write[t] # None
    BY <1>1, WritableIsFree
  <1>3. owner[write[t]] = t /\ write[t] \in Locals /\ clone[t] = None
    BY <1>2, WriteHandleCounts DEF Ready
  <1>4. \A z \in Holders(p) : z = write[t]
    BY <1>2, <1>3 DEF IInv, Exclusive
  <1>5. drop[u] = p => u \in Holders(p)
    BY HoldersDef
  <1> QED
    BY <1>3, <1>4, <1>5, CountedDef DEF Handles

\* A handle a thread may write is counted where it points, and points to no
\* node under write or copy.
LEMMA WritableElsewhere ==
  ASSUME IInv, NEW t \in Threads, Ready(t), NEW h \in Writable(t),
         NEW u \in Threads
  PROVE  /\ write[u] # None /\ clone[u] = None => data[h] # Node(u)
         /\ clone[u] # None => data[h] # clone[u]
         /\ data[h] # None => h \in Counted(data[h]) /\ h \in Holders(data[h])
  <1> USE DistinctAssumption
  <1>1. /\ h \in Handles
        /\ \A v \in Threads : gain[v] # h /\ stale[v] # h /\ write[v] # h
    BY WritableIsFree
  <1>2. data[h] # None => h \in Counted(data[h]) /\ h \in Holders(data[h])
    BY <1>1, HoldersDef, CountedDef
  <1>3. write[u] # None => Node(u) # None
    BY DEF IInv, WriteOwn, Node
  <1>4. ASSUME write[u] # None, clone[u] = None, data[h] = Node(u) PROVE FALSE
    BY <1>1, <1>2, <1>3, <1>4 DEF IInv, Exclusive
  <1>5. ASSUME clone[u] # None, data[h] = clone[u] PROVE FALSE
    BY <1>1, <1>2, <1>5 DEF IInv, CloneOwn
  <1> QED
    BY <1>2, <1>4, <1>5

(***************************************************************************)
(* A step of t that only moves pointers and releases.                      *)
(***************************************************************************)

PointerStep(t) ==
  /\ UNCHANGED <<heap, count, owner, gain, reap, outer, write, clone, todo>>
  /\ gain[t] = None /\ clone[t] = None
  /\ \A u \in Threads \ {t} : drop'[u] = drop[u] /\ stale'[u] = stale[u]
  /\ \A u \in Threads :
       /\ gain[u] # None => data'[gain[u]] = data[gain[u]]
       /\ write[u] # None => data'[write[u]] = data[write[u]]
  /\ \A o \in Objects, f \in Fields :
       \/ data'[<<o, f>>] = data[<<o, f>>]
       \/ /\ data'[<<o, f>>] = None \/ heap[o] = "live"
          /\ \A u \in Threads : clone[u] # o
  /\ \A o \in Objects :
       /\ \A x \in Counted(o)' : \E y : y \in Counted(o)
       /\ \A u \in Threads : \A x :
            /\ write[u] # None /\ clone[u] = None /\ o = Node(u) /\ x \in Holders(o)' => x \in Holders(o)
            /\ clone[u] = o /\ x \in Holders(o)' => x \in Holders(o)
  /\ \A u \in Threads : StaleOwn(u)'
  /\ \A u \in Threads \ {t} : Undisturbed(u)

\* The common part of the steps that only change pointers and registers.
LEMMA PointerStepInv ==
  ASSUME IInv, Shape', CountExact', NEW t \in Threads, PointerStep(t)
  PROVE  IInv'
  <1> USE DistinctAssumption
  <1>0. Shape
    BY DEF IInv
  <1>1. CountedIsLive'
    BY DEF IInv, CountedIsLive, PointerStep
  <1>2. FreeIsEmpty'
    BY DEF IInv, FreeIsEmpty, PointerStep
  <1>3. Reaping'
    BY DEF IInv, Reaping, PointerStep
  <1>4. ASSUME NEW u \in Threads PROVE Node(u)' = Node(u)
    BY DEF PointerStep, Node
  <1>5. ASSUME NEW u \in Threads PROVE GainOwn(u)'
    <2>1. CASE u = t
      BY <2>1 DEF GainOwn, PointerStep
    <2>2. CASE u # t
      BY <1>4, <2>2, GainOwnKept DEF PointerStep
    <2> QED
      BY <2>1, <2>2
  <1>6. ASSUME NEW u \in Threads PROVE WriteOwn(u)'
    BY DEF IInv, WriteOwn, PointerStep
  <1>7. ASSUME NEW u \in Threads PROVE CloneOwn(u)'
    <2>1. CASE u = t
      BY <2>1 DEF CloneOwn, PointerStep
    <2>2. CASE u # t
      <3>1. \A o \in Objects, x \in Handles \cup Threads : o = clone[u] => x \notin Holders(o)'
        BY DEF IInv, CloneOwn, PointerStep
      <3>2. clone[u] # None => \A f \in todo'[u] : data'[<<clone[u], f>>] = data[<<clone[u], f>>]
        BY <1>0 DEF PointerStep, Shape
      <3> QED
        BY <2>2, <3>1, <3>2, CloneOwnKept DEF PointerStep
    <2> QED
      BY <2>1, <2>2
  <1>8. ASSUME NEW u \in Threads PROVE Exclusive(u)'
    <2>1. write[u] # None /\ clone[u] = None =>
            \A o \in Objects : o = Node(u) => \A x \in Holders(o)' : x = write[u]
      BY DEF IInv, Exclusive, PointerStep
    <2> QED
      BY <1>4, <2>1, ExclusiveKept DEF PointerStep
  <1>9. ASSUME NEW u \in Threads PROVE Backed(u)'
    <2>1. CASE u = t
      BY <2>1 DEF Backed, PointerStep
    <2>2. CASE u # t
      BY <2>2, BackedKept DEF PointerStep
    <2> QED
      BY <2>1, <2>2
  <1> QED
    BY <1>1, <1>2, <1>3, <1>5, <1>6, <1>7, <1>8, <1>9 DEF IInv, PointerStep

\* Copy assignment preserves the invariant (object.h:95-103).
LEMMA CopyAssignInv ==
  ASSUME IInv, NEW t \in Threads, NEW h \in Handles, NEW s \in Handles,
         CopyAssign(t, h, s)
  PROVE  IInv'
  <1> USE DistinctAssumption
  <1>1. Shape /\ Shape'
    BY DEF IInv, Shape, CopyAssign
  <1>2. /\ Ready(t) /\ h \in Writable(t) /\ s \in Readable(t)
        /\ gain[t] = None /\ drop[t] = None /\ reap[t] = None
        /\ stale[t] = None /\ clone[t] = None
    BY DEF CopyAssign, Ready
  <1>3. PICK old, new : old = data[h] /\ new = data[s] /\ old # new
    BY DEF CopyAssign
  <1>4. /\ \A u \in Threads : gain[u] # h /\ stale[u] # h /\ write[u] # h
        /\ h \in Locals => owner[h] = t
        /\ h \notin Locals =>
             /\ h \in Objects \X Fields /\ write[t] # None /\ h[1] = Node(t)
             /\ \A u \in Threads : clone[u] # h[1]
    BY <1>2, WritableIsFree
  <1>5. /\ new # None => s \in Counted(new) /\ s \in Holders(new)
        /\ s \in Locals => owner[s] = t /\ s # write[t]
        /\ s \notin Locals =>
             /\ s \in Objects \X Fields
             /\ \E l \in Locals : owner[l] = t /\ data[l] = s[1] /\ l \in Counted(s[1])
    BY <1>2, <1>3, ReadableCounts
  <1>6. old # None => h \in Holders(old) /\ h \in Counted(old)
    BY <1>3, <1>4, HoldersDef, CountedDef
  <1>7. ASSUME NEW o \in Objects, NEW z
        PROVE  z \in Holders(o)' <=> \/ z \in Holders(o) /\ z # h
                                     \/ z = t /\ o = old
                                     \/ z = h /\ o = new
    BY <1>1, <1>2, <1>3, <1>4 DEF CopyAssign, Holders, Shape
  <1>8. ASSUME NEW o \in Objects, NEW z
        PROVE  z \in Counted(o)' <=> \/ z \in Counted(o) /\ z # h
                                     \/ z = t /\ o = old
    <2>1. z \in Counted(o)' <=> z \in Holders(o)' /\ \A u \in Threads : gain'[u] # z
      BY DEF Counted
    <2>2. \A u \in Threads : gain[u] # t
      BY <1>1 DEF Shape
    <2>3. t # h /\ t # None /\ h # None
      OBVIOUS
    <2>4. z \in Holders(o) => z # None
      BY HoldersDef
    <2>5. CASE new = None
      <3>1. \A u \in Threads : gain'[u] = gain[u]
        BY <1>1, <1>2, <1>3, <2>5 DEF CopyAssign, Shape
      <3> QED
        BY <1>7, <2>1, <2>2, <2>3, <2>5, <3>1, CountedDef
    <2>6. CASE new # None
      <3>1. \A u \in Threads : gain'[u] = IF u = t THEN h ELSE gain[u]
        BY <1>1, <1>2, <1>3, <2>6 DEF CopyAssign, Shape
      <3> QED
        BY <1>2, <1>7, <2>1, <2>2, <2>3, <2>4, <3>1, CountedDef
    <2> QED
      BY <2>5, <2>6
  <1>9. ASSUME NEW o \in Objects
        PROVE  /\ o # old => h \notin Counted(o)
               /\ t \notin Counted(o)
    BY <1>2, <1>3, HoldersDef, CountedDef
  <1>10. CountExact'
    <2> SUFFICES ASSUME NEW o \in Objects
                 PROVE  count'[o] = Cardinality(Counted(o)')
      BY DEF CountExact
    <2>1. count' = count
      BY DEF CopyAssign
    <2>2. CASE o = old
      BY <1>6, <1>8, <1>9, <2>1, <2>2, CountTrade
    <2>3. CASE o # old
      BY <1>8, <1>9, <2>1, <2>3, CountSame
    <2> QED
      BY <2>2, <2>3
  <1>11. CountedIsLive'
    BY <1>6, <1>8 DEF IInv, CountedIsLive, CopyAssign
  <1>12. FreeIsEmpty' /\ Reaping'
    <2>1. \A o \in Objects, f \in Fields : h = <<o, f>> => heap[o] = "live"
      BY <1>4, WriteHandleCounts DEF Handles
    <2> QED
      BY <1>1, <2>1 DEF IInv, FreeIsEmpty, Reaping, CopyAssign, Shape, Handles
  <1>13. ASSUME NEW u \in Threads
         PROVE  Node(u)' = Node(u)
    BY <1>1, <1>4 DEF CopyAssign, Node, Shape, Handles
  <1>14. ASSUME NEW u \in Threads
         PROVE  GainOwn(u)' /\ StaleOwn(u)' /\ WriteOwn(u)'
    <2>1. StaleOwn(u)' /\ WriteOwn(u)'
      BY <1>1, <1>4 DEF IInv, StaleOwn, WriteOwn, CopyAssign, Shape, Handles
    <2>2. ASSUME u = t PROVE GainOwn(u)'
      <3> SUFFICES ASSUME gain'[t] # None PROVE GainOwn(t)'
        BY <2>2 DEF GainOwn
      <3>1. gain'[t] = h /\ new \in Objects /\ data'[h] = new
        BY <1>1, <1>3 DEF CopyAssign, Shape
      <3>2. h \in Locals => h # write[t] /\ owner'[h] = t /\ write'[t] = write[t]
        BY <1>4 DEF CopyAssign
      <3>3. PICK n : n = Node(t) /\ n = Node(t)'
        BY <1>13
      <3>4. reap'[t] = None /\ stale'[t] = None /\ clone'[t] = None
        BY <1>2 DEF CopyAssign
      <3>5. h \notin Locals => h \in Objects \X Fields /\ h[1] = n
        BY <1>4, <3>3
      <3> QED
        BY <3>1, <3>2, <3>3, <3>4, <3>5 DEF GainOwn
    <2>3. ASSUME u # t PROVE GainOwn(u)'
      <3> SUFFICES ASSUME gain'[u] # None PROVE GainOwn(u)'
        BY DEF GainOwn
      <3>1. PICK g \in Handles : g = gain[u] /\ g = gain'[u] /\ g # h
        BY <1>1, <1>4, <2>3 DEF CopyAssign, Shape
      <3>2. PICK n : n = Node(u) /\ n = Node(u)'
        BY <1>13
      <3>3. data'[g] = data[g]
        BY <1>1, <3>1 DEF CopyAssign, Shape
      <3>4. GainOwn(u)
        BY DEF IInv
      <3>5. GainOwn(u)' <=>
              (gain'[u] # None =>
                 /\ data'[g] # None /\ reap'[u] = None /\ stale'[u] = None
                 /\ \/ g \in Locals /\ owner'[g] = u /\ g # write'[u] /\ clone'[u] = None
                    \/ g \in Objects \X Fields /\ g[1] = clone'[u]
                    \/ g \in Objects \X Fields /\ g[1] = n /\ clone'[u] = None)
        BY <3>1, <3>2 DEF GainOwn
      <3> QED
        BY <3>1, <3>2, <3>3, <3>4, <3>5 DEF GainOwn, CopyAssign
    <2> QED
      BY <2>1, <2>2, <2>3
  <1>15. ASSUME NEW u \in Threads PROVE CloneOwn(u)'
    <2> SUFFICES ASSUME clone'[u] # None PROVE CloneOwn(u)'
      BY DEF CloneOwn
    <2>1. PICK c \in Objects : c = clone[u] /\ c = clone'[u] /\ u # t
      BY <1>1, <1>2 DEF CopyAssign, Shape
    <2>2. \A x \in Handles \cup Threads : x \notin Holders(c)
      BY <2>1 DEF IInv, CloneOwn
    <2>3. \A x \in Handles \cup Threads : x \notin Holders(c)'
      BY <1>5, <1>6, <1>7, <2>2
    <2>4. \A x \in Handles \cup Threads : x \notin Holders(clone[u])'
      BY <2>1, <2>3 DEF Holders
    <2> QED
      BY <1>1, <1>4, <2>1, <2>4 DEF IInv, CloneOwn, CopyAssign, Shape, Handles
  <1>16. ASSUME NEW u \in Threads PROVE Exclusive(u)'
    <2> SUFFICES ASSUME write[u] # None, clone[u] = None,
                        NEW x \in Holders(Node(u))'
                 PROVE  x = write[u]
      BY DEF Exclusive, CopyAssign
    <2>1. PICK n \in Objects : n = Node(u) /\ n = Node(u)' /\ owner[write[u]] = u
                               /\ write[u] \in Locals
      BY <1>13, WriteHandleCounts
    <2>2. \A z \in Holders(n) : z = write[u]
      BY <2>1 DEF IInv, Exclusive
    <2>3. x \in Holders(n)'
      BY <2>1 DEF Holders
    <2> QED
      BY <1>4, <1>5, <1>6, <1>7, <2>1, <2>2, <2>3
  <1>17. ASSUME NEW u \in Threads PROVE Backed(u)'
    <2>1. CASE u # t
      <3>1. \A p \in Objects, f \in Fields :
              (drop[u] = p \/ \E l \in Locals : owner[l] = u /\ l \in Counted(p)) => <<p, f>> # h
        <4> SUFFICES ASSUME NEW p \in Objects, NEW f \in Fields, h = <<p, f>>,
                            drop[u] = p \/ \E l \in Locals : owner[l] = u /\ l \in Counted(p)
                     PROVE  FALSE
          OBVIOUS
        <4>1. p = Node(t) /\ write[t] # None /\ owner[write[t]] = t /\ write[t] \in Locals
          BY <1>4, WriteHandleCounts
        <4>2. \A z \in Holders(p) : z = write[t]
          BY <1>2, <4>1 DEF IInv, Exclusive
        <4>3. drop[u] = p => u \in Holders(p)
          BY HoldersDef
        <4> QED
          BY <2>1, <4>1, <4>2, <4>3, CountedDef DEF Handles
      <3>2. Undisturbed(u)
        BY <1>1, <1>4, <1>8, <2>1, <3>1 DEF Undisturbed, CopyAssign, Shape
      <3> QED
        BY <1>1, <3>2, BackedKept
    <2>2. CASE u = t
      <3> SUFFICES ASSUME new # None PROVE Backed(t)'
        BY <1>1, <1>3, <2>2 DEF Backed, CopyAssign, Shape
      <3>1. new \in Objects /\ data'[gain'[t]] = new /\ gain'[t] = h
        BY <1>1, <1>3 DEF CopyAssign, Shape
      <3>2. s \in Counted(new)'
        BY <1>3, <1>5, <1>8, <3>1
      <3>3. Keeps(t, s)'
        <4>1. CASE s \in Locals
          BY <1>5, <4>1 DEF Keeps, CopyAssign
        <4>2. CASE s \notin Locals
          <5>1. PICK p \in Objects, f \in Fields : s = <<p, f>> /\ s[1] = p
            BY <1>5, <4>2
          <5>2. PICK l \in Locals : owner[l] = t /\ data[l] = p /\ l \in Counted(p)
            BY <1>5, <4>2, <5>1
          <5>3. drop'[t] = p \/ l \in Counted(p)'
            BY <1>1, <1>3, <1>8, <5>2 DEF CopyAssign, Shape
          <5>4. Keeps(t, s)' <=> \/ s \in Locals /\ owner'[s] = t
                                 \/ /\ s \in Objects \X Fields
                                    /\ drop'[t] = p \/ \E k \in Locals : owner'[k] = t /\ k \in Counted(p)'
            BY <5>1 DEF Keeps
          <5> QED
            BY <5>1, <5>2, <5>3, <5>4 DEF CopyAssign
        <4> QED
          BY <4>1, <4>2
      <3>4. Backed(t)' <=> (gain'[t] # None => \E k \in Handles : k \in Counted(new)' /\ Keeps(t, k)')
        BY <3>1 DEF Backed
      <3> QED
        BY <3>2, <3>3, <3>4
    <2> QED
      BY <2>1, <2>2
  <1> QED
    BY <1>1, <1>10, <1>11, <1>12, <1>14, <1>15, <1>16, <1>17 DEF IInv

\* Move assignment preserves the invariant (object.h:105-117).
LEMMA MoveAssignInv ==
  ASSUME IInv, NEW t \in Threads, NEW h \in Handles, NEW s \in Handles,
         MoveAssign(t, h, s)
  PROVE  IInv'
  <1> USE DistinctAssumption
  <1>1. Shape /\ Shape'
    BY DEF IInv, Shape, MoveAssign
  <1>2. /\ Ready(t) /\ h \in Writable(t) /\ s \in Writable(t) /\ h # s
        /\ gain[t] = None /\ drop[t] = None /\ clone[t] = None
    BY DEF MoveAssign, Ready
  <1>3. PICK old, new : old = data[h] /\ new = data[s]
    OBVIOUS
  <1>4. \A u \in Threads, k \in {h, s} :
          /\ gain[u] # k /\ stale[u] # k /\ write[u] # k
          /\ k \in Locals => owner[k] = t
          /\ k \notin Locals => clone[u] # k[1] /\ k[1] = Node(t) /\ write[t] # None
    BY <1>2, WritableIsFree
  <1>5. ASSUME NEW o \in Objects, NEW z
        PROVE  z \in Holders(o)' <=> \/ z \in Holders(o) /\ z # h /\ z # s
                                     \/ z = h /\ o = new
                                     \/ z = t /\ o = old
    BY <1>1, <1>2, <1>3, <1>4 DEF MoveAssign, Holders, Shape
  <1>6. ASSUME NEW o \in Objects, NEW z
        PROVE  z \in Counted(o)' <=> \/ z \in Counted(o) /\ z # h /\ z # s
                                     \/ z = h /\ o = new
                                     \/ z = t /\ o = old
    BY <1>1, <1>4, <1>5, CountedDef DEF MoveAssign, Counted, Shape
  <1>7. \A o \in Objects :
          /\ h \in Counted(o) <=> o = old
          /\ s \in Counted(o) <=> o = new
          /\ h \in Holders(o) <=> o = old
          /\ s \in Holders(o) <=> o = new
          /\ t \notin Counted(o)
    BY <1>2, <1>3, <1>4, HoldersDef, CountedDef
  <1>8. CountExact'
    <2> SUFFICES ASSUME NEW o \in Objects
                 PROVE  count'[o] = Cardinality(Counted(o)')
      BY DEF CountExact
    <2>1. count'[o] = count[o]
      BY DEF MoveAssign
    <2>2. CASE o = old /\ o = new
      BY <1>2, <1>6, <1>7, <2>1, <2>2, CountTrade
    <2>3. CASE o = old /\ o # new
      BY <1>2, <1>6, <1>7, <2>1, <2>3, CountTrade
    <2>4. CASE o # old /\ o = new
      BY <1>2, <1>6, <1>7, <2>1, <2>4, CountTrade
    <2>5. CASE o # old /\ o # new
      BY <1>6, <1>7, <2>1, <2>5, CountSame
    <2> QED
      BY <2>2, <2>3, <2>4, <2>5
  <1>9. PointerStep(t)
    <2>1. UNCHANGED <<heap, count, owner, gain, reap, outer, write, clone, todo>> /\ stale' = stale
      BY DEF MoveAssign
    <2>2. \A k \in Handles : k # h /\ k # s => data'[k] = data[k]
      BY <1>1 DEF MoveAssign, Shape
    <2>3. \A u \in Threads : /\ gain[u] # None => data'[gain[u]] = data[gain[u]]
                             /\ write[u] # None => data'[write[u]] = data[write[u]]
      BY <1>1, <1>4, <2>2 DEF Shape, Handles
    <2>4. \A o \in Objects, f \in Fields :
            <<o, f>> \in {h, s} => heap[o] = "live" /\ \A u \in Threads : clone[u] # o
      BY <1>4, WriteHandleCounts
    <2>5. ASSUME NEW o \in Objects, NEW u \in Threads,
                 \/ write[u] # None /\ clone[u] = None /\ o = Node(u)
                 \/ clone[u] = o
          PROVE  o # old /\ o # new
      BY <1>2, <1>3, <2>5, WritableElsewhere
    <2>6. \A u \in Threads : StaleOwn(u)'
      BY <2>1 DEF IInv, StaleOwn
    <2>7. ASSUME NEW u \in Threads \ {t} PROVE Undisturbed(u)
      <3>1. \A p \in Objects, f \in Fields :
              (drop[u] = p \/ \E l \in Locals : owner[l] = u /\ l \in Counted(p)) =>
                <<p, f>> # h /\ <<p, f>> # s
        BY <1>2, WritableUnseen
      <3>2. drop'[u] = drop[u]
        BY DEF MoveAssign
      <3> QED
        BY <1>4, <1>6, <2>1, <2>3, <3>1, <3>2 DEF Undisturbed
    <2>8. \A u \in Threads \ {t} : drop'[u] = drop[u]
      BY DEF MoveAssign
    <2>9. \A o \in Objects : \A x \in Counted(o)' : \E y : y \in Counted(o)
      BY <1>6, <1>7
    <2> QED
      BY <1>2, <1>5, <2>1, <2>2, <2>3, <2>4, <2>5, <2>6, <2>7, <2>8, <2>9
         DEF PointerStep, Handles
  <1> QED
    BY <1>1, <1>8, <1>9, PointerStepInv

\* swap preserves the invariant (object.h:119-121).
LEMMA SwapInv ==
  ASSUME IInv, NEW t \in Threads, NEW h \in Handles, NEW s \in Handles,
         Swap(t, h, s)
  PROVE  IInv'
  <1> USE DistinctAssumption
  <1>1. Shape /\ Shape'
    BY DEF IInv, Shape, Swap, registers
  <1>2. /\ Ready(t) /\ h \in Writable(t) /\ s \in Writable(t) /\ h # s
        /\ gain[t] = None /\ drop[t] = None /\ clone[t] = None
    BY DEF Swap, Ready
  <1>3. PICK old, new : old = data[h] /\ new = data[s]
    OBVIOUS
  <1>4. \A u \in Threads, k \in {h, s} :
          /\ gain[u] # k /\ stale[u] # k /\ write[u] # k
          /\ k \in Locals => owner[k] = t
          /\ k \notin Locals => clone[u] # k[1] /\ k[1] = Node(t) /\ write[t] # None
    BY <1>2, WritableIsFree
  <1>5. ASSUME NEW o \in Objects, NEW z
        PROVE  z \in Holders(o)' <=> \/ z \in Holders(o) /\ z # h /\ z # s
                                     \/ z = h /\ o = new
                                     \/ z = s /\ o = old
    BY <1>1, <1>2, <1>3, <1>4 DEF Swap, Holders, Shape, registers
  <1>6. ASSUME NEW o \in Objects, NEW z
        PROVE  z \in Counted(o)' <=> \/ z \in Counted(o) /\ z # h /\ z # s
                                     \/ z = h /\ o = new
                                     \/ z = s /\ o = old
    BY <1>1, <1>4, <1>5, CountedDef DEF Swap, Counted, Shape, registers
  <1>7. \A o \in Objects :
          /\ h \in Counted(o) <=> o = old
          /\ s \in Counted(o) <=> o = new
    BY <1>2, <1>3, <1>4, HoldersDef, CountedDef
  <1>8. CountExact'
    <2> SUFFICES ASSUME NEW o \in Objects
                 PROVE  count'[o] = Cardinality(Counted(o)')
      BY DEF CountExact
    <2>1. count'[o] = count[o]
      BY DEF Swap
    <2>2. CASE o = old /\ o # new
      BY <1>2, <1>6, <1>7, <2>1, <2>2, CountTrade
    <2>3. CASE o # old /\ o = new
      BY <1>2, <1>6, <1>7, <2>1, <2>3, CountTrade
    <2>4. CASE (o = old) = (o = new)
      <3>1. \A z : z \in Counted(o)' <=> z \in Counted(o)
        BY <1>6, <1>7, <2>4
      <3> QED
        BY <2>1, <3>1, CountSame
    <2> QED
      BY <2>2, <2>3, <2>4
  <1>9. PointerStep(t)
    <2>1. UNCHANGED <<heap, count, owner, gain, drop, reap, outer, stale, write, clone, todo>>
      BY DEF Swap, registers
    <2>2. \A k \in Handles : k # h /\ k # s => data'[k] = data[k]
      BY <1>1 DEF Swap, Shape
    <2>3. \A u \in Threads : /\ gain[u] # None => data'[gain[u]] = data[gain[u]]
                             /\ write[u] # None => data'[write[u]] = data[write[u]]
      BY <1>1, <1>4, <2>2 DEF Shape, Handles
    <2>4. \A o \in Objects, f \in Fields :
            <<o, f>> \in {h, s} => heap[o] = "live" /\ \A u \in Threads : clone[u] # o
      BY <1>4, WriteHandleCounts
    <2>5. ASSUME NEW o \in Objects, NEW u \in Threads,
                 \/ write[u] # None /\ clone[u] = None /\ o = Node(u)
                 \/ clone[u] = o
          PROVE  o # old /\ o # new
      BY <1>2, <1>3, <2>5, WritableElsewhere
    <2>6. \A u \in Threads : StaleOwn(u)'
      BY <2>1 DEF IInv, StaleOwn
    <2>7. ASSUME NEW u \in Threads \ {t} PROVE Undisturbed(u)
      <3>1. \A p \in Objects, f \in Fields :
              (drop[u] = p \/ \E l \in Locals : owner[l] = u /\ l \in Counted(p)) =>
                <<p, f>> # h /\ <<p, f>> # s
        BY <1>2, WritableUnseen
      <3> QED
        BY <1>4, <1>6, <2>1, <2>3, <3>1 DEF Undisturbed
    <2>8. \A o \in Objects : \A x \in Counted(o)' : \E y : y \in Counted(o)
      BY <1>6, <1>7
    <2> QED
      BY <1>2, <1>5, <2>1, <2>2, <2>3, <2>4, <2>5, <2>6, <2>7, <2>8
         DEF PointerStep, Handles
  <1> QED
    BY <1>1, <1>8, <1>9, PointerStepInv

\* h gives up its reference, and t owes the release.
Releases(t, h) ==
  /\ UNCHANGED <<heap, count, owner, gain, reap, outer, write, clone, todo>>
  /\ gain[t] = None /\ drop[t] = None /\ clone[t] = None
  /\ data[h] # None /\ drop' = [drop EXCEPT ![t] = data[h]]
  /\ \A k \in Handles \ {h} : data'[k] = data[k]
  /\ \A u \in Threads \ {t} : stale'[u] = stale[u]
  /\ \/ data'[h] = None /\ stale'[t] = stale[t]
     \/ data'[h] = data[h] /\ stale[t] = None /\ stale'[t] = h
  /\ \A u \in Threads : gain[u] # h /\ stale[u] # h /\ write[u] # h
  /\ h \in Locals => owner[h] = t
  /\ \A p \in Objects, f \in Fields :
       h = <<p, f>> =>
         \A u \in Threads :
           /\ clone[u] # p
           /\ u # t => drop[u] # p /\ \A l \in Locals : owner[l] = u => l \notin Counted(p)

\* A step in which a handle stops counting and its thread owes the release
\* instead preserves the invariant.
LEMMA ReleasesInv ==
  ASSUME IInv, Shape', NEW t \in Threads, NEW h \in Handles, Releases(t, h),
         stale'[t] = h => h \in Locals
  PROVE  IInv'
  <1> USE DistinctAssumption
  <1>1. Shape /\ Shape' /\ h # None /\ h # t /\ t # None
    BY DEF IInv
  <1>2. PICK old \in Objects : old = data[h] /\ drop' = [drop EXCEPT ![t] = old]
    BY <1>1 DEF Releases, Shape
  <1>3. ASSUME NEW o \in Objects, NEW z
        PROVE  z \in Holders(o)' <=> \/ z \in Holders(o) /\ z # h
                                     \/ z = t /\ o = old
    <2>1. z \in Threads => (drop'[z] = o <=> \/ drop[z] = o
                                             \/ z = t /\ o = old)
      BY <1>1, <1>2 DEF Releases, Shape
    <2>2. z \in Handles => ((data'[z] = o /\ \A u \in Threads : stale'[u] # z)
                              <=> data[z] = o /\ z # h /\ \A u \in Threads : stale[u] # z)
      BY <1>1, <1>2 DEF Releases
    <2> QED
      BY <1>1, <2>1, <2>2 DEF Holders
  <1>4. ASSUME NEW o \in Objects, NEW z
        PROVE  z \in Counted(o)' <=> \/ z \in Counted(o) /\ z # h
                                     \/ z = t /\ o = old
    BY <1>1, <1>3, CountedDef DEF Releases, Counted, Shape
  <1>5. /\ h \in Counted(old) /\ h \in Holders(old)
        /\ \A o \in Objects : (h \in Counted(o) <=> o = old) /\ t \notin Counted(o)
    BY <1>2, HoldersDef, CountedDef DEF Releases
  <1>6. CountExact'
    <2> SUFFICES ASSUME NEW o \in Objects
                 PROVE  count'[o] = Cardinality(Counted(o)')
      BY DEF CountExact
    <2>1. count'[o] = count[o]
      BY DEF Releases
    <2>2. CASE o = old
      BY <1>1, <1>4, <1>5, <2>1, <2>2, CountTrade
    <2>3. CASE o # old
      BY <1>4, <1>5, <2>1, <2>3, CountSame
    <2> QED
      BY <2>2, <2>3
  <1>7. PointerStep(t)
    <2>1. \A u \in Threads : /\ gain[u] # None => data'[gain[u]] = data[gain[u]]
                             /\ write[u] # None => data'[write[u]] = data[write[u]]
      BY <1>1 DEF Releases, Shape, Handles
    <2>2. ASSUME NEW o \in Objects, NEW f \in Fields
          PROVE  \/ data'[<<o, f>>] = data[<<o, f>>]
                 \/ data'[<<o, f>>] = None /\ \A u \in Threads : clone[u] # o
      BY DEF Releases, Handles
    <2>3. ASSUME NEW u \in Threads, write[u] # None, clone[u] = None PROVE old # Node(u)
      BY <1>5, <2>3 DEF IInv, Exclusive, Releases
    <2>4. \A u \in Threads : clone[u] # old
      BY <1>5 DEF IInv, CloneOwn
    <2>5. \A u \in Threads : StaleOwn(u)'
      BY <1>1 DEF IInv, StaleOwn, Releases
    <2>6. ASSUME NEW u \in Threads \ {t} PROVE Undisturbed(u)
      <3>1. drop'[u] = drop[u] /\ gain'[u] = gain[u] /\ owner' = owner
        BY <1>1, <1>2 DEF Releases, Shape
      <3>2. \A p \in Objects, f \in Fields :
              (drop[u] = p \/ \E l \in Locals : owner[l] = u /\ l \in Counted(p)) => <<p, f>> # h
        BY DEF Releases
      <3>3. \A l \in Locals : owner[l] = u => l # h
        BY DEF Releases
      <3> QED
        BY <1>4, <2>1, <3>1, <3>2, <3>3 DEF Undisturbed
    <2>7. \A u \in Threads \ {t} : drop'[u] = drop[u]
      BY <1>1, <1>2 DEF Shape
    <2>8. \A o \in Objects : \A x \in Counted(o)' : \E y : y \in Counted(o)
      BY <1>4, <1>5
    <2> QED
      BY <1>3, <2>1, <2>2, <2>3, <2>4, <2>5, <2>6, <2>7, <2>8 DEF PointerStep, Releases
  <1> QED
    BY <1>1, <1>6, <1>7, PointerStepInv

\* The destructor of a local preserves the invariant (object.h:80-82).
LEMMA DestructInv ==
  ASSUME IInv, NEW t \in Threads, NEW h \in Locals, Destruct(t, h)
  PROVE  IInv'
  <1> USE DistinctAssumption
  <1>1. Shape'
    BY DEF IInv, Shape, Destruct, Handles
  <1>2. h \in Writable(t) /\ Ready(t) /\ h \in Handles
    BY DEF Destruct, Writable, Handles
  <1>3. Releases(t, h)
    BY <1>2, WritableIsFree DEF Releases, Destruct, Ready, IInv, Shape
  <1>4. stale'[t] = h => h \in Locals
    OBVIOUS
  <1> QED
    BY <1>1, <1>2, <1>3, <1>4, ReleasesInv

\* The first half of reset preserves the invariant (object.h:140-142).
LEMMA ResetInv ==
  ASSUME IInv, NEW t \in Threads, NEW h \in Locals, Reset(t, h)
  PROVE  IInv'
  <1> USE DistinctAssumption
  <1>1. Shape'
    BY DEF IInv, Shape, Reset, Handles
  <1>2. h \in Writable(t) /\ Ready(t) /\ h \in Handles
    BY DEF Reset, Writable, Handles
  <1>3. Releases(t, h)
    BY <1>2, WritableIsFree DEF Releases, Reset, Ready, IInv, Shape
  <1>4. stale'[t] = h => h \in Locals
    OBVIOUS
  <1> QED
    BY <1>1, <1>2, <1>3, <1>4, ReleasesInv

\* Destroying a member preserves the invariant (object.h:80-82).
LEMMA DestructFieldInv ==
  ASSUME IInv, NEW t \in Threads, NEW f \in Fields, DestructField(t, f)
  PROVE  IInv'
  <1> USE DistinctAssumption
  <1>1. PICK p \in Objects : p = reap[t]
    BY DEF IInv, Shape, DestructField
  <1>2. PICK h : h = <<p, f>>
    OBVIOUS
  <1>3. h \in Handles /\ h \notin Locals /\ h \in Objects \X Fields /\ h[1] = p /\ h # None
    BY <1>2 DEF Handles
  <1>4. Shape'
    BY <1>1, <1>2, <1>3 DEF IInv, Shape, DestructField
  <1>5. heap[p] = "dying" /\ p # None
    BY <1>1 DEF IInv, Reaping
  <1>6. \A x : x \notin Holders(p)
    BY <1>5, HeldIsLive
  <1>7. ASSUME NEW u \in Threads PROVE clone[u] # p
    BY <1>5 DEF IInv, CloneOwn
  <1>8. ASSUME NEW u \in Threads
        PROVE  gain[u] # h /\ stale[u] # h /\ write[u] # h
    <2>1. Node(u) # p
      BY <1>5, WriteHandleCounts DEF Node
    <2>2. stale[u] # h /\ write[u] # h
      BY <1>3 DEF IInv, Shape
    <2> QED
      BY <1>3, <1>7, <2>1, <2>2 DEF IInv, GainOwn
  <1>9. gain[t] = None /\ clone[t] = None
    BY DEF IInv, GainOwn, CloneOwn, DestructField
  <1>10. \A u \in Threads : drop[u] # p
    BY <1>6, HoldersDef
  <1>11. Releases(t, h)
    <2>1. /\ UNCHANGED <<heap, count, owner, gain, reap, outer, stale, write, clone, todo>>
          /\ drop[t] = None /\ data[h] # None
          /\ drop' = [drop EXCEPT ![t] = data[h]]
          /\ data' = [data EXCEPT ![h] = None]
      BY <1>1, <1>2 DEF DestructField
    <2>2. data'[h] = None /\ \A k \in Handles \ {h} : data'[k] = data[k]
      BY <1>3, <2>1 DEF IInv, Shape
    <2>3. \A q \in Objects, g \in Fields : h = <<q, g>> => q = p
      BY <1>2
    <2>4. \A l : l \notin Counted(p)
      BY <1>6, CountedDef
    <2> QED
      BY <1>3, <1>7, <1>8, <1>9, <1>10, <2>1, <2>2, <2>3, <2>4 DEF Releases
  <1>12. stale'[t] # h
    BY <1>8 DEF DestructField
  <1> QED
    BY <1>3, <1>4, <1>11, <1>12, ReleasesInv

\* The second half of reset preserves the invariant (object.h:142-145).
LEMMA ResetDoneInv ==
  ASSUME IInv, NEW t \in Threads, ResetDone(t)
  PROVE  IInv'
  <1> USE DistinctAssumption
  <1>1. Shape /\ Shape'
    BY DEF IInv, Shape, ResetDone
  <1>2. PICK h \in Locals : h = stale[t] /\ h # None /\ h \in Handles
    BY <1>1 DEF ResetDone, Shape, Handles
  <1>3. owner[h] = t /\ clone[t] = None /\ gain[t] = None
    BY <1>2 DEF IInv, StaleOwn, GainOwn
  <1>4. \A u \in Threads : gain[u] # h /\ write[u] # h /\ (stale[u] = h => u = t)
    BY <1>1, <1>2, <1>3 DEF IInv, GainOwn, StaleOwn, WriteOwn, Shape
  <1>5. /\ \A k \in Handles : data'[k] = IF k = h THEN None ELSE data[k]
        /\ \A u \in Threads : stale'[u] = IF u = t THEN None ELSE stale[u]
        /\ UNCHANGED <<heap, count, owner, gain, drop, reap, outer, write, clone, todo>>
    BY <1>1, <1>2 DEF ResetDone, Shape
  <1>6. ASSUME NEW o \in Objects, NEW z
        PROVE  z \in Holders(o)' <=> z \in Holders(o)
    <2>1. z \in Handles =>
            ((data'[z] = o /\ \A u \in Threads : stale'[u] # z)
               <=> (data[z] = o /\ \A u \in Threads : stale[u] # z))
      BY <1>2, <1>4, <1>5
    <2> QED
      BY <1>5, <2>1 DEF Holders
  <1>7. ASSUME NEW o \in Objects, NEW z
        PROVE  z \in Counted(o)' <=> z \in Counted(o)
    BY <1>5, <1>6, CountedDef DEF Counted
  <1>8. CountExact'
    BY <1>5, <1>7, CountSame DEF CountExact
  <1>9. PointerStep(t)
    <2>1. \A u \in Threads : /\ gain[u] # None => data'[gain[u]] = data[gain[u]]
                             /\ write[u] # None => data'[write[u]] = data[write[u]]
      BY <1>1, <1>4, <1>5 DEF Shape, Handles
    <2>2. \A o \in Objects, f \in Fields : data'[<<o, f>>] = data[<<o, f>>]
      BY <1>2, <1>5 DEF Handles
    <2>3. \A u \in Threads : StaleOwn(u)'
      BY <1>5 DEF IInv, StaleOwn
    <2>4. ASSUME NEW u \in Threads \ {t} PROVE Undisturbed(u)
      BY <1>5, <1>7, <2>1 DEF Undisturbed
    <2> QED
      BY <1>3, <1>5, <1>6, <1>7, <2>1, <2>2, <2>3, <2>4 DEF PointerStep
  <1> QED
    BY <1>1, <1>8, <1>9, PointerStepInv

\* A step that leaves every pointer and every owed operation as it is.
LEMMA SameReferences ==
  ASSUME NEW o, data' = data, stale' = stale, drop' = drop, gain' = gain
  PROVE  Holders(o)' = Holders(o) /\ Counted(o)' = Counted(o)
  BY DEF Holders, Counted

\* The end of a write preserves the invariant.
LEMMA EndWriteInv ==
  ASSUME IInv, NEW t \in Threads, EndWrite(t)
  PROVE  IInv'
  <1>1. Shape /\ Shape'
    BY DEF IInv, Shape, EndWrite
  <1>2. /\ UNCHANGED <<heap, count, data, owner, gain, drop, reap, outer, stale, clone, todo>>
        /\ \A u \in Threads : write'[u] = IF u = t THEN None ELSE write[u]
        /\ gain[t] = None /\ clone[t] = None
    BY <1>1 DEF EndWrite, Ready, Shape
  <1>3. \A o \in Objects : Holders(o)' = Holders(o) /\ Counted(o)' = Counted(o)
    BY <1>2, SameReferences
  <1>4. CountExact' /\ CountedIsLive'
    BY <1>2, <1>3 DEF IInv, CountExact, CountedIsLive
  <1>5. FreeIsEmpty' /\ Reaping'
    BY <1>2 DEF IInv, FreeIsEmpty, Reaping
  <1>6. ASSUME NEW u \in Threads PROVE GainOwn(u)' /\ StaleOwn(u)' /\ WriteOwn(u)'
    <2>1. StaleOwn(u)' /\ WriteOwn(u)'
      BY <1>2, DistinctAssumption DEF IInv, StaleOwn, WriteOwn
    <2>2. CASE u = t
      BY <1>2, <2>1, <2>2 DEF GainOwn
    <2>3. CASE u # t
      <3>1. Node(u)' = Node(u)
        BY <1>2, <2>3 DEF Node
      <3> QED
        BY <1>1, <1>2, <2>1, <2>3, <3>1, GainOwnKept
    <2> QED
      BY <2>2, <2>3
  <1>7. ASSUME NEW u \in Threads PROVE CloneOwn(u)'
    <2>1. CASE u = t
      BY <1>2, <2>1 DEF CloneOwn
    <2>2. CASE u # t
      <3>1. \A o \in Objects, x \in Handles \cup Threads : o = clone[u] => x \notin Holders(o)'
        BY <1>3, DistinctAssumption DEF IInv, CloneOwn
      <3> QED
        BY <1>1, <1>2, <2>2, <3>1, CloneOwnKept
    <2> QED
      BY <2>1, <2>2
  <1>8. ASSUME NEW u \in Threads PROVE Exclusive(u)'
    <2>1. CASE u = t
      BY <1>2, <2>1 DEF Exclusive
    <2>2. CASE u # t
      <3>1. Node(u)' = Node(u)
        BY <1>2, <2>2 DEF Node
      <3>2. write[u] # None /\ clone[u] = None =>
              \A o \in Objects : o = Node(u) => \A x \in Holders(o)' : x = write[u]
        BY <1>3 DEF IInv, Exclusive
      <3> QED
        BY <1>2, <2>2, <3>1, <3>2, ExclusiveKept
    <2> QED
      BY <2>1, <2>2
  <1>9. ASSUME NEW u \in Threads PROVE Backed(u)'
    <2>1. Undisturbed(u)
      BY <1>2, <1>3 DEF Undisturbed
    <2> QED
      BY <1>1, <2>1, BackedKept
  <1> QED
    BY <1>1, <1>4, <1>5, <1>6, <1>7, <1>8, <1>9 DEF IInv

\* Passing a local to another thread preserves the invariant.
LEMMA HandoverInv ==
  ASSUME IInv, NEW t \in Threads, NEW v \in Threads, NEW h \in Locals,
         Handover(t, v, h)
  PROVE  IInv'
  <1> USE DistinctAssumption
  <1>1. Shape /\ Shape'
    BY DEF IInv, Shape, Handover, registers
  <1>2. /\ UNCHANGED <<heap, count, data, gain, drop, reap, outer, stale, write, clone, todo>>
        /\ \A l \in Locals : owner'[l] = IF l = h THEN v ELSE owner[l]
        /\ gain[t] = None /\ clone[t] = None /\ Ready(t) /\ owner[h] = t /\ v # t
    BY <1>1 DEF Handover, registers, Ready, Shape, Owned
  <1>3. \A u \in Threads : gain[u] # h /\ stale[u] # h /\ write[u] # h
    <2>1. h \in Writable(t)
      BY DEF Handover, Writable
    <2> QED
      BY <1>2, <2>1, WritableIsFree
  <1>4. \A o \in Objects : Holders(o)' = Holders(o) /\ Counted(o)' = Counted(o)
    BY <1>2, SameReferences
  <1>5. CountExact' /\ CountedIsLive'
    BY <1>2, <1>4 DEF IInv, CountExact, CountedIsLive
  <1>6. FreeIsEmpty' /\ Reaping'
    BY <1>2 DEF IInv, FreeIsEmpty, Reaping
  <1>7. ASSUME NEW u \in Threads PROVE Node(u)' = Node(u)
    BY <1>2 DEF Node
  <1>8. ASSUME NEW u \in Threads PROVE GainOwn(u)' /\ StaleOwn(u)' /\ WriteOwn(u)'
    <2>1. StaleOwn(u)' /\ WriteOwn(u)'
      BY <1>1, <1>2, <1>3 DEF IInv, StaleOwn, WriteOwn, Shape
    <2>2. CASE u = t
      BY <1>2, <2>1, <2>2 DEF GainOwn
    <2>3. CASE u # t
      BY <1>1, <1>2, <1>7, <2>1, <2>3, GainOwnKept
    <2> QED
      BY <2>2, <2>3
  <1>9. ASSUME NEW u \in Threads PROVE CloneOwn(u)'
    <2>1. \A o \in Objects, x \in Handles \cup Threads : o = clone[u] => x \notin Holders(o)'
      BY <1>4 DEF IInv, CloneOwn
    <2> QED
      BY <1>1, <1>2, <2>1, CloneOwnKept
  <1>10. ASSUME NEW u \in Threads PROVE Exclusive(u)'
    <2>1. write[u] # None /\ clone[u] = None =>
            \A o \in Objects : o = Node(u) => \A x \in Holders(o)' : x = write[u]
      BY <1>4 DEF IInv, Exclusive
    <2> QED
      BY <1>2, <1>7, <2>1, ExclusiveKept
  <1>11. ASSUME NEW u \in Threads PROVE Backed(u)'
    <2>1. CASE u = t
      BY <1>2, <2>1 DEF Backed
    <2>2. CASE u # t
      <3>1. Undisturbed(u)
        <4>1. \A l \in Locals : owner[l] = u => owner'[l] = u
          BY <1>2, <2>2
        <4> QED
          BY <1>2, <1>4, <4>1 DEF Undisturbed
      <3> QED
        BY <1>1, <3>1, BackedKept
    <2> QED
      BY <2>1, <2>2
  <1> QED
    BY <1>1, <1>5, <1>6, <1>8, <1>9, <1>10, <1>11 DEF IInv

\* CopyOnWrite on a handle that is unique preserves the invariant
\* (object.h:247-249).
LEMMA CowUniqueInv ==
  ASSUME IInv, NEW t \in Threads, NEW h \in Locals, CowUnique(t, h)
  PROVE  IInv'
  <1> USE DistinctAssumption
  <1>1. Shape /\ Shape'
    BY DEF IInv, Shape, CowUnique
  <1>2. /\ UNCHANGED <<heap, count, data, owner, gain, drop, reap, outer, stale, clone, todo>>
        /\ \A u \in Threads : write'[u] = IF u = t THEN h ELSE write[u]
        /\ gain[t] = None /\ clone[t] = None /\ Ready(t) /\ owner[h] = t
        /\ write[t] = None /\ h # None /\ h \in Handles
    BY <1>1 DEF CowUnique, Ready, Shape, Owned, Handles
  <1>3. PICK n \in Objects : n = data[h] /\ n # None /\ count[n] = 1
    BY <1>1, <1>2 DEF CowUnique, Shape
  <1>4. /\ \A u \in Threads : gain[u] # h /\ stale[u] # h /\ write[u] # h
        /\ h \in Counted(n)
    <2>1. h \in Writable(t)
      BY <1>2 DEF CowUnique, Writable
    <2> QED
      BY <1>2, <1>3, <2>1, WritableIsFree, WritableElsewhere
  <1>5. \A x \in Counted(n) : x = h
    <2>1. IsFiniteSet(Counted(n)) /\ Cardinality(Counted(n)) = 1
      BY <1>3, CountedFinite DEF IInv, CountExact
    <2>2. PICK z : Counted(n) = {z}
      BY <2>1, FS_Singleton
    <2> QED
      BY <1>4, <2>2
  \* A copy in progress has a source, which only h can be; but then t makes it.
  <1>6. \A x \in Holders(n) : x = h
    <2> SUFFICES ASSUME NEW x \in Holders(n), x # h PROVE FALSE
      OBVIOUS
    <2>1. PICK u \in Threads : gain[u] = x
      BY <1>5, CountedDef
    <2>2. u # t /\ x # None /\ data[x] = n
      BY <1>1, <1>2, <2>1, HoldersDef DEF Shape
    <2>3. PICK s \in Handles : s \in Counted(n) /\ Keeps(u, s)
      BY <2>1, <2>2 DEF IInv, Backed
    <2> QED
      BY <1>2, <1>5, <2>2, <2>3 DEF Keeps
  <1>7. \A o \in Objects : Holders(o)' = Holders(o) /\ Counted(o)' = Counted(o)
    BY <1>2, SameReferences
  <1>8. CountExact' /\ CountedIsLive'
    BY <1>2, <1>7 DEF IInv, CountExact, CountedIsLive
  <1>9. FreeIsEmpty' /\ Reaping'
    BY <1>2 DEF IInv, FreeIsEmpty, Reaping
  <1>10. ASSUME NEW u \in Threads PROVE u # t => Node(u)' = Node(u)
    BY <1>2 DEF Node
  <1>11. ASSUME NEW u \in Threads PROVE GainOwn(u)' /\ StaleOwn(u)' /\ WriteOwn(u)'
    <2>1. StaleOwn(u)' /\ WriteOwn(u)'
      BY <1>2, <1>3, <1>4 DEF IInv, StaleOwn, WriteOwn
    <2>2. CASE u = t
      BY <1>2, <2>1, <2>2 DEF GainOwn
    <2>3. CASE u # t
      BY <1>1, <1>2, <1>10, <2>1, <2>3, GainOwnKept
    <2> QED
      BY <2>2, <2>3
  <1>12. ASSUME NEW u \in Threads PROVE CloneOwn(u)'
    <2>1. CASE u = t
      BY <1>2, <2>1 DEF CloneOwn
    <2>2. CASE u # t
      <3>1. \A o \in Objects, x \in Handles \cup Threads : o = clone[u] => x \notin Holders(o)'
        BY <1>7 DEF IInv, CloneOwn
      <3> QED
        BY <1>1, <1>2, <2>2, <3>1, CloneOwnKept
    <2> QED
      BY <2>1, <2>2
  <1>13. ASSUME NEW u \in Threads PROVE Exclusive(u)'
    <2>1. CASE u = t
      <3>1. n = Node(t)' /\ write'[t] = h
        BY <1>2, <1>3 DEF Node
      <3>2. \A x \in Holders(n)' : x = h
        BY <1>6, <1>7
      <3>3. \A x : x \in Holders(Node(t))' => x \in Holders(n)'
        BY <3>1 DEF Holders
      <3> QED
        BY <2>1, <3>1, <3>2, <3>3 DEF Exclusive
    <2>2. CASE u # t
      <3>1. write[u] # None /\ clone[u] = None =>
              \A o \in Objects : o = Node(u) => \A x \in Holders(o)' : x = write[u]
        BY <1>7 DEF IInv, Exclusive
      <3> QED
        BY <1>2, <1>10, <2>2, <3>1, ExclusiveKept
    <2> QED
      BY <2>1, <2>2
  <1>14. ASSUME NEW u \in Threads PROVE Backed(u)'
    <2>1. Undisturbed(u)
      BY <1>2, <1>7 DEF Undisturbed
    <2> QED
      BY <1>1, <2>1, BackedKept
  <1> QED
    BY <1>1, <1>8, <1>9, <1>11, <1>12, <1>13, <1>14 DEF IInv

\* Starting a clone in CopyOnWrite preserves the invariant (object.h:247-250).
LEMMA CowCloneInv ==
  ASSUME IInv, NEW t \in Threads, NEW h \in Locals, NEW n \in Objects,
         CowClone(t, h, n)
  PROVE  IInv'
  <1> USE DistinctAssumption
  <1>1. Shape /\ Shape'
    BY DEF IInv, Shape, CowClone
  <1>2. /\ UNCHANGED <<count, data, owner, gain, drop, reap, outer, stale>>
        /\ \A o \in Objects : heap'[o] = IF o = n THEN "live" ELSE heap[o]
        /\ \A u \in Threads : /\ write'[u] = IF u = t THEN h ELSE write[u]
                              /\ clone'[u] = IF u = t THEN n ELSE clone[u]
                              /\ todo'[u] = IF u = t THEN Fields ELSE todo[u]
        /\ gain[t] = None /\ stale[t] = None /\ drop[t] = None /\ reap[t] = None
        /\ owner[h] = t /\ data[h] # None /\ heap[n] = "free" /\ n # None
        /\ clone[t] = None /\ h # None /\ Ready(t)
    BY <1>1 DEF CowClone, Ready, Shape, Owned, Handles
  <1>3. \A u \in Threads : gain[u] # h /\ stale[u] # h /\ write[u] # h
    <2>1. h \in Writable(t)
      BY <1>2 DEF CowClone, Writable
    <2> QED
      BY <1>2, <2>1, WritableIsFree
  <1>4. \A x : x \notin Holders(n)
    BY <1>2, HeldIsLive
  <1>5. \A o \in Objects : Holders(o)' = Holders(o) /\ Counted(o)' = Counted(o)
    BY <1>2, SameReferences
  <1>6. CountExact' /\ CountedIsLive'
    BY <1>2, <1>5 DEF IInv, CountExact, CountedIsLive
  <1>7. FreeIsEmpty' /\ Reaping'
    BY <1>1, <1>2 DEF IInv, FreeIsEmpty, Reaping, Shape
  <1>8. ASSUME NEW u \in Threads PROVE u # t => Node(u)' = Node(u)
    BY <1>2 DEF Node
  <1>9. ASSUME NEW u \in Threads PROVE GainOwn(u)' /\ StaleOwn(u)' /\ WriteOwn(u)'
    <2>1. StaleOwn(u)' /\ WriteOwn(u)'
      BY <1>2, <1>3 DEF IInv, StaleOwn, WriteOwn
    <2>2. CASE u = t
      BY <1>2, <2>1, <2>2 DEF GainOwn
    <2>3. CASE u # t
      BY <1>1, <1>2, <1>8, <2>1, <2>3, GainOwnKept
    <2> QED
      BY <2>2, <2>3
  <1>10. \A u \in Threads : clone[u] # n
    BY <1>2 DEF IInv, CloneOwn
  <1>11. ASSUME NEW u \in Threads PROVE CloneOwn(u)'
    <2>1. CASE u = t
      <3>1. clone'[t] = n /\ write'[t] # None /\ heap'[n] = "live"
        BY <1>2
      <3>2. \A x : x \notin Holders(clone[t])'
        <4>1. \A x : x \in Holders(clone[t])' => x \in Holders(n)'
          BY <3>1 DEF Holders
        <4> QED
          BY <1>4, <1>5, <4>1
      <3>3. \A f \in Fields : data'[<<n, f>>] = None
        BY <1>2 DEF IInv, FreeIsEmpty
      <3>4. \A v \in Threads : clone'[v] = clone'[t] => v = t
        BY <1>2, <1>10, <3>1
      <3> QED
        BY <1>1, <1>2, <2>1, <3>1, <3>2, <3>3, <3>4 DEF CloneOwn, Shape
    <2>2. CASE u # t
      <3>1. \A o \in Objects, x \in Handles \cup Threads : o = clone[u] => x \notin Holders(o)'
        BY <1>5 DEF IInv, CloneOwn
      <3>2. clone[u] # None => heap'[clone[u]] = heap[clone[u]]
        BY <1>1, <1>2, <1>10 DEF Shape
      <3> QED
        BY <1>1, <1>2, <1>10, <2>2, <3>1, <3>2, CloneOwnKept
    <2> QED
      BY <2>1, <2>2
  <1>12. ASSUME NEW u \in Threads PROVE Exclusive(u)'
    <2>1. CASE u = t
      BY <1>2, <2>1 DEF Exclusive
    <2>2. CASE u # t
      <3>1. write[u] # None /\ clone[u] = None =>
              \A o \in Objects : o = Node(u) => \A x \in Holders(o)' : x = write[u]
        BY <1>5 DEF IInv, Exclusive
      <3> QED
        BY <1>2, <1>8, <2>2, <3>1, ExclusiveKept
    <2> QED
      BY <2>1, <2>2
  <1>13. ASSUME NEW u \in Threads PROVE Backed(u)'
    <2>1. Undisturbed(u)
      BY <1>2, <1>5 DEF Undisturbed
    <2> QED
      BY <1>1, <2>1, BackedKept
  <1> QED
    BY <1>1, <1>6, <1>7, <1>9, <1>11, <1>12, <1>13 DEF IInv

\* The end of a destructor preserves the invariant (object.h:50-52).
LEMMA DeallocateInv ==
  ASSUME IInv, NEW t \in Threads, Deallocate(t)
  PROVE  IInv'
  <1> USE DistinctAssumption
  <1>1. Shape /\ Shape'
    BY DEF IInv, Shape, Deallocate
  <1>2. PICK p \in Objects : p = reap[t] /\ p # None
    BY <1>1 DEF Deallocate, Shape
  <1>3. /\ UNCHANGED <<count, data, owner, gain, drop, stale, write, clone, todo>>
        /\ \A o \in Objects : /\ heap'[o] = IF o = p THEN "free" ELSE heap[o]
                              /\ outer'[o] = IF o = p THEN None ELSE outer[o]
        /\ \A u \in Threads : reap'[u] = IF u = t THEN outer[p] ELSE reap[u]
        /\ \A f \in Fields : data[<<p, f>>] = None
    BY <1>1, <1>2 DEF Deallocate, Shape
  <1>4. heap[p] = "dying"
    BY <1>2 DEF IInv, Reaping
  <1>5. gain[t] = None /\ clone[t] = None
    BY <1>2 DEF IInv, GainOwn, CloneOwn
  <1>6. \A o \in Objects : Holders(o)' = Holders(o) /\ Counted(o)' = Counted(o)
    BY <1>3, SameReferences
  <1>7. CountExact' /\ CountedIsLive'
    BY <1>3, <1>4, <1>6 DEF IInv, CountExact, CountedIsLive
  <1>8. FreeIsEmpty'
    BY <1>3 DEF IInv, FreeIsEmpty
  <1>9. Reaping'
    <2>1. ASSUME NEW u \in Threads, reap'[u] # None
          PROVE  heap'[reap'[u]] = "dying" /\ \A v \in Threads : reap'[v] = reap'[u] => v = u
      BY <1>1, <1>2, <1>3, <2>1 DEF IInv, Reaping, Shape
    <2>2. ASSUME NEW o \in Objects, outer'[o] # None
          PROVE  /\ heap'[o] = "dying" /\ heap'[outer'[o]] = "dying"
                 /\ \A q \in Objects : outer'[q] = outer'[o] => q = o
                 /\ \A u \in Threads : reap'[u] # outer'[o]
      BY <1>1, <1>2, <1>3, <2>2 DEF IInv, Reaping, Shape
    <2> QED
      BY <2>1, <2>2 DEF Reaping
  <1>10. ASSUME NEW u \in Threads PROVE Node(u)' = Node(u)
    BY <1>3 DEF Node
  <1>11. ASSUME NEW u \in Threads PROVE GainOwn(u)' /\ StaleOwn(u)' /\ WriteOwn(u)'
    <2>1. StaleOwn(u)' /\ WriteOwn(u)'
      BY <1>3 DEF IInv, StaleOwn, WriteOwn
    <2>2. CASE u = t
      BY <1>3, <1>5, <2>1, <2>2 DEF GainOwn
    <2>3. CASE u # t
      BY <1>1, <1>3, <1>10, <2>1, <2>3, GainOwnKept
    <2> QED
      BY <2>2, <2>3
  <1>12. ASSUME NEW u \in Threads PROVE CloneOwn(u)'
    <2>1. \A o \in Objects, x \in Handles \cup Threads : o = clone[u] => x \notin Holders(o)'
      BY <1>6 DEF IInv, CloneOwn
    <2>2. clone[u] # None => heap'[clone[u]] = heap[clone[u]] /\ u # t
      BY <1>1, <1>3, <1>4, <1>5 DEF IInv, CloneOwn, Shape
    <2> QED
      BY <1>1, <1>3, <2>1, <2>2, CloneOwnKept
  <1>13. ASSUME NEW u \in Threads PROVE Exclusive(u)'
    <2>1. write[u] # None /\ clone[u] = None =>
            \A o \in Objects : o = Node(u) => \A x \in Holders(o)' : x = write[u]
      BY <1>6 DEF IInv, Exclusive
    <2> QED
      BY <1>3, <1>10, <2>1, ExclusiveKept
  <1>14. ASSUME NEW u \in Threads PROVE Backed(u)'
    <2>1. Undisturbed(u)
      BY <1>3, <1>6 DEF Undisturbed
    <2> QED
      BY <1>1, <2>1, BackedKept
  <1> QED
    BY <1>1, <1>7, <1>8, <1>9, <1>11, <1>12, <1>13, <1>14 DEF IInv

\* MakeObject preserves the invariant (object.h:238-245).
LEMMA MakeInv ==
  ASSUME IInv, NEW t \in Threads, NEW h \in Locals, NEW n \in Objects,
         Make(t, h, n)
  PROVE  IInv'
  <1> USE DistinctAssumption
  <1>1. Shape /\ Shape'
    BY DEF IInv, Shape, Make, registers, Handles
  <1>2. /\ UNCHANGED <<owner, gain, drop, reap, outer, stale, write, clone, todo>>
        /\ \A o \in Objects : /\ heap'[o] = IF o = n THEN "live" ELSE heap[o]
                              /\ count'[o] = IF o = n THEN 1 ELSE count[o]
        /\ \A k \in Handles : data'[k] = IF k = h THEN n ELSE data[k]
        /\ gain[t] = None /\ clone[t] = None /\ Ready(t) /\ owner[h] = t
        /\ data[h] = None /\ heap[n] = "free" /\ n # None /\ h \in Handles /\ h # None
        /\ h \in Owned(t) /\ write[t] = None
    BY <1>1 DEF Make, registers, Ready, Shape, Owned, Handles
  <1>3. \A u \in Threads : gain[u] # h /\ stale[u] # h /\ write[u] # h
    <2>1. h \in Writable(t)
      BY <1>2 DEF Writable
    <2> QED
      BY <1>2, <2>1, WritableIsFree
  <1>4. \A x : x \notin Holders(n)
    BY <1>2, HeldIsLive
  <1>5. ASSUME NEW o \in Objects, NEW z
        PROVE  z \in Holders(o)' <=> z \in Holders(o) \/ (z = h /\ o = n)
    <2>1. z \in Handles => ((data'[z] = o /\ \A u \in Threads : stale'[u] # z)
                              <=> \/ data[z] = o /\ \A u \in Threads : stale[u] # z
                                  \/ z = h /\ o = n)
      BY <1>2, <1>3
    <2>2. z \in Threads => drop'[z] = drop[z]
      BY <1>2
    <2> QED
      BY <1>2, <2>1, <2>2 DEF Holders
  <1>6. ASSUME NEW o \in Objects, NEW z
        PROVE  z \in Counted(o)' <=> z \in Counted(o) \/ (z = h /\ o = n)
    BY <1>2, <1>3, <1>5, CountedDef DEF Counted
  <1>7. CountExact'
    <2> SUFFICES ASSUME NEW o \in Objects
                 PROVE  count'[o] = Cardinality(Counted(o)')
      BY DEF CountExact
    <2>1. CASE o = n
      <3>1. Counted(o)' = {h}
        BY <1>4, <1>6, <2>1, CountedDef
      <3>2. Cardinality({h}) = 1
        BY FS_Singleton
      <3>3. count'[o] = 1
        BY <1>2, <2>1
      <3> QED
        BY <3>1, <3>2, <3>3
    <2>2. CASE o # n
      <3>1. count'[o] = count[o]
        BY <1>2, <2>2
      <3>2. \A z : z \in Counted(o)' <=> z \in Counted(o)
        BY <1>6, <2>2
      <3> QED
        BY <3>1, <3>2, CountSame
    <2> QED
      BY <2>1, <2>2
  <1>8. CountedIsLive'
    BY <1>2, <1>6 DEF IInv, CountedIsLive
  <1>9. FreeIsEmpty' /\ Reaping'
    BY <1>1, <1>2 DEF IInv, FreeIsEmpty, Reaping, Shape, Handles
  <1>10. ASSUME NEW u \in Threads PROVE Node(u)' = Node(u)
    BY <1>1, <1>2, <1>3 DEF Node, Shape, Handles
  <1>11. \A u \in Threads : gain[u] # None => data'[gain[u]] = data[gain[u]]
    BY <1>1, <1>2, <1>3 DEF Shape
  <1>12. ASSUME NEW u \in Threads PROVE GainOwn(u)' /\ StaleOwn(u)' /\ WriteOwn(u)'
    <2>1. StaleOwn(u)' /\ WriteOwn(u)'
      BY <1>1, <1>2, <1>3 DEF IInv, StaleOwn, WriteOwn, Shape, Handles
    <2> QED
      BY <1>1, <1>2, <1>10, <1>11, <2>1, GainOwnKept
  <1>13. \A u \in Threads : clone[u] # n
    BY <1>2 DEF IInv, CloneOwn
  <1>14. ASSUME NEW u \in Threads PROVE CloneOwn(u)'
    <2>1. \A o \in Objects, x \in Handles \cup Threads : o = clone[u] => x \notin Holders(o)'
      BY <1>5, <1>13 DEF IInv, CloneOwn
    <2>2. clone[u] # None =>
            /\ heap'[clone[u]] = heap[clone[u]]
            /\ \A f \in todo[u] : data'[<<clone[u], f>>] = data[<<clone[u], f>>]
      BY <1>1, <1>2, <1>13 DEF Shape, Handles
    <2> QED
      BY <1>1, <1>2, <2>1, <2>2, CloneOwnKept
  <1>15. ASSUME NEW u \in Threads PROVE Exclusive(u)'
    <2>1. write[u] # None => Node(u) # n
      BY <1>4, WriteHandleCounts
    <2>2. write[u] # None /\ clone[u] = None =>
            \A o \in Objects : o = Node(u) => \A x \in Holders(o)' : x = write[u]
      BY <1>5, <2>1 DEF IInv, Exclusive
    <2> QED
      BY <1>2, <1>10, <2>2, ExclusiveKept
  <1>16. ASSUME NEW u \in Threads PROVE Backed(u)'
    <2>1. Undisturbed(u)
      <3>1. \A o \in Objects : \A z : z \in Counted(o) => z \in Counted(o)'
        BY <1>6
      <3>2. owner' = owner /\ gain' = gain /\ drop' = drop
        BY <1>2
      <3> QED
        BY <1>11, <3>1, <3>2 DEF Undisturbed
    <2> QED
      BY <1>1, <2>1, BackedKept
  <1> QED
    BY <1>1, <1>7, <1>8, <1>9, <1>12, <1>14, <1>15, <1>16 DEF IInv

\* No two threads have the same handle to count.
LEMMA GainsApart ==
  ASSUME IInv, NEW t \in Threads, NEW u \in Threads, gain[t] # None,
         gain[u] = gain[t]
  PROVE  u = t
  <1> USE DistinctAssumption
  <1> SUFFICES ASSUME u # t PROVE FALSE
    OBVIOUS
  <1>1. PICK g \in Handles : g = gain[t] /\ g = gain[u]
    BY DEF IInv, Shape
  <1>2. CASE g \in Locals
    BY <1>1, <1>2 DEF IInv, GainOwn
  <1>3. CASE g \in Objects \X Fields
    <2>1. g \notin Locals /\ g[1] # None
      BY <1>3
    <2>2. g[1] = clone[t] \/ (g[1] = Node(t) /\ clone[t] = None /\ write[t] # None)
      BY <1>1, <2>1 DEF IInv, GainOwn, Node
    <2>3. g[1] = clone[u] \/ (g[1] = Node(u) /\ clone[u] = None /\ write[u] # None)
      BY <1>1, <2>1 DEF IInv, GainOwn, Node
    <2>4. ~ (g[1] = clone[t] /\ g[1] = clone[u])
      BY <2>1 DEF IInv, CloneOwn
    <2> QED
      BY <2>2, <2>3, <2>4, NodesApart
  <1> QED
    BY <1>1, <1>2, <1>3 DEF Handles

\* IncCounter preserves the invariant: its source kept the object alive until
\* then (object.h:48).
LEMMA IncCounterInv ==
  ASSUME IInv, NEW t \in Threads, IncCounter(t)
  PROVE  IInv'
  <1> USE DistinctAssumption
  <1>1. Shape
    BY DEF IInv
  <1>2. PICK g \in Handles : g = gain[t] /\ g # None /\ g \notin Threads
    BY <1>1 DEF IncCounter, Shape
  <1>3. PICK n \in Objects : n = data[g] /\ n # None
    BY <1>1, <1>2 DEF IInv, GainOwn, Shape
  <1>4. /\ UNCHANGED <<heap, data, owner, drop, reap, outer, stale, write, clone, todo>>
        /\ \A o \in Objects : count'[o] = IF o = n THEN count[n] + 1 ELSE count[o]
        /\ \A u \in Threads : gain'[u] = IF u = t THEN None ELSE gain[u]
    BY <1>1, <1>2, <1>3 DEF IncCounter, Shape
  <1>5. Shape'
    BY <1>1, <1>2, <1>3 DEF IncCounter, Shape
  <1>6. \A u \in Threads : gain[u] = g => u = t
    BY <1>2, GainsApart
  <1>7. \A u \in Threads : stale[u] # g
    <2> SUFFICES ASSUME NEW u \in Threads, stale[u] = g PROVE FALSE
      OBVIOUS
    <2>1. g \in Locals /\ owner[g] = u /\ clone[u] = None
      BY <1>1, <1>2 DEF IInv, StaleOwn, Shape
    <2>2. owner[g] = t /\ stale[t] = None
      BY <1>2, <2>1 DEF IInv, GainOwn
    <2> QED
      BY <1>2, <2>1, <2>2
  <1>8. \A o : Holders(o)' = Holders(o)
    BY <1>4 DEF Holders
  <1>9. \A o \in Objects : g \in Holders(o) <=> o = n
    BY <1>2, <1>3, <1>7, HoldersDef
  <1>10. ASSUME NEW o \in Objects, NEW z
         PROVE  z \in Counted(o)' <=> z \in Counted(o) \/ (z = g /\ o = n)
    <2>1. z \in Holders(o) => z # None
      BY HoldersDef
    <2>2. z \in Counted(o)' <=> z \in Holders(o)' /\ \A u \in Threads : gain'[u] # z
      BY DEF Counted
    <2>3. CASE z = g
      <3>1. (\A u \in Threads : gain'[u] # z) /\ z \notin Counted(o)
        BY <1>2, <1>4, <1>6, <2>3, CountedDef
      <3> QED
        BY <1>8, <1>9, <2>2, <2>3, <3>1
    <2>4. CASE z # g
      <3>1. z # None => ((\A u \in Threads : gain'[u] # z) <=> \A u \in Threads : gain[u] # z)
        BY <1>2, <1>4, <2>4
      <3> QED
        BY <1>8, <2>1, <2>2, <2>4, <3>1, CountedDef
    <2> QED
      BY <2>3, <2>4
  <1>11. \A o \in Objects : g \notin Counted(o)
    BY <1>2, CountedDef
  <1>12. CountExact'
    <2> SUFFICES ASSUME NEW o \in Objects
                 PROVE  count'[o] = Cardinality(Counted(o)')
      BY DEF CountExact
    <2>1. CASE o = n
      <3>1. Counted(o)' = Counted(n) \cup {g}
        BY <1>10, <2>1
      <3>2. Cardinality(Counted(n) \cup {g}) = Cardinality(Counted(n)) + 1
        BY <1>11, CountedFinite, FS_AddElement
      <3>3. count'[o] = Cardinality(Counted(n)) + 1
        BY <1>4, <2>1 DEF IInv, CountExact
      <3> QED
        BY <3>1, <3>2, <3>3
    <2>2. CASE o # n
      <3>1. count'[o] = count[o]
        BY <1>4, <2>2
      <3>2. \A z : z \in Counted(o)' <=> z \in Counted(o)
        BY <1>10, <2>2
      <3> QED
        BY <3>1, <3>2, CountSame
    <2> QED
      BY <2>1, <2>2
  <1>13. CountedIsLive'
    <2>1. heap[n] = "live"
      BY <1>9, HeldIsLive
    <2> QED
      BY <1>4, <1>10, <2>1 DEF IInv, CountedIsLive
  <1>14. FreeIsEmpty' /\ Reaping'
    BY <1>4 DEF IInv, FreeIsEmpty, Reaping
  <1>15. ASSUME NEW u \in Threads PROVE Node(u)' = Node(u)
    BY <1>4 DEF Node
  <1>16. ASSUME NEW u \in Threads PROVE GainOwn(u)' /\ StaleOwn(u)' /\ WriteOwn(u)'
    <2>1. StaleOwn(u)' /\ WriteOwn(u)'
      BY <1>4 DEF IInv, StaleOwn, WriteOwn
    <2>2. CASE u = t
      BY <1>4, <2>1, <2>2 DEF GainOwn
    <2>3. CASE u # t
      BY <1>4, <1>5, <1>15, <2>1, <2>3, GainOwnKept
    <2> QED
      BY <2>2, <2>3
  <1>17. ASSUME NEW u \in Threads PROVE CloneOwn(u)'
    <2>1. \A o \in Objects, x \in Handles \cup Threads : o = clone[u] => x \notin Holders(o)'
      BY <1>8 DEF IInv, CloneOwn
    <2> QED
      BY <1>4, <1>5, <2>1, CloneOwnKept
  <1>18. ASSUME NEW u \in Threads PROVE Exclusive(u)'
    <2>1. write[u] # None /\ clone[u] = None =>
            \A o \in Objects : o = Node(u) => \A x \in Holders(o)' : x = write[u]
      BY <1>8 DEF IInv, Exclusive
    <2> QED
      BY <1>4, <1>15, <2>1, ExclusiveKept
  <1>19. ASSUME NEW u \in Threads PROVE Backed(u)'
    <2>1. CASE u = t
      BY <1>4, <2>1 DEF Backed
    <2>2. CASE u # t
      <3>1. Undisturbed(u)
        <4>1. \A o \in Objects : \A z : z \in Counted(o) => z \in Counted(o)'
          BY <1>10
        <4>2. owner' = owner /\ gain'[u] = gain[u] /\ drop' = drop /\ data' = data
          BY <1>4, <2>2
        <4> QED
          BY <4>1, <4>2 DEF Undisturbed
      <3> QED
        BY <1>5, <3>1, BackedKept
    <2> QED
      BY <2>1, <2>2
  <1> QED
    BY <1>5, <1>12, <1>13, <1>14, <1>16, <1>17, <1>18, <1>19 DEF IInv

\* The member CopyOnWrite copies next is counted, and no register holds it.
LEMMA CloneSource ==
  ASSUME IInv, NEW t \in Threads, NEW f \in Fields, NEW n \in Objects, n = Node(t),
         write[t] # None, gain[t] = None, data[<<n, f>>] # None
  PROVE  <<n, f>> \in Counted(data[<<n, f>>]) /\ <<n, f>> \in Holders(data[<<n, f>>])
  <1> USE DistinctAssumption
  <1>1. PICK s : s = <<n, f>>
    OBVIOUS
  <1>2. s \in Handles /\ s \in Objects \X Fields /\ s \notin Locals /\ s[1] = n /\ n # None
    BY <1>1 DEF Handles
  <1>3. ASSUME NEW u \in Threads PROVE gain[u] # s /\ stale[u] # s
    <2>1. stale[u] # s
      BY <1>2 DEF IInv, Shape
    <2>2. u # t => clone[u] # n
      BY NodesApart
    <2>3. u # t /\ clone[u] = None => Node(u) # n
      <3>1. write[u] = None => Node(u) = None
        BY DEF Node
      <3> QED
        BY <1>2, <3>1, NodesApart
    <2> QED
      BY <1>2, <2>1, <2>2, <2>3 DEF IInv, GainOwn
  <1> QED
    BY <1>1, <1>2, <1>3, HoldersDef, CountedDef

\* Copying a member into the clone preserves the invariant (object.h:84-93).
LEMMA CloneFieldInv ==
  ASSUME IInv, NEW t \in Threads, NEW f \in Fields, CloneField(t, f)
  PROVE  IInv'
  <1> USE DistinctAssumption
  <1>1. Shape
    BY DEF IInv
  <1>2. /\ gain[t] = None /\ f \in todo[t] /\ clone[t] # None
        /\ write[t] # None /\ drop[t] = None /\ reap[t] = None
    BY DEF CloneField, IInv, CloneOwn
  <1>3. PICK c \in Objects, n \in Objects, w \in Locals :
           /\ c = clone[t] /\ n = Node(t) /\ w = write[t] /\ c # None
           /\ w \in Counted(n) /\ w \in Holders(n) /\ owner[w] = t /\ w \in Handles
    BY <1>1, <1>2, WriteHandleCounts DEF Shape, Handles
  <1>4. PICK new, k : new = data[<<n, f>>] /\ k = <<c, f>>
    OBVIOUS
  <1>5. /\ k \in Handles /\ k \in Objects \X Fields /\ k \notin Locals /\ k[1] = c
        /\ k # None /\ k \notin Threads /\ new \in Objects \cup {None}
        /\ <<n, f>> \in Handles
    BY <1>1, <1>4 DEF Handles, Shape
  <1>6. new # None => <<n, f>> \in Counted(new) /\ <<n, f>> \in Holders(new)
    BY <1>2, <1>3, <1>4, CloneSource
  <1>7. /\ UNCHANGED <<heap, count, owner, drop, reap, outer, stale, write, clone>>
        /\ \A j \in Handles : data'[j] = IF j = k THEN new ELSE data[j]
        /\ \A u \in Threads : gain'[u] = IF u = t /\ new # None THEN k ELSE gain[u]
        /\ \A u \in Threads : todo'[u] = IF u = t THEN todo[t] \ {f} ELSE todo[u]
    <2>1. data' = [data EXCEPT ![k] = new]
      BY <1>3, <1>4 DEF CloneField
    <2>2. gain' = [gain EXCEPT ![t] = IF new = None THEN None ELSE k]
      BY <1>3, <1>4 DEF CloneField
    <2>3. \A j \in Handles : data'[j] = IF j = k THEN new ELSE data[j]
      BY <1>1, <1>5, <2>1 DEF Shape
    <2>4. \A u \in Threads : gain'[u] = IF u = t /\ new # None THEN k ELSE gain[u]
      BY <1>1, <1>2, <1>5, <2>2 DEF Shape
    <2>5. \A u \in Threads : todo'[u] = IF u = t THEN todo[t] \ {f} ELSE todo[u]
      BY <1>1 DEF CloneField, Shape
    <2> QED
      BY <2>3, <2>4, <2>5 DEF CloneField
  <1>8. Shape'
    <2>1. data' = [data EXCEPT ![k] = new]
      BY <1>3, <1>4 DEF CloneField
    <2>2. gain' = [gain EXCEPT ![t] = IF new = None THEN None ELSE k]
      BY <1>3, <1>4 DEF CloneField
    <2>3. data' \in [Handles -> Objects \cup {None}]
      BY <1>1, <1>5, <2>1 DEF Shape
    <2>4. gain' \in [Threads -> Handles \cup {None}]
      BY <1>1, <1>5, <2>2 DEF Shape
    <2>5. todo' \in [Threads -> SUBSET Fields]
      BY <1>1 DEF CloneField, Shape
    <2> QED
      BY <1>1, <1>7, <2>3, <2>4, <2>5 DEF Shape
  <1>9. /\ data[k] = None /\ heap[c] = "live"
        /\ \A x : x \notin Holders(c)
        /\ \A u \in Threads : clone[u] = c => u = t
    <2>1. CloneOwn(t)
      BY DEF IInv
    <2> QED
      BY <1>2, <1>3, <1>4, <2>1, HoldersDef DEF CloneOwn
  <1>10. \A u \in Threads : stale[u] # k /\ write[u] # k
    BY <1>1, <1>5 DEF Shape
  <1>11. ASSUME NEW o \in Objects, NEW z
         PROVE  z \in Holders(o)' <=> z \in Holders(o) \/ (z = k /\ o = new)
    BY <1>5, <1>7, <1>9, <1>10 DEF Holders
  <1>12. ASSUME NEW u \in Threads PROVE gain[u] # k
    <2>1. write[u] # None => Node(u) # c
      BY <1>9, WriteHandleCounts
    <2>2. Node(u) # c
      BY <1>3, <2>1 DEF Node
    <2> QED
      BY <1>2, <1>5, <1>9, <2>2 DEF IInv, GainOwn
  <1>13. ASSUME NEW o \in Objects, NEW z
         PROVE  z \in Counted(o)' <=> z \in Counted(o)
    <2>1. z \in Counted(o)' <=> z \in Holders(o)' /\ \A u \in Threads : gain'[u] # z
      BY DEF Counted
    <2>2. CASE z = k
      <3>1. k \notin Holders(o)
        BY <1>5, <1>9, HoldersDef
      <3>2. o = new => gain'[t] = k
        BY <1>5, <1>7
      <3> QED
        BY <1>11, <2>1, <2>2, <3>1, <3>2, CountedDef
    <2>3. CASE z # k
      <3>1. z # None => ((\A u \in Threads : gain'[u] # z) <=> \A u \in Threads : gain[u] # z)
        BY <1>2, <1>7, <2>3
      <3>2. z \in Holders(o) => z # None
        BY HoldersDef
      <3> QED
        BY <1>11, <2>1, <2>3, <3>1, <3>2, CountedDef
    <2> QED
      BY <2>2, <2>3
  <1>14. CountExact'
    <2> SUFFICES ASSUME NEW o \in Objects
                 PROVE  count'[o] = Cardinality(Counted(o)')
      BY DEF CountExact
    <2>1. count'[o] = count[o]
      BY <1>7
    <2>2. \A z : z \in Counted(o)' <=> z \in Counted(o)
      BY <1>13
    <2> QED
      BY <2>1, <2>2, CountSame
  <1>15. CountedIsLive'
    BY <1>7, <1>13 DEF IInv, CountedIsLive
  <1>16. FreeIsEmpty' /\ Reaping'
    <2>1. Reaping'
      BY <1>7 DEF IInv, Reaping
    <2>2. FreeIsEmpty'
      BY <1>4, <1>7, <1>9 DEF IInv, FreeIsEmpty, Handles
    <2> QED
      BY <2>1, <2>2
  <1>17. ASSUME NEW u \in Threads PROVE Node(u)' = Node(u)
    BY <1>1, <1>7, <1>10 DEF Node, Shape, Handles
  <1>18. \A u \in Threads : gain[u] # None => data'[gain[u]] = data[gain[u]]
    BY <1>1, <1>7, <1>12 DEF Shape
  <1>19. ASSUME NEW u \in Threads PROVE StaleOwn(u)' /\ WriteOwn(u)'
    BY <1>1, <1>7, <1>10 DEF IInv, StaleOwn, WriteOwn, Shape, Handles
  <1>20. ASSUME NEW u \in Threads PROVE GainOwn(u)'
    <2>1. CASE u = t
      <3>1. CASE new = None
        BY <1>2, <1>7, <2>1, <3>1 DEF GainOwn
      <3>2. CASE new # None
        <4>1. gain'[t] = k /\ data'[k] = new /\ k[1] = clone'[t]
          BY <1>3, <1>5, <1>7, <3>2
        <4>2. reap'[t] = None /\ stale'[t] = None
          BY <1>2, <1>7 DEF IInv, StaleOwn
        <4> QED
          BY <1>5, <2>1, <3>2, <4>1, <4>2 DEF GainOwn
      <3> QED
        BY <3>1, <3>2
    <2>2. CASE u # t
      BY <1>7, <1>8, <1>17, <1>18, <2>2, GainOwnKept
    <2> QED
      BY <2>1, <2>2
  <1>21. ASSUME NEW u \in Threads PROVE CloneOwn(u)'
    <2>1. \A o \in Objects, x \in Handles \cup Threads : o = clone[u] => x \notin Holders(o)'
      <3>1. new # None => clone[u] # new
        BY <1>5, <1>6 DEF IInv, CloneOwn
      <3> QED
        BY <1>11, <3>1 DEF IInv, CloneOwn
    <2>2. clone[u] # None => \A g \in todo'[u] : data'[<<clone[u], g>>] = data[<<clone[u], g>>]
      <3>1. CASE u = t
        <4>1. \A g \in todo'[t] : <<clone[t], g>> # k /\ <<clone[t], g>> \in Handles
          BY <1>1, <1>3, <1>4, <1>7 DEF Handles, Shape
        <4> QED
          BY <1>7, <3>1, <4>1
      <3>2. CASE u # t
        <4>1. \A g \in todo'[u] : clone[u] # None => <<clone[u], g>> # k /\ <<clone[u], g>> \in Handles
          BY <1>1, <1>3, <1>4, <1>7, <1>9, <3>2 DEF Handles, Shape
        <4> QED
          BY <1>7, <4>1
      <3> QED
        BY <3>1, <3>2
    <2>3. todo'[u] \subseteq todo[u]
      BY <1>7
    <2> QED
      BY <1>7, <1>8, <2>1, <2>2, <2>3, CloneOwnKept
  <1>22. ASSUME NEW u \in Threads PROVE Exclusive(u)'
    <2>1. ASSUME write[u] # None, clone[u] = None PROVE Node(u) # new
      <3>1. write[u] \in Locals /\ \A x \in Holders(Node(u)) : x = write[u]
        BY <2>1, WriteHandleCounts DEF IInv, Exclusive
      <3>2. <<n, f>> \notin Locals /\ Node(u) # None
        BY <1>3, <2>1, WriteHandleCounts
      <3> QED
        BY <1>6, <3>1, <3>2
    <2>2. write[u] # None /\ clone[u] = None =>
            \A o \in Objects : o = Node(u) => \A x \in Holders(o)' : x = write[u]
      BY <1>11, <2>1 DEF IInv, Exclusive
    <2> QED
      BY <1>7, <1>17, <2>2, ExclusiveKept
  <1>23. ASSUME NEW u \in Threads PROVE Backed(u)'
    <2>1. CASE u # t
      <3>1. \A o \in Objects : \A z : z \in Counted(o) => z \in Counted(o)'
        BY <1>13
      <3>2. owner' = owner /\ gain'[u] = gain[u] /\ drop' = drop
        BY <1>7, <2>1
      <3>3. Undisturbed(u)
        BY <1>18, <3>1, <3>2 DEF Undisturbed
      <3> QED
        BY <1>8, <3>3, BackedKept
    <2>2. CASE u = t
      <3> SUFFICES ASSUME new # None PROVE Backed(t)'
        BY <1>2, <1>7, <2>2 DEF Backed
      <3>1. gain'[t] = k /\ data'[k] = new /\ new \in Objects
        BY <1>5, <1>7
      <3>2. PICK s \in Handles : s = <<n, f>> /\ s[1] = n /\ s \in Objects \X Fields
        BY <1>5
      <3>3. s \in Counted(new)' /\ w \in Counted(n)' /\ owner'[w] = t
        BY <1>3, <1>6, <1>7, <1>13, <3>1, <3>2
      <3>4. Keeps(t, s)' <=> \/ s \in Locals /\ owner'[s] = t
                             \/ /\ s \in Objects \X Fields
                                /\ drop'[t] = n \/ \E j \in Locals : owner'[j] = t /\ j \in Counted(n)'
        BY <3>2 DEF Keeps
      <3>5. Backed(t)' <=> (gain'[t] # None => \E j \in Handles : j \in Counted(new)' /\ Keeps(t, j)')
        BY <3>1 DEF Backed
      <3> QED
        BY <3>2, <3>3, <3>4, <3>5
    <2> QED
      BY <2>1, <2>2
  <1> QED
    BY <1>8, <1>14, <1>15, <1>16, <1>19, <1>20, <1>21, <1>22, <1>23 DEF IInv

\* Storing the finished clone preserves the invariant (object.h:251-253).
LEMMA CloneDoneInv ==
  ASSUME IInv, NEW t \in Threads, CloneDone(t)
  PROVE  IInv'
  <1> USE DistinctAssumption
  <1>1. Shape
    BY DEF IInv
  <1>2. /\ gain[t] = None /\ clone[t] # None
        /\ write[t] # None /\ drop[t] = None /\ reap[t] = None
    BY DEF CloneDone, IInv, CloneOwn
  <1>3. PICK c \in Objects, n \in Objects, w \in Locals :
           /\ c = clone[t] /\ n = Node(t) /\ w = write[t] /\ c # None /\ n = data[w]
           /\ w \in Counted(n) /\ w \in Holders(n) /\ owner[w] = t /\ w \in Handles
    BY <1>1, <1>2, WriteHandleCounts DEF Shape, Handles, Node
  <1>4. /\ UNCHANGED <<heap, owner, gain, reap, outer, stale, write, todo>>
        /\ count' = [count EXCEPT ![c] = 1]
        /\ data' = [data EXCEPT ![w] = c]
        /\ drop' = [drop EXCEPT ![t] = n]
        /\ clone' = [clone EXCEPT ![t] = None]
    BY <1>3 DEF CloneDone
  <1>5. Shape'
    BY <1>1, <1>3, <1>4 DEF Shape
  <1>6. /\ \A j \in Handles : data'[j] = IF j = w THEN c ELSE data[j]
        /\ \A u \in Threads : drop'[u] = IF u = t THEN n ELSE drop[u]
        /\ \A u \in Threads : clone'[u] = IF u = t THEN None ELSE clone[u]
        /\ \A o \in Objects : count'[o] = IF o = c THEN 1 ELSE count[o]
    BY <1>1, <1>3, <1>4 DEF Shape
  <1>7. /\ heap[c] = "live"
        /\ \A x : x \notin Holders(c)
        /\ \A u \in Threads : clone[u] = c => u = t
    <2>1. CloneOwn(t)
      BY DEF IInv
    <2> QED
      BY <1>2, <1>3, <2>1, HoldersDef DEF CloneOwn
  <1>8. /\ \A u \in Threads : stale[u] # w /\ gain[u] # w /\ (write[u] = w => u = t)
        /\ n # c /\ w # t /\ w \notin Threads /\ w # None
    BY <1>1, <1>3, <1>7 DEF IInv, StaleOwn, GainOwn, WriteOwn, Shape
  <1>9. ASSUME NEW o \in Objects, NEW z
        PROVE  z \in Holders(o)' <=> \/ z \in Holders(o) /\ z # w
                                     \/ z = w /\ o = c
                                     \/ z = t /\ o = n
    <2>1. z \in Handles => ((data'[z] = o /\ \A u \in Threads : stale'[u] # z)
                              <=> \/ data[z] = o /\ z # w /\ \A u \in Threads : stale[u] # z
                                  \/ z = w /\ o = c)
      BY <1>4, <1>6, <1>8
    <2>2. z \in Threads => (drop'[z] = o <=> \/ drop[z] = o
                                             \/ z = t /\ o = n)
      BY <1>2, <1>6
    <2> QED
      BY <1>3, <1>8, <2>1, <2>2 DEF Holders
  <1>10. ASSUME NEW o \in Objects, NEW z
         PROVE  z \in Counted(o)' <=> \/ z \in Counted(o) /\ z # w
                                      \/ z = w /\ o = c
                                      \/ z = t /\ o = n
    <2>1. z \in Counted(o)' <=> z \in Holders(o)' /\ \A u \in Threads : gain[u] # z
      BY <1>4 DEF Counted
    <2>2. \A u \in Threads : gain[u] # t
      BY <1>1 DEF Shape
    <2> QED
      BY <1>8, <1>9, <2>1, <2>2, CountedDef
  <1>11. \A o \in Objects : t \notin Counted(o) /\ (w \in Counted(o) <=> o = n) /\ (w \in Holders(o) <=> o = n)
    BY <1>2, <1>3, <1>8, HoldersDef, CountedDef
  <1>12. CountExact'
    <2> SUFFICES ASSUME NEW o \in Objects
                 PROVE  count'[o] = Cardinality(Counted(o)')
      BY DEF CountExact
    <2>1. CASE o = c
      <3>1. Counted(o)' = {w}
        BY <1>7, <1>8, <1>10, <2>1, CountedDef
      <3>2. Cardinality({w}) = 1
        BY FS_Singleton
      <3>3. count'[o] = 1
        BY <1>6, <2>1
      <3> QED
        BY <3>1, <3>2, <3>3
    <2>2. CASE o = n
      <3>1. count'[o] = count[o]
        BY <1>6, <1>8, <2>2
      <3>2. \A z : z \in Counted(o)' <=> (z \in Counted(o) /\ z # w) \/ z = t
        BY <1>8, <1>10, <2>2
      <3>3. w \in Counted(o) /\ t \notin Counted(o)
        BY <1>11, <2>2
      <3> QED
        BY <3>1, <3>2, <3>3, CountTrade
    <2>3. CASE o # c /\ o # n
      <3>1. count'[o] = count[o]
        BY <1>6, <2>3
      <3>2. \A z : z \in Counted(o)' <=> z \in Counted(o)
        BY <1>10, <1>11, <2>3
      <3> QED
        BY <3>1, <3>2, CountSame
    <2> QED
      BY <2>1, <2>2, <2>3
  <1>13. CountedIsLive'
    BY <1>3, <1>4, <1>7, <1>10 DEF IInv, CountedIsLive
  <1>14. FreeIsEmpty' /\ Reaping'
    BY <1>4, <1>6 DEF IInv, FreeIsEmpty, Reaping, Handles
  <1>15. /\ Node(t)' = c
         /\ \A u \in Threads : u # t => Node(u)' = Node(u)
    <2>1. Node(t)' = c
      BY <1>2, <1>3, <1>4, <1>6 DEF Node
    <2>2. ASSUME NEW u \in Threads, u # t PROVE Node(u)' = Node(u)
      BY <1>1, <1>4, <1>6, <1>8, <2>2 DEF Node, Shape, Handles
    <2> QED
      BY <2>1, <2>2
  <1>16. \A u \in Threads : gain[u] # None => data'[gain[u]] = data[gain[u]]
    BY <1>1, <1>6, <1>8 DEF Shape
  <1>17. ASSUME NEW u \in Threads PROVE GainOwn(u)' /\ StaleOwn(u)' /\ WriteOwn(u)'
    <2>1. WriteOwn(u)'
      BY <1>1, <1>3, <1>4, <1>6 DEF IInv, WriteOwn, Shape, Handles
    <2>2. StaleOwn(u)'
      BY <1>4, <1>6 DEF IInv, StaleOwn
    <2>3. CASE u = t
      BY <1>2, <1>4, <2>1, <2>2, <2>3 DEF GainOwn
    <2>4. CASE u # t
      BY <1>4, <1>5, <1>6, <1>15, <1>16, <2>1, <2>2, <2>4, GainOwnKept
    <2> QED
      BY <2>3, <2>4
  <1>18. ASSUME NEW u \in Threads PROVE CloneOwn(u)'
    <2>1. CASE u = t
      BY <1>6, <2>1 DEF CloneOwn
    <2>2. CASE u # t
      <3>1. clone[u] # c /\ clone[u] # n
        BY <1>3, <1>7, <2>2 DEF IInv, CloneOwn
      <3>2. \A o \in Objects, x \in Handles \cup Threads : o = clone[u] => x \notin Holders(o)'
        BY <1>9, <3>1 DEF IInv, CloneOwn
      <3>3. clone[u] # None => \A f \in todo'[u] : data'[<<clone[u], f>>] = data[<<clone[u], f>>]
        BY <1>1, <1>3, <1>4, <1>6 DEF Shape, Handles
      <3> QED
        BY <1>4, <1>5, <1>6, <2>2, <3>2, <3>3, CloneOwnKept
    <2> QED
      BY <2>1, <2>2
  <1>19. ASSUME NEW u \in Threads PROVE Exclusive(u)'
    <2>1. CASE u = t
      <3>1. \A x \in Holders(c)' : x = w
        BY <1>7, <1>8, <1>9
      <3>2. \A x : x \in Holders(Node(t))' => x \in Holders(c)'
        BY <1>15 DEF Holders
      <3> QED
        BY <1>3, <1>4, <2>1, <3>1, <3>2 DEF Exclusive
    <2>2. CASE u # t
      <3>1. ASSUME write[u] # None, clone[u] = None PROVE Node(u) # c /\ Node(u) # n
        <4>1. write[u] \in Holders(Node(u)) /\ \A x \in Holders(Node(u)) : x = write[u]
          BY <3>1, WriteHandleCounts DEF IInv, Exclusive
        <4> QED
          BY <1>3, <1>7, <1>8, <2>2, <4>1
      <3>2. write[u] # None /\ clone[u] = None =>
              \A o \in Objects : o = Node(u) => \A x \in Holders(o)' : x = write[u]
        BY <1>9, <3>1 DEF IInv, Exclusive
      <3>3. write'[u] = write[u] /\ clone'[u] = clone[u] /\ Node(u)' = Node(u)
        BY <1>4, <1>6, <1>15, <2>2
      <3> QED
        BY <3>2, <3>3, ExclusiveKept
    <2> QED
      BY <2>1, <2>2
  <1>20. ASSUME NEW u \in Threads PROVE Backed(u)'
    <2>1. CASE u = t
      BY <1>2, <1>4, <2>1 DEF Backed
    <2>2. CASE u # t
      <3>1. \A o \in Objects : \A z : z \in Counted(o) /\ z # w => z \in Counted(o)'
        BY <1>10
      <3>2. owner' = owner /\ gain'[u] = gain[u] /\ drop'[u] = drop[u]
        BY <1>4, <1>6, <2>2
      <3>3. \A l \in Locals : owner[l] = u => l # w
        BY <1>3, <2>2
      <3>4. \A p \in Objects, f \in Fields : <<p, f>> # w
        OBVIOUS
      <3>5. Undisturbed(u)
        BY <1>16, <3>1, <3>2, <3>3, <3>4 DEF Undisturbed
      <3> QED
        BY <1>5, <3>5, BackedKept
    <2> QED
      BY <2>1, <2>2
  <1> QED
    BY <1>5, <1>12, <1>13, <1>14, <1>17, <1>18, <1>19, <1>20 DEF IInv

(***************************************************************************)
(* The invariant, and what follows from it.                                *)
(***************************************************************************)

\* The invariant holds initially.
LEMMA InitInv == Init => IInv
  <1> USE DistinctAssumption
  <1> SUFFICES ASSUME Init PROVE IInv
    OBVIOUS
  <1>1. Shape
    BY DEF Init, Shape
  <1>2. \A o \in Objects : \A x : x \notin Holders(o) /\ x \notin Counted(o)
    BY DEF Init, Holders, Counted
  <1>3. CountExact
    <2> SUFFICES ASSUME NEW o \in Objects PROVE count[o] = Cardinality(Counted(o))
      BY DEF CountExact
    <2>1. Counted(o) = {}
      BY <1>2
    <2> QED
      BY <2>1, FS_EmptySet DEF Init
  <1>4. CountedIsLive /\ FreeIsEmpty /\ Reaping
    BY <1>2 DEF Init, CountedIsLive, FreeIsEmpty, Reaping, Handles
  <1>5. ASSUME NEW t \in Threads
        PROVE  GainOwn(t) /\ StaleOwn(t) /\ WriteOwn(t) /\ CloneOwn(t) /\ Exclusive(t) /\ Backed(t)
    BY DEF Init, GainOwn, StaleOwn, WriteOwn, CloneOwn, Exclusive, Backed
  <1> QED
    BY <1>1, <1>3, <1>4, <1>5 DEF IInv

\* Every step preserves the invariant.
LEMMA NextInv == IInv /\ [Next]_vars => IInv'
  <1> SUFFICES ASSUME IInv, [Next]_vars PROVE IInv'
    OBVIOUS
  <1>1. CASE UNCHANGED vars
    <2>1. UNCHANGED <<heap, count, data, owner, gain, drop, reap, outer, stale, write, clone, todo>>
      BY <1>1 DEF vars, registers
    <2>2. Shape' /\ FreeIsEmpty' /\ Reaping'
      BY <2>1 DEF IInv, Shape, FreeIsEmpty, Reaping
    <2>3. \A o \in Objects : Holders(o)' = Holders(o) /\ Counted(o)' = Counted(o)
      BY <2>1, SameReferences
    <2>4. CountExact' /\ CountedIsLive'
      BY <2>1, <2>3 DEF IInv, CountExact, CountedIsLive
    <2>5. ASSUME NEW u \in Threads
          PROVE  GainOwn(u)' /\ StaleOwn(u)' /\ WriteOwn(u)' /\ CloneOwn(u)' /\ Exclusive(u)' /\ Backed(u)'
      <3>1. Node(u)' = Node(u)
        BY <2>1 DEF Node
      <3>2. GainOwn(u)'
        BY <2>1, <2>2, <3>1, GainOwnKept
      <3>3. StaleOwn(u)' /\ WriteOwn(u)'
        BY <2>1 DEF IInv, StaleOwn, WriteOwn
      <3>4. CloneOwn(u)'
        <4>1. \A o \in Objects, x \in Handles \cup Threads : o = clone[u] => x \notin Holders(o)'
          BY <2>3, DistinctAssumption DEF IInv, CloneOwn
        <4> QED
          BY <2>1, <2>2, <4>1, CloneOwnKept
      <3>5. Exclusive(u)'
        <4>1. write[u] # None /\ clone[u] = None =>
                \A o \in Objects : o = Node(u) => \A x \in Holders(o)' : x = write[u]
          BY <2>3 DEF IInv, Exclusive
        <4> QED
          BY <2>1, <3>1, <4>1, ExclusiveKept
      <3>6. Backed(u)'
        <4>1. Undisturbed(u)
          BY <2>1, <2>3 DEF Undisturbed
        <4> QED
          BY <2>2, <4>1, BackedKept
      <3> QED
        BY <3>2, <3>3, <3>4, <3>5, <3>6
    <2> QED
      BY <2>2, <2>4, <2>5 DEF IInv
  <1>2. ASSUME NEW t \in Threads, Operation(t) PROVE IInv'
    <2>1. ASSUME NEW h \in Locals, NEW o \in Objects, Make(t, h, o) \/ CowClone(t, h, o)
          PROVE  IInv'
      BY <2>1, MakeInv, CowCloneInv
    <2>2. ASSUME NEW h \in Handles, NEW s \in Handles,
                 CopyAssign(t, h, s) \/ MoveAssign(t, h, s) \/ Swap(t, h, s)
          PROVE  IInv'
      BY <2>2, CopyAssignInv, MoveAssignInv, SwapInv
    <2>3. ASSUME NEW h \in Locals, Destruct(t, h) \/ Reset(t, h) \/ CowUnique(t, h)
          PROVE  IInv'
      BY <2>3, DestructInv, ResetInv, CowUniqueInv
    <2>4. ASSUME EndWrite(t) PROVE IInv'
      BY <2>4, EndWriteInv
    <2>5. ASSUME NEW u \in Threads, NEW h \in Locals, Handover(t, u, h) PROVE IInv'
      BY <2>5, HandoverInv
    <2> QED
      BY <1>2, <2>1, <2>2, <2>3, <2>4, <2>5 DEF Operation
  <1>3. ASSUME NEW t \in Threads, Continue(t) PROVE IInv'
    <2>1. ASSUME NEW f \in Fields, DestructField(t, f) \/ CloneField(t, f) PROVE IInv'
      BY <2>1, DestructFieldInv, CloneFieldInv
    <2> QED
      BY <1>3, <2>1, IncCounterInv, DecCounterInv, DeallocateInv, ResetDoneInv, CloneDoneInv
         DEF Continue
  <1> QED
    BY <1>1, <1>2, <1>3 DEF Next

\* The inductive invariant: counters are exact, counted objects are live, and
\* whatever a thread is in the middle of is its own or kept alive by a counted
\* reference (object.h:41-254).
THEOREM Invariant == Safe => []IInv
  <1>1. Init => IInv
    BY InitInv
  <1>2. IInv /\ [Next]_vars => IInv'
    BY NextInv
  <1> QED
    BY <1>1, <1>2, PTL DEF Safe

\* Every variable stays in its domain, and count_ never becomes negative
\* (object.h:41-160).
THEOREM TypeCorrect == Safe => []TypeOK
  <1>1. IInv => TypeOK
    BY CardZero DEF IInv, Shape, CountExact, TypeOK
  <1> QED
    BY <1>1, Invariant, PTL

\* count_ is the number of references it was told of, for any number of
\* threads, objects and handles (object.h:48-53).
THEOREM CountIsExact == Safe => []CountExact
  <1>1. IInv => CountExact
    BY DEF IInv
  <1> QED
    BY <1>1, Invariant, PTL

\* No handle, and no release still owed, refers to memory that is freed or is
\* being destroyed (object.h:84-103).
THEOREM NeverDangling == Safe => []NoDangling
  <1>1. IInv => NoDangling
    BY HeldIsLive DEF NoDangling
  <1> QED
    BY <1>1, Invariant, PTL

\* The node a thread writes through CopyOnWrite is reachable through its own
\* handle only (object.h:147-149 and 247-254).
THEOREM WriterIsAlone == Safe => []WriteExclusive
  <1>1. ASSUME IInv, NEW t \in Threads, write[t] # None, Ready(t)
        PROVE  Holders(Node(t)) = {write[t]}
    <2>1. write[t] \in Holders(Node(t)) /\ clone[t] = None
      BY <1>1, WriteHandleCounts DEF Ready
    <2> QED
      BY <1>1, <2>1 DEF IInv, Exclusive
  <1>2. IInv => WriteExclusive
    BY <1>1 DEF WriteExclusive
  <1> QED
    BY <1>2, Invariant, PTL

(***************************************************************************)
(* Which objects are referred to.  Only three actions change that: Make    *)
(* and CloneDone refer to a new object, and DecCounter gives up the last   *)
(* reference to one.  The other actions hand a reference from one holder   *)
(* to another, and each has its lemma.                                     *)
(***************************************************************************)

Held(o) == Holders(o) # {}

SameHeld == \A o \in Objects : Held(o)' <=> Held(o)

\* One holder is enough.
LEMMA HeldBy ==
  ASSUME NEW o, NEW x, x \in Holders(o)
  PROVE  Held(o)
  BY DEF Held

\* It is enough that every holder has a successor, and a predecessor.
LEMMA Succession ==
  ASSUME \A o \in Objects : \A x \in Holders(o) : \E y : y \in Holders(o)',
         \A o \in Objects : \A x \in Holders(o)' : \E y : y \in Holders(o)
  PROVE  SameHeld
  BY DEF SameHeld, Held

(***************************************************************************)
(* Who holds an object before a step holds it behind it, or somebody else  *)
(* does.                                                                   *)
(***************************************************************************)

\* Nothing that could refer to an object changes.
LEMMA UntouchedHeld ==
  ASSUME data' = data, stale' = stale, drop' = drop
  PROVE  SameHeld
  BY DEF SameHeld, Held, Holders

\* The old object goes to drop, the new one has a second holder.
LEMMA CopyAssignHeld ==
  ASSUME IInv, NEW t \in Threads, NEW h \in Handles, NEW s \in Handles, CopyAssign(t, h, s)
  PROVE  SameHeld
  <1> USE DistinctAssumption
  <1>1. /\ h \in Writable(t) /\ s \in Readable(t) /\ Ready(t) /\ drop[t] = None
        /\ stale' = stale /\ Shape
    BY DEF CopyAssign, Ready, IInv
  <1>2. /\ \A j \in Handles : data'[j] = IF j = h THEN data[s] ELSE data[j]
        /\ \A u \in Threads : drop'[u] = IF u = t THEN data[h] ELSE drop[u]
    BY <1>1 DEF CopyAssign, Shape
  <1>3. \A u \in Threads : stale[u] # h
    BY <1>1, WritableIsFree
  <1>4. data[s] # None => s \in Holders(data[s])
    BY <1>1, ReadableCounts
  <1>5. ASSUME NEW o \in Objects, NEW x \in Holders(o) PROVE \E y : y \in Holders(o)'
    <2>1. CASE x = h
      BY <1>2, <2>1 DEF Holders
    <2>2. CASE x # h
      BY <1>1, <1>2, <2>2 DEF Holders
    <2> QED BY <2>1, <2>2
  <1>6. ASSUME NEW o \in Objects, NEW x \in Holders(o)' PROVE \E y : y \in Holders(o)
    <2>1. CASE x = h
      BY <1>2, <1>4, <2>1 DEF Holders
    <2>2. CASE x = t
      BY <1>2, <1>3, <2>2 DEF Holders
    <2>3. CASE x # h /\ x # t
      BY <1>1, <1>2, <2>3 DEF Holders
    <2> QED BY <2>1, <2>2, <2>3
  <1> QED BY <1>5, <1>6, Succession

\* The old object goes to drop, the new one from the source to the handle.
LEMMA MoveAssignHeld ==
  ASSUME IInv, NEW t \in Threads, NEW h \in Handles, NEW s \in Handles, MoveAssign(t, h, s)
  PROVE  SameHeld
  <1> USE DistinctAssumption
  <1>1. /\ h \in Writable(t) /\ s \in Writable(t) /\ h # s /\ Ready(t) /\ drop[t] = None
        /\ stale' = stale /\ Shape
    BY DEF MoveAssign, Ready, IInv
  <1>2. /\ \A j \in Handles : data'[j] = IF j = s THEN None ELSE IF j = h THEN data[s] ELSE data[j]
        /\ \A u \in Threads : drop'[u] = IF u = t THEN data[h] ELSE drop[u]
    BY <1>1 DEF MoveAssign, Shape
  <1>3. \A u \in Threads : stale[u] # h /\ stale[u] # s
    BY <1>1, WritableIsFree
  <1>4. ASSUME NEW o \in Objects, NEW x \in Holders(o) PROVE \E y : y \in Holders(o)'
    <2>1. CASE x = h
      BY <1>2, <2>1 DEF Holders
    <2>2. CASE x = s
      BY <1>1, <1>2, <1>3, <2>2 DEF Holders
    <2>3. CASE x # h /\ x # s
      BY <1>1, <1>2, <2>3 DEF Holders
    <2> QED BY <2>1, <2>2, <2>3
  <1>5. ASSUME NEW o \in Objects, NEW x \in Holders(o)' PROVE \E y : y \in Holders(o)
    <2>1. CASE x = h
      BY <1>1, <1>2, <1>3, <2>1 DEF Holders
    <2>2. CASE x = t
      BY <1>2, <1>3, <2>2 DEF Holders
    <2>3. CASE x # h /\ x # t
      BY <1>1, <1>2, <2>3 DEF Holders
    <2> QED BY <2>1, <2>2, <2>3
  <1> QED BY <1>4, <1>5, Succession

\* Each of the two handles takes over from the other.
LEMMA SwapHeld ==
  ASSUME IInv, NEW t \in Threads, NEW h \in Handles, NEW s \in Handles, Swap(t, h, s)
  PROVE  SameHeld
  <1> USE DistinctAssumption
  <1>1. /\ h \in Writable(t) /\ s \in Writable(t) /\ h # s /\ Ready(t)
        /\ stale' = stale /\ drop' = drop /\ Shape
    BY DEF Swap, IInv, registers
  <1>2. \A j \in Handles :
          data'[j] = IF j = s THEN data[h] ELSE IF j = h THEN data[s] ELSE data[j]
    BY <1>1 DEF Swap, Shape
  <1>3. \A u \in Threads : stale[u] # h /\ stale[u] # s
    BY <1>1, WritableIsFree
  <1>4. ASSUME NEW o \in Objects, NEW x \in Holders(o) PROVE \E y : y \in Holders(o)'
    <2>1. CASE x = h
      BY <1>1, <1>2, <1>3, <2>1 DEF Holders
    <2>2. CASE x = s
      BY <1>1, <1>2, <1>3, <2>2 DEF Holders
    <2>3. CASE x # h /\ x # s
      BY <1>1, <1>2, <2>3 DEF Holders
    <2> QED BY <2>1, <2>2, <2>3
  <1>5. ASSUME NEW o \in Objects, NEW x \in Holders(o)' PROVE \E y : y \in Holders(o)
    <2>1. CASE x = h
      BY <1>1, <1>2, <1>3, <2>1 DEF Holders
    <2>2. CASE x = s
      BY <1>1, <1>2, <1>3, <2>2 DEF Holders
    <2>3. CASE x # h /\ x # s
      BY <1>1, <1>2, <2>3 DEF Holders
    <2> QED BY <2>1, <2>2, <2>3
  <1> QED BY <1>4, <1>5, Succession

\* A handle that is not in reset() is emptied, its object goes to drop.
LEMMA ReleaseHeld ==
  ASSUME IInv, NEW t \in Threads, NEW h \in Handles, drop[t] = None, stale' = stale,
         \A u \in Threads : stale[u] # h,
         data' = [data EXCEPT ![h] = None], drop' = [drop EXCEPT ![t] = data[h]]
  PROVE  SameHeld
  <1> USE DistinctAssumption
  <1>1. Shape
    BY DEF IInv
  <1>2. /\ \A j \in Handles : data'[j] = IF j = h THEN None ELSE data[j]
        /\ \A u \in Threads : drop'[u] = IF u = t THEN data[h] ELSE drop[u]
    BY <1>1 DEF Shape
  <1>3. ASSUME NEW o \in Objects, NEW x \in Holders(o) PROVE \E y : y \in Holders(o)'
    <2>1. CASE x = h
      BY <1>2, <2>1 DEF Holders
    <2>2. CASE x # h
      BY <1>2, <2>2 DEF Holders
    <2> QED BY <2>1, <2>2
  <1>4. ASSUME NEW o \in Objects, NEW x \in Holders(o)' PROVE \E y : y \in Holders(o)
    <2>1. CASE x = t
      BY <1>2, <2>1 DEF Holders
    <2>2. CASE x # t
      BY <1>2, <2>2 DEF Holders
    <2> QED BY <2>1, <2>2
  <1> QED BY <1>3, <1>4, Succession

\* ~object_p of a local, and of a member of an object that is destroyed.
LEMMA DestructHeld ==
  ASSUME IInv, NEW t \in Threads, NEW h \in Locals, Destruct(t, h)
  PROVE  SameHeld
  <1>1. h \in Writable(t) /\ Ready(t) /\ h \in Handles
    BY DEF Destruct, Writable, Handles
  <1>2. \A u \in Threads : stale[u] # h
    BY <1>1, WritableIsFree
  <1> QED BY <1>1, <1>2, ReleaseHeld DEF Destruct, Ready

LEMMA DestructFieldHeld ==
  ASSUME IInv, NEW t \in Threads, NEW f \in Fields, DestructField(t, f)
  PROVE  SameHeld
  <1> USE DistinctAssumption
  <1>1. PICK r \in Objects : r = reap[t]
    BY DEF IInv, Shape, DestructField
  <1>2. PICK h : h = <<r, f>>
    OBVIOUS
  <1>3. h \in Handles /\ h \notin Locals /\ h # None
    BY <1>2 DEF Handles
  <1>4. \A u \in Threads : stale[u] # h
    BY <1>3 DEF IInv, Shape
  <1> QED BY <1>1, <1>2, <1>3, <1>4, ReleaseHeld DEF DestructField

\* reset() has its object in drop while its own pointer is stale.
LEMMA ResetHeld ==
  ASSUME IInv, NEW t \in Threads, NEW h \in Locals, Reset(t, h)
  PROVE  SameHeld
  <1> USE DistinctAssumption
  <1>1. /\ h \in Writable(t) /\ Ready(t) /\ h \in Handles /\ data' = data /\ Shape
        /\ drop[t] = None /\ stale[t] = None
    BY DEF Reset, Writable, Handles, Ready, IInv
  <1>2. /\ \A u \in Threads : drop'[u] = IF u = t THEN data[h] ELSE drop[u]
        /\ \A u \in Threads : stale'[u] = IF u = t THEN h ELSE stale[u]
    BY <1>1 DEF Reset, Shape
  <1>3. \A u \in Threads : stale[u] # h
    BY <1>1, WritableIsFree
  <1>4. ASSUME NEW o \in Objects, NEW x \in Holders(o) PROVE \E y : y \in Holders(o)'
    <2>1. CASE x = h
      BY <1>1, <1>2, <2>1 DEF Holders
    <2>2. CASE x # h
      BY <1>1, <1>2, <2>2 DEF Holders
    <2> QED BY <2>1, <2>2
  <1>5. ASSUME NEW o \in Objects, NEW x \in Holders(o)' PROVE \E y : y \in Holders(o)
    <2>1. CASE x = t
      BY <1>1, <1>2, <1>3, <2>1 DEF Holders
    <2>2. CASE x # t
      BY <1>1, <1>2, <2>2 DEF Holders
    <2> QED BY <2>1, <2>2
  <1> QED BY <1>4, <1>5, Succession

\* The stale pointer was no holder, and is none.
LEMMA ResetDoneHeld ==
  ASSUME IInv, NEW t \in Threads, ResetDone(t)
  PROVE  SameHeld
  <1> USE DistinctAssumption
  <1>1. PICK h \in Locals : h = stale[t]
    BY DEF IInv, Shape, ResetDone
  <1>2. /\ \A j \in Handles : data'[j] = IF j = h THEN None ELSE data[j]
        /\ \A u \in Threads : stale'[u] = IF u = t THEN None ELSE stale[u]
        /\ drop' = drop /\ h \in Handles
    BY <1>1 DEF ResetDone, IInv, Shape, Handles
  <1>3. ASSUME NEW o \in Objects, NEW x PROVE x \in Holders(o)' <=> x \in Holders(o)
    <2>1. CASE x = h
      BY <1>1, <1>2, <2>1 DEF Holders
    <2>2. CASE x # h
      BY <1>1, <1>2, <2>2 DEF Holders
    <2> QED BY <2>1, <2>2
  <1> QED BY <1>3 DEF SameHeld, Held

\* A member of the clone refers to what the node refers to.
LEMMA CloneFieldHeld ==
  ASSUME IInv, NEW t \in Threads, NEW f \in Fields, CloneField(t, f)
  PROVE  SameHeld
  <1> USE DistinctAssumption
  <1>1. /\ clone[t] # None /\ gain[t] = None /\ f \in todo[t] /\ stale' = stale /\ drop' = drop
        /\ write[t] # None /\ data[<<clone[t], f>>] = None /\ Shape
    BY DEF CloneField, IInv, CloneOwn
  <1>2. PICK c \in Objects, n \in Objects : c = clone[t] /\ n = Node(t)
    BY <1>1, WriteHandleCounts DEF Shape
  <1>3. PICK k, v : k = <<c, f>> /\ v = data[<<n, f>>]
    OBVIOUS
  <1>4. k \in Handles /\ k \notin Locals /\ data[k] = None /\ k # None
    BY <1>1, <1>2, <1>3 DEF Handles
  <1>5. \A j \in Handles : data'[j] = IF j = k THEN v ELSE data[j]
    BY <1>1, <1>2, <1>3, <1>4 DEF CloneField, Shape
  <1>6. v # None => <<n, f>> \in Holders(v)
    BY <1>1, <1>2, <1>3, CloneSource
  <1>7. ASSUME NEW o \in Objects, NEW x \in Holders(o) PROVE \E y : y \in Holders(o)'
    BY <1>1, <1>4, <1>5 DEF Holders
  <1>8. ASSUME NEW o \in Objects, NEW x \in Holders(o)' PROVE \E y : y \in Holders(o)
    <2>1. CASE x = k
      BY <1>4, <1>5, <1>6, <2>1 DEF Holders
    <2>2. CASE x # k
      BY <1>1, <1>5, <2>2 DEF Holders
    <2> QED BY <2>1, <2>2
  <1> QED BY <1>7, <1>8, Succession

\* The new object has its holder, the others keep theirs.
LEMMA MakeHeld ==
  ASSUME IInv, NEW t \in Threads, NEW h \in Locals, NEW n \in Objects, Make(t, h, n)
  PROVE  Held(n)' /\ \A o \in Objects \ {n} : Held(o)' <=> Held(o)
  <1> USE DistinctAssumption
  <1>1. /\ h \in Writable(t) /\ Ready(t) /\ h \in Handles /\ data[h] = None
        /\ stale' = stale /\ drop' = drop /\ Shape
    BY DEF Make, Writable, Handles, IInv, registers
  <1>2. \A j \in Handles : data'[j] = IF j = h THEN n ELSE data[j]
    BY <1>1 DEF Make, Shape
  <1>3. \A u \in Threads : stale[u] # h
    BY <1>1, WritableIsFree
  <1>4. h \in Holders(n)'
    BY <1>1, <1>2, <1>3 DEF Holders
  <1>5. ASSUME NEW o \in Objects \ {n}, NEW x PROVE x \in Holders(o)' <=> x \in Holders(o)
    BY <1>1, <1>2 DEF Holders
  <1> QED BY <1>4, <1>5 DEF Held

\* The handle under the write takes the clone, the old node goes to drop.
LEMMA CloneDoneHeld ==
  ASSUME IInv, NEW t \in Threads, NEW n \in Objects, n = clone[t], CloneDone(t)
  PROVE  Held(n)' /\ ~Held(n) /\ \A o \in Objects \ {n} : Held(o)' <=> Held(o)
  <1> USE DistinctAssumption
  <1>1. clone[t] # None /\ write[t] # None /\ drop[t] = None /\ stale' = stale /\ Shape
    BY DEF CloneDone, IInv, CloneOwn
  <1>2. PICK w \in Locals, old \in Objects :
          /\ w = write[t] /\ old = Node(t) /\ w \in Handles /\ data[w] = old
          /\ w \in Holders(old)
    BY <1>1, WriteHandleCounts DEF Handles, Node
  <1>3. /\ \A j \in Handles : data'[j] = IF j = w THEN n ELSE data[j]
        /\ \A u \in Threads : drop'[u] = IF u = t THEN old ELSE drop[u]
    BY <1>1, <1>2 DEF CloneDone, Shape
  <1>4. \A u \in Threads : stale[u] # w
    BY <1>2 DEF Holders
  <1>5. \A x : x \notin Holders(n)
    BY <1>1 DEF IInv, CloneOwn, Holders
  <1>6. w \in Holders(n)'
    BY <1>1, <1>2, <1>3, <1>4 DEF Holders
  <1>7. ASSUME NEW o \in Objects \ {n}, NEW x \in Holders(o) PROVE \E y : y \in Holders(o)'
    <2>1. CASE x = w
      BY <1>2, <1>3, <2>1 DEF Holders
    <2>2. CASE x # w
      BY <1>1, <1>3, <2>2 DEF Holders
    <2> QED BY <2>1, <2>2
  <1>8. ASSUME NEW o \in Objects \ {n}, NEW x \in Holders(o)' PROVE \E y : y \in Holders(o)
    <2>1. CASE x = t
      BY <1>2, <1>3, <2>1 DEF Holders
    <2>2. CASE x # t
      BY <1>1, <1>2, <1>3, <2>2 DEF Holders
    <2> QED BY <2>1, <2>2
  <1> QED BY <1>5, <1>6, <1>7, <1>8 DEF Held

\* Only the object that is released may lose its last holder, and it keeps one
\* unless its counter was one.
LEMMA DecCounterHeld ==
  ASSUME IInv, NEW t \in Threads, NEW d \in Objects, d = drop[t], DecCounter(t)
  PROVE  /\ \A o \in Objects : Held(o)' => Held(o)
         /\ \A o \in Objects \ {d} : Held(o) => Held(o)'
         /\ count[d] # 1 => Held(d)'
  <1> USE DistinctAssumption
  <1>1. data' = data /\ stale' = stale /\ Shape
    BY DEF DecCounter, IInv
  <1>2. \A u \in Threads : drop'[u] = IF u = t THEN None ELSE drop[u]
    BY <1>1 DEF DecCounter, Shape
  <1>3. ASSUME NEW o \in Objects, NEW x PROVE x \in Holders(o)' <=> x \in Holders(o) /\ x # t
    BY <1>1, <1>2 DEF Holders
  <1>4. ASSUME NEW o \in Objects \ {d} PROVE t \notin Holders(o)
    BY DEF Holders
  <1>5. ASSUME count[d] # 1 PROVE Held(d)'
    <2>1. count'[d] = count[d] - 1 /\ count[d] \in Int
      BY <1>1 DEF DecCounter, Shape
    <2>2. CountExact' /\ Cardinality({}) = 0
      BY DecCounterInv, FS_EmptySet DEF IInv
    <2>3. count'[d] = Cardinality(Counted(d)')
      BY <2>2 DEF CountExact
    <2>4. ASSUME Counted(d)' = {} PROVE FALSE
      <3>1. count'[d] = 0
        BY <2>2, <2>3, <2>4
      <3> QED BY <1>5, <2>1, <3>1
    <2> QED BY <2>4 DEF Held, Counted
  <1> QED BY <1>3, <1>4, <1>5 DEF Held

(***************************************************************************)
(* No object is forgotten.                                                 *)
(***************************************************************************)

\* A step that keeps the holders and leaves the destructors alone.
LEMMA ForgetsNothing ==
  ASSUME NoneForgotten, SameHeld, UNCHANGED <<heap, reap, outer, clone>>
  PROVE  NoneForgotten'
  BY DEF NoneForgotten, SameHeld, Held

LEMMA MakeForgetsNothing ==
  ASSUME IInv, NoneForgotten, NEW t \in Threads, NEW h \in Locals, NEW n \in Objects, Make(t, h, n)
  PROVE  NoneForgotten'
  <1>1. /\ \A o \in Objects \ {n} : heap'[o] = heap[o]
        /\ heap'[n] = "live"
        /\ UNCHANGED <<reap, outer, clone>>
    BY DEF Make, registers, IInv, Shape
  <1> QED BY <1>1, MakeHeld DEF NoneForgotten, Held

LEMMA CowCloneForgetsNothing ==
  ASSUME IInv, NoneForgotten, NEW t \in Threads, NEW h \in Locals, NEW n \in Objects,
         CowClone(t, h, n)
  PROVE  NoneForgotten'
  <1> USE DistinctAssumption
  <1>1. /\ \A o \in Objects \ {n} : heap'[o] = heap[o]
        /\ heap'[n] = "live"
        /\ \A u \in Threads : clone'[u] = IF u = t THEN n ELSE clone[u]
        /\ clone[t] = None
        /\ UNCHANGED <<data, stale, drop, reap, outer>>
    BY DEF CowClone, Ready, IInv, Shape
  <1>2. SameHeld
    BY <1>1, UntouchedHeld
  <1> QED BY <1>1, <1>2 DEF NoneForgotten, SameHeld, Held

LEMMA CloneDoneForgetsNothing ==
  ASSUME IInv, NoneForgotten, NEW t \in Threads, CloneDone(t)
  PROVE  NoneForgotten'
  <1>1. PICK n \in Objects : n = clone[t]
    BY DEF CloneDone, IInv, Shape
  <1>2. /\ UNCHANGED <<heap, reap, outer>>
        /\ \A u \in Threads : clone'[u] = IF u = t THEN None ELSE clone[u]
    BY DEF CloneDone, IInv, Shape
  <1> QED BY <1>1, <1>2, CloneDoneHeld DEF NoneForgotten, Held

\* Who sees zero is the one who destroys.
LEMMA DecCounterForgetsNothing ==
  ASSUME IInv, NoneForgotten, NEW t \in Threads, DecCounter(t)
  PROVE  NoneForgotten'
  <1> USE DistinctAssumption
  <1>1. PICK d \in Objects : d = drop[t]
    BY DEF DecCounter, IInv, Shape
  <1>2. t \in Holders(d) /\ heap[d] = "live"
    BY <1>1, HeldIsLive DEF Holders
  <1>3. CASE count[d] = 1
    <2>1. /\ \A o \in Objects : heap'[o] = IF o = d THEN "dying" ELSE heap[o]
          /\ \A u \in Threads : reap'[u] = IF u = t THEN d ELSE reap[u]
          /\ \A o \in Objects : outer'[o] = IF o = d THEN reap[t] ELSE outer[o]
          /\ clone' = clone
      BY <1>1, <1>3 DEF DecCounter, IInv, Shape
    <2>2. outer[d] = None
      BY <1>2 DEF IInv, Reaping
    <2>3. ASSUME NEW o \in Objects, heap'[o] = "dying"
          PROVE  (\E u \in Threads : reap'[u] = o) \/ \E p \in Objects : outer'[p] = o
      <3>1. CASE o = d
        BY <2>1, <3>1
      <3>2. CASE o # d
        BY <2>1, <2>2, <2>3, <3>2 DEF NoneForgotten
      <3> QED BY <3>1, <3>2
    <2>4. ASSUME NEW o \in Objects, heap'[o] = "live"
          PROVE  Held(o)' \/ \E u \in Threads : clone'[u] = o
      <3>1. o # d /\ heap[o] = "live"
        BY <2>1, <2>4
      <3> QED BY <1>1, <2>1, <3>1, DecCounterHeld DEF NoneForgotten, Held
    <2> QED BY <2>3, <2>4 DEF NoneForgotten, Held
  <1>4. CASE count[d] # 1
    <2>1. UNCHANGED <<heap, reap, outer, clone>>
      BY <1>1, <1>4 DEF DecCounter
    <2>2. \A o \in Objects : Held(o) => Held(o)'
      BY <1>1, <1>4, DecCounterHeld
    <2> QED BY <2>1, <2>2 DEF NoneForgotten, Held
  <1> QED BY <1>3, <1>4

\* The destructor that waited goes on.
LEMMA DeallocateForgetsNothing ==
  ASSUME IInv, NoneForgotten, NEW t \in Threads, Deallocate(t)
  PROVE  NoneForgotten'
  <1> USE DistinctAssumption
  <1>1. PICK r \in Objects : r = reap[t]
    BY DEF Deallocate, IInv, Shape
  <1>2. /\ \A o \in Objects : heap'[o] = IF o = r THEN "free" ELSE heap[o]
        /\ \A u \in Threads : reap'[u] = IF u = t THEN outer[r] ELSE reap[u]
        /\ \A o \in Objects : outer'[o] = IF o = r THEN None ELSE outer[o]
        /\ UNCHANGED <<clone, data, stale, drop>>
    BY <1>1 DEF Deallocate, IInv, Shape
  <1>3. SameHeld
    BY <1>2, UntouchedHeld
  <1>4. ASSUME NEW o \in Objects, heap'[o] = "dying"
        PROVE  (\E u \in Threads : reap'[u] = o) \/ \E p \in Objects : outer'[p] = o
    <2>1. o # r /\ heap[o] = "dying"
      BY <1>2, <1>4
    <2>2. CASE \E u \in Threads : reap[u] = o
      BY <1>1, <1>2, <2>1, <2>2
    <2>3. CASE \E p \in Objects : outer[p] = o
      BY <1>2, <2>3
    <2> QED BY <2>1, <2>2, <2>3 DEF NoneForgotten
  <1>5. ASSUME NEW o \in Objects, heap'[o] = "live"
        PROVE  Held(o)' \/ \E u \in Threads : clone'[u] = o
    <2>1. heap[o] = "live"
      BY <1>2, <1>5
    <2> QED BY <1>2, <1>3, <2>1 DEF NoneForgotten, SameHeld, Held
  <1> QED BY <1>4, <1>5 DEF NoneForgotten, Held

\* Every step.
LEMMA NextForgetsNothing ==
  ASSUME IInv, NoneForgotten, [Next]_vars
  PROVE  NoneForgotten'
  <1>1. CASE UNCHANGED vars
    BY <1>1, UntouchedHeld, ForgetsNothing DEF vars, registers
  <1>2. ASSUME NEW t \in Threads, Operation(t) PROVE NoneForgotten'
    <2>1. ASSUME NEW h \in Locals, NEW o \in Objects, Make(t, h, o) \/ CowClone(t, h, o)
          PROVE  NoneForgotten'
      BY <2>1, MakeForgetsNothing, CowCloneForgetsNothing
    <2>2. ASSUME NEW h \in Handles, NEW s \in Handles,
                 CopyAssign(t, h, s) \/ MoveAssign(t, h, s) \/ Swap(t, h, s)
          PROVE  NoneForgotten'
      <3>1. SameHeld
        BY <2>2, CopyAssignHeld, MoveAssignHeld, SwapHeld
      <3>2. UNCHANGED <<heap, reap, outer, clone>>
        BY <2>2 DEF CopyAssign, MoveAssign, Swap, registers
      <3> QED BY <3>1, <3>2, ForgetsNothing
    <2>3. ASSUME NEW h \in Locals, Destruct(t, h) \/ Reset(t, h) \/ CowUnique(t, h)
          PROVE  NoneForgotten'
      <3>1. SameHeld
        BY <2>3, DestructHeld, ResetHeld, UntouchedHeld DEF CowUnique
      <3>2. UNCHANGED <<heap, reap, outer, clone>>
        BY <2>3 DEF Destruct, Reset, CowUnique
      <3> QED BY <3>1, <3>2, ForgetsNothing
    <2>4. ASSUME EndWrite(t) PROVE NoneForgotten'
      BY <2>4, UntouchedHeld, ForgetsNothing DEF EndWrite
    <2>5. ASSUME NEW u \in Threads, NEW h \in Locals, Handover(t, u, h) PROVE NoneForgotten'
      BY <2>5, UntouchedHeld, ForgetsNothing DEF Handover, registers
    <2> QED BY <1>2, <2>1, <2>2, <2>3, <2>4, <2>5 DEF Operation
  <1>3. ASSUME NEW t \in Threads, Continue(t) PROVE NoneForgotten'
    <2>1. ASSUME NEW f \in Fields, DestructField(t, f) \/ CloneField(t, f) PROVE NoneForgotten'
      <3>1. SameHeld
        BY <2>1, DestructFieldHeld, CloneFieldHeld
      <3>2. UNCHANGED <<heap, reap, outer, clone>>
        BY <2>1 DEF DestructField, CloneField
      <3> QED BY <3>1, <3>2, ForgetsNothing
    <2>2. ASSUME IncCounter(t) PROVE NoneForgotten'
      BY <2>2, UntouchedHeld, ForgetsNothing DEF IncCounter
    <2>3. ASSUME ResetDone(t) PROVE NoneForgotten'
      <3>1. UNCHANGED <<heap, reap, outer, clone>>
        BY <2>3 DEF ResetDone
      <3> QED BY <2>3, <3>1, ResetDoneHeld, ForgetsNothing
    <2> QED BY <1>3, <2>1, <2>2, <2>3, CloneDoneForgetsNothing, DecCounterForgetsNothing,
               DeallocateForgetsNothing DEF Continue
  <1> QED BY <1>1, <1>2, <1>3 DEF Next

\* A constructed object is referred to, being built by CopyOnWrite, or being
\* destroyed, for any number of threads, objects and handles: the thread that
\* takes the last reference destroys, and its chain of destructors leaves none
\* out (object.h:49-53, 140-145).
THEOREM NothingIsForgotten == Safe => []NoneForgotten
  <1>1. Init => NoneForgotten
    BY DEF Init, NoneForgotten
  <1>2. IInv /\ NoneForgotten /\ [Next]_vars => NoneForgotten'
    BY NextForgetsNothing
  <1> QED BY <1>1, <1>2, Invariant, PTL DEF Safe

(***************************************************************************)
(* The members of objects form no cycle.  A member gets a new pointer only *)
(* in a node that one local refers to and no member does, or in a clone    *)
(* that nothing refers to: no cycle runs through it.                       *)
(***************************************************************************)

\* The members of o are what they were, or empty.
FewerMembers(o) == \A f \in Fields : data'[<<o, f>>] \in {data[<<o, f>>], None}

\* No pointer is added but in an object that no member points to.
LEMMA AcyclicKept ==
  ASSUME Acyclic, NEW n, \A o \in Objects \ {n} : FewerMembers(o),
         FewerMembers(n) \/ \A o \in Objects, f \in Fields : data'[<<o, f>>] # n
  PROVE  Acyclic'
  <1> USE DistinctAssumption
  <1> SUFFICES ASSUME NEW S \in (SUBSET Objects) \ {{}}
               PROVE  \E o \in S : \A p \in S : ~Points(o, p)'
    BY DEF Acyclic, Points
  <1>1. ASSUME NEW o \in Objects, NEW p \in Objects, FewerMembers(o), Points(o, p)'
        PROVE  Points(o, p)
    BY <1>1 DEF FewerMembers, Points
  <1>2. CASE FewerMembers(n) \/ n \notin S
    <2>1. PICK o \in S : \A p \in S : ~Points(o, p)
      BY DEF Acyclic
    <2>2. FewerMembers(o)
      BY <1>2
    <2> QED BY <1>1, <2>1, <2>2
  <1>3. CASE n \in S /\ \A o \in Objects, f \in Fields : data'[<<o, f>>] # n
    <2>1. \A o \in Objects : ~Points(o, n)'
      BY <1>3 DEF Points
    <2>2. CASE S = {n}
      BY <2>1, <2>2
    <2>3. CASE S # {n}
      <3>1. S \ {n} \in (SUBSET Objects) \ {{}}
        BY <1>3, <2>3
      <3>2. PICK o \in S \ {n} : \A p \in S \ {n} : ~Points(o, p)
        BY <3>1 DEF Acyclic
      <3> QED BY <1>1, <2>1, <3>2
    <2> QED BY <2>2, <2>3
  <1> QED BY <1>2, <1>3

\* A step that empties members at most.
LEMMA AcyclicFewer ==
  ASSUME Acyclic, \A o \in Objects : FewerMembers(o)
  PROVE  Acyclic'
  <1> USE DistinctAssumption
  <1> SUFFICES ASSUME NEW S \in (SUBSET Objects) \ {{}}
               PROVE  \E o \in S : \A p \in S : ~Points(o, p)'
    BY DEF Acyclic, Points
  <1>1. PICK o \in S : \A p \in S : ~Points(o, p)
    BY DEF Acyclic
  <1> QED BY <1>1 DEF FewerMembers, Points

\* The node under a write is seen through its handle only.
LEMMA NodeUnseen ==
  ASSUME IInv, NEW t \in Threads, Ready(t), write[t] # None,
         NEW x \in Handles, x # write[t], \A u \in Threads : stale[u] # x
  PROVE  data[x] # Node(t)
  <1>1. clone[t] = None /\ Exclusive(t)
    BY DEF Ready, IInv
  <1>2. data[x] = Node(t) => x \in Holders(Node(t))
    BY DEF Holders
  <1> QED BY <1>1, <1>2 DEF Exclusive

LEMMA MemberNotStale ==
  ASSUME IInv, NEW o \in Objects, NEW f \in Fields
  PROVE  /\ <<o, f>> \in Handles /\ <<o, f>> \notin Locals /\ <<o, f>>[1] = o
         /\ \A u \in Threads : stale[u] # <<o, f>> /\ write[u] # <<o, f>>
  <1> USE DistinctAssumption
  <1>1. PICK h : h = <<o, f>>
    OBVIOUS
  <1>2. h \in Handles /\ h \notin Locals /\ h # None
    BY <1>1 DEF Handles
  <1> QED BY <1>1, <1>2 DEF IInv, Shape

\* A thread that writes handles it may write, with pointers out of handles that
\* are neither in reset() nor the one it writes through.
LEMMA WritesAcyclic ==
  ASSUME IInv, Acyclic, NEW t \in Threads, Ready(t), NEW H \in SUBSET Writable(t),
         \A x \in Handles \ H : data'[x] = data[x],
         \A x \in H : data'[x] = None \/
           \E y \in Handles : /\ data'[x] = data[y] /\ y # write[t]
                             /\ \A u \in Threads : stale[u] # y
  PROVE  Acyclic'
  <1> USE DistinctAssumption
  <1>1. ASSUME NEW o \in Objects, NEW f \in Fields, <<o, f>> \in H
        PROVE  write[t] # None /\ o = Node(t)
    BY <1>1, WritableIsFree, MemberNotStale
  <1>2. CASE write[t] = None
    <2>1. ASSUME NEW o \in Objects PROVE FewerMembers(o)
      BY <1>1, <1>2, MemberNotStale DEF FewerMembers
    <2> QED BY <2>1, AcyclicFewer
  <1>3. CASE write[t] # None
    <2>1. Node(t) \in Objects
      BY <1>3, WriteHandleCounts
    <2>2. ASSUME NEW o \in Objects \ {Node(t)} PROVE FewerMembers(o)
      BY <1>1, MemberNotStale DEF FewerMembers
    <2>3. ASSUME NEW o \in Objects, NEW f \in Fields PROVE data'[<<o, f>>] # Node(t)
      <3>. PICK h : h = <<o, f>>
        OBVIOUS
      <3>1. h \in Handles /\ h # write[t] /\ \A u \in Threads : stale[u] # h
        BY MemberNotStale
      <3>2. CASE h \in H
        BY <1>3, <2>1, <3>1, <3>2, NodeUnseen
      <3>3. CASE h \notin H
        BY <1>3, <3>1, <3>3, NodeUnseen
      <3> QED BY <3>1, <3>2, <3>3
    <2> QED BY <2>2, <2>3, AcyclicKept
  <1> QED BY <1>2, <1>3

LEMMA CopyAssignAcyclic ==
  ASSUME IInv, Acyclic, NEW t \in Threads, NEW h \in Handles, NEW s \in Handles, CopyAssign(t, h, s)
  PROVE  Acyclic'
  <1> USE DistinctAssumption
  <1>1. h \in Writable(t) /\ s \in Readable(t) /\ Ready(t)
    BY DEF CopyAssign
  <1>2. \A j \in Handles : data'[j] = IF j = h THEN data[s] ELSE data[j]
    BY DEF CopyAssign, IInv, Shape
  <1>3. data[s] # None => \A u \in Threads : stale[u] # s
    BY <1>1, ReadableCounts, HoldersDef
  <1>4. s # write[t]
    BY <1>1, ReadableCounts DEF IInv, Shape
  <1>. PICK H : H = {h}
    OBVIOUS
  <1>5. H \in SUBSET Writable(t) /\ \A x \in Handles \ H : data'[x] = data[x]
    BY <1>1, <1>2
  <1>6. \A x \in H :
          data'[x] = None \/
            \E y \in Handles : /\ data'[x] = data[y] /\ y # write[t]
                              /\ \A u \in Threads : stale[u] # y
    BY <1>2, <1>3, <1>4
  <1> QED BY <1>1, <1>5, <1>6, WritesAcyclic

\* Move and swap write two handles with what the other one had.
LEMMA ExchangeAcyclic ==
  ASSUME IInv, Acyclic, NEW t \in Threads, NEW h \in Handles, NEW s \in Handles,
         MoveAssign(t, h, s) \/ Swap(t, h, s)
  PROVE  Acyclic'
  <1>1. h \in Writable(t) /\ s \in Writable(t) /\ Ready(t)
    BY DEF MoveAssign, Swap
  <1>2. \A j \in Handles \ {h, s} : data'[j] = data[j]
    BY DEF MoveAssign, Swap, IInv, Shape
  <1>3. data'[h] = data[s] /\ data'[s] \in {data[h], None}
    BY DEF MoveAssign, Swap, IInv, Shape
  <1>4. \A u \in Threads : stale[u] # h /\ stale[u] # s /\ write[u] # h /\ write[u] # s
    BY <1>1, WritableIsFree
  <1>5. {h, s} \in SUBSET Writable(t)
    BY <1>1
  <1>6. \A x \in {h, s} :
          data'[x] = None \/
            \E y \in Handles : /\ data'[x] = data[y] /\ y # write[t]
                              /\ \A u \in Threads : stale[u] # y
    BY <1>3, <1>4
  <1> QED BY <1>1, <1>2, <1>5, <1>6, WritesAcyclic

\* The clone is filled while nothing points to it.
LEMMA CloneFieldAcyclic ==
  ASSUME IInv, Acyclic, NEW t \in Threads, NEW g \in Fields, CloneField(t, g)
  PROVE  Acyclic'
  <1> USE DistinctAssumption
  <1>1. PICK c \in Objects, n \in Objects :
          /\ c = clone[t] /\ n = Node(t) /\ \A x \in Handles \cup Threads : x \notin Holders(c)
    BY WriteHandleCounts DEF CloneField, CloneOwn, IInv, Shape
  <1>2. PICK k : k = <<c, g>>
    OBVIOUS
  <1>3. \A j \in Handles : data'[j] = IF j = k THEN data[<<n, g>>] ELSE data[j]
    BY <1>1, <1>2 DEF CloneField, IInv, Shape
  <1>4. ASSUME NEW o \in Objects, NEW f \in Fields PROVE data[<<o, f>>] # c
    <2>. PICK h : h = <<o, f>>
      OBVIOUS
    <2>1. h \in Handles /\ \A u \in Threads : stale[u] # h
      BY MemberNotStale
    <2>2. h \notin Holders(c)
      BY <1>1, <2>1
    <2> QED BY <2>1, <2>2 DEF Holders
  <1>5. ASSUME NEW o \in Objects, NEW f \in Fields PROVE data'[<<o, f>>] # c
    <2>1. PICK h \in Handles : h = <<o, f>>
      BY MemberNotStale
    <2> QED BY <1>3, <1>4, <2>1
  <1>6. ASSUME NEW o \in Objects \ {c} PROVE FewerMembers(o)
    <2>1. ASSUME NEW f \in Fields PROVE data'[<<o, f>>] = data[<<o, f>>]
      <3>1. PICK h \in Handles : h = <<o, f>>
        BY MemberNotStale
      <3>2. h # k
        BY <1>2, <3>1
      <3> QED BY <1>3, <3>1, <3>2
    <2> QED BY <2>1 DEF FewerMembers
  <1> QED BY <1>5, <1>6, AcyclicKept

\* A step that writes one local, or empties one handle.
LEMMA LocalAcyclic ==
  ASSUME IInv, Acyclic, NEW h \in Locals, NEW v, data' = [data EXCEPT ![h] = v]
  PROVE  Acyclic'
  <1>1. ASSUME NEW o \in Objects, NEW f \in Fields PROVE data'[<<o, f>>] = data[<<o, f>>]
    <2>. PICK k : k = <<o, f>>
      OBVIOUS
    <2>1. k \in Handles /\ k # h
      BY MemberNotStale
    <2>2. data'[k] = data[k]
      BY <2>1 DEF IInv, Shape
    <2> QED BY <2>1, <2>2
  <1> QED BY <1>1, AcyclicFewer DEF FewerMembers

LEMMA EmptyAcyclic ==
  ASSUME IInv, Acyclic, NEW h, data' = [data EXCEPT ![h] = None]
  PROVE  Acyclic'
  <1>1. ASSUME NEW o \in Objects, NEW f \in Fields
        PROVE  data'[<<o, f>>] \in {data[<<o, f>>], None}
    <2>1. PICK k \in Handles : k = <<o, f>>
      BY MemberNotStale
    <2>2. data'[k] \in {data[k], None}
      BY <2>1 DEF IInv, Shape
    <2> QED BY <2>1, <2>2
  <1> QED BY <1>1, AcyclicFewer DEF FewerMembers

LEMMA SameAcyclic ==
  ASSUME Acyclic, data' = data
  PROVE  Acyclic'
  BY DEF Acyclic, Points

\* Every step.
LEMMA NextAcyclic ==
  ASSUME IInv, Acyclic, [Next]_vars
  PROVE  Acyclic'
  <1>1. CASE UNCHANGED vars
    BY <1>1, SameAcyclic DEF vars
  <1>2. ASSUME NEW t \in Threads, Operation(t) PROVE Acyclic'
    <2>1. ASSUME NEW h \in Locals, NEW o \in Objects, Make(t, h, o) \/ CowClone(t, h, o)
          PROVE  Acyclic'
      BY <2>1, LocalAcyclic, SameAcyclic DEF Make, CowClone
    <2>2. ASSUME NEW h \in Handles, NEW s \in Handles,
                 CopyAssign(t, h, s) \/ MoveAssign(t, h, s) \/ Swap(t, h, s)
          PROVE  Acyclic'
      BY <2>2, CopyAssignAcyclic, ExchangeAcyclic
    <2>3. ASSUME NEW h \in Locals, Destruct(t, h) \/ Reset(t, h) \/ CowUnique(t, h)
          PROVE  Acyclic'
      BY <2>3, EmptyAcyclic, SameAcyclic DEF Destruct, Reset, CowUnique
    <2>4. ASSUME EndWrite(t) PROVE Acyclic'
      BY <2>4, SameAcyclic DEF EndWrite
    <2>5. ASSUME NEW u \in Threads, NEW h \in Locals, Handover(t, u, h) PROVE Acyclic'
      BY <2>5, SameAcyclic DEF Handover
    <2> QED BY <1>2, <2>1, <2>2, <2>3, <2>4, <2>5 DEF Operation
  <1>3. ASSUME NEW t \in Threads, Continue(t) PROVE Acyclic'
    <2>1. ASSUME NEW f \in Fields, DestructField(t, f) \/ CloneField(t, f) PROVE Acyclic'
      BY <2>1, EmptyAcyclic, CloneFieldAcyclic DEF DestructField
    <2>2. ASSUME IncCounter(t) \/ DecCounter(t) \/ Deallocate(t) PROVE Acyclic'
      BY <2>2, SameAcyclic DEF IncCounter, DecCounter, Deallocate
    <2>3. ASSUME ResetDone(t) PROVE Acyclic'
      BY <2>3, EmptyAcyclic DEF ResetDone
    <2>4. ASSUME CloneDone(t) PROVE Acyclic'
      <3>1. write[t] \in Locals
        BY <2>4 DEF CloneDone, IInv, CloneOwn, Shape
      <3> QED BY <2>4, <3>1, LocalAcyclic DEF CloneDone
    <2> QED BY <1>3, <2>1, <2>2, <2>3, <2>4 DEF Continue
  <1> QED BY <1>1, <1>2, <1>3 DEF Next

\* However long objects are copied, moved, cloned and written through
\* CopyOnWrite, their members form no cycle, for any number of them: what
\* no count could reclaim does not come about (object.h:247-254).
THEOREM NoCycles == Safe => []Acyclic
  <1>1. Init => Acyclic
    <2> SUFFICES ASSUME Init, NEW o \in Objects, NEW p \in Objects PROVE ~Points(o, p)
      BY DEF Acyclic
    <2>1. \A f \in Fields : <<o, f>> \in Handles
      BY DEF Handles
    <2> QED BY <2>1, DistinctAssumption DEF Init, Points
  <1>2. IInv /\ Acyclic /\ [Next]_vars => Acyclic'
    BY NextAcyclic
  <1> QED BY <1>1, <1>2, Invariant, PTL DEF Safe

(***************************************************************************)
(* The promise.  Only Make and CloneDone create, only Deallocate destroys, *)
(* and every other step shares references that are there.                  *)
(***************************************************************************)

\* A clone is not alive before it is in its handle.
Alive(o) == heap[o] # "free" /\ \A t \in Threads : clone[t] # o

LEMMA Shares ==
  ASSUME \A o \in Objects : Alive(o)' <=> Alive(o),
         \A o \in Objects : Held(o)' => Held(o)
  PROVE  Lifetime!Next
  <1>1. \A o \in Objects : Holders(o)' \in SUBSET (Handles \cup Threads)
    BY DEF Holders
  <1>2. Lifetime!Share
    BY <1>1 DEF Lifetime!Share, Lifetime!NoneFromNothing, Alive, Held
  <1> QED BY <1>2 DEF Lifetime!Next

LEMMA Creates ==
  ASSUME NEW n \in Objects, ~Alive(n), Alive(n)', Held(n)',
         \A o \in Objects \ {n} : Alive(o)' <=> Alive(o),
         \A o \in Objects \ {n} : Held(o)' => Held(o)
  PROVE  Lifetime!Next
  <1>1. \A o \in Objects : Holders(o)' \in SUBSET (Handles \cup Threads)
    BY DEF Holders
  <1>2. Lifetime!Create(n)
    BY <1>1 DEF Lifetime!Create, Lifetime!NoneFromNothing, Alive, Held
  <1> QED BY <1>2 DEF Lifetime!Next

LEMMA Destroys ==
  ASSUME NEW d \in Objects, Alive(d), ~Held(d), ~Alive(d)',
         \A o \in Objects \ {d} : Alive(o)' <=> Alive(o),
         UNCHANGED <<data, stale, drop>>
  PROVE  Lifetime!Next
  <1>1. \A o \in Objects : Holders(o)' = Holders(o)
    BY DEF Holders
  <1>2. Lifetime!Destroy(d)
    BY <1>1 DEF Lifetime!Destroy, Alive, Held
  <1> QED BY <1>2 DEF Lifetime!Next

\* A step that leaves heap and clone alone shares.
LEMMA SharesQuietly ==
  ASSUME UNCHANGED <<heap, clone>>, \A o \in Objects : Held(o)' => Held(o)
  PROVE  Lifetime!Next
  BY Shares DEF Alive

LEMMA MakeCreates ==
  ASSUME IInv, NEW t \in Threads, NEW h \in Locals, NEW n \in Objects, Make(t, h, n)
  PROVE  Lifetime!Next
  <1>1. /\ \A o \in Objects : heap'[o] = IF o = n THEN "live" ELSE heap[o]
        /\ heap[n] = "free" /\ clone' = clone
    BY DEF Make, registers, IInv, Shape
  <1>2. \A u \in Threads : clone[u] # n
    BY <1>1, DistinctAssumption DEF IInv, CloneOwn
  <1>3. ~Alive(n) /\ Alive(n)' /\ \A o \in Objects \ {n} : Alive(o)' <=> Alive(o)
    BY <1>1, <1>2 DEF Alive
  <1> QED BY <1>3, MakeHeld, Creates

\* The new node is allocated, and nobody knows of it.
LEMMA CowCloneShares ==
  ASSUME IInv, NEW t \in Threads, NEW h \in Locals, NEW n \in Objects, CowClone(t, h, n)
  PROVE  Lifetime!Next
  <1> USE DistinctAssumption
  <1>1. /\ \A o \in Objects : heap'[o] = IF o = n THEN "live" ELSE heap[o]
        /\ \A u \in Threads : clone'[u] = IF u = t THEN n ELSE clone[u]
        /\ heap[n] = "free" /\ clone[t] = None
        /\ UNCHANGED <<data, stale, drop>>
    BY DEF CowClone, Ready, IInv, Shape
  <1>2. \A o \in Objects : Alive(o)' <=> Alive(o)
    BY <1>1 DEF Alive
  <1>3. SameHeld
    BY <1>1, UntouchedHeld
  <1> QED BY <1>2, <1>3, Shares DEF SameHeld

LEMMA CloneDoneCreates ==
  ASSUME IInv, NEW t \in Threads, CloneDone(t)
  PROVE  Lifetime!Next
  <1> USE DistinctAssumption
  <1>1. PICK n \in Objects : n = clone[t]
    BY DEF CloneDone, IInv, Shape
  <1>2. /\ heap' = heap /\ heap[n] = "live"
        /\ \A u \in Threads : clone'[u] = IF u = t THEN None ELSE clone[u]
        /\ \A u \in Threads : clone[u] = n => u = t
    BY <1>1 DEF CloneDone, IInv, Shape, CloneOwn
  <1>3. ~Alive(n) /\ Alive(n)' /\ \A o \in Objects \ {n} : Alive(o)' <=> Alive(o)
    BY <1>1, <1>2 DEF Alive
  <1> QED BY <1>1, <1>3, CloneDoneHeld, Creates

\* The destructor has begun, but it has not returned.
LEMMA DecCounterShares ==
  ASSUME IInv, NEW t \in Threads, DecCounter(t)
  PROVE  Lifetime!Next
  <1> USE DistinctAssumption
  <1>1. PICK d \in Objects : d = drop[t]
    BY DEF DecCounter, IInv, Shape
  <1>2. heap[d] = "live"
    BY <1>1, HeldIsLive DEF Holders
  <1>3. clone' = clone /\ \A o \in Objects : heap'[o] = "free" <=> heap[o] = "free"
    BY <1>1, <1>2 DEF DecCounter, IInv, Shape
  <1>4. \A o \in Objects : Alive(o)' <=> Alive(o)
    BY <1>3 DEF Alive
  <1> QED BY <1>1, <1>4, DecCounterHeld, Shares

LEMMA DeallocateDestroys ==
  ASSUME IInv, NEW t \in Threads, Deallocate(t)
  PROVE  Lifetime!Next
  <1> USE DistinctAssumption
  <1>1. PICK r \in Objects : r = reap[t] /\ heap[r] = "dying"
    BY DEF Deallocate, IInv, Shape, Reaping
  <1>2. /\ \A o \in Objects : heap'[o] = IF o = r THEN "free" ELSE heap[o]
        /\ UNCHANGED <<clone, data, stale, drop>>
    BY <1>1 DEF Deallocate, IInv, Shape
  <1>3. ~Held(r)
    BY <1>1, HeldIsLive DEF Held
  <1>4. \A u \in Threads : clone[u] # r
    BY <1>1 DEF IInv, CloneOwn
  <1>5. Alive(r) /\ ~Alive(r)' /\ \A o \in Objects \ {r} : Alive(o)' <=> Alive(o)
    BY <1>1, <1>2, <1>4 DEF Alive
  <1> QED BY <1>2, <1>3, <1>5, Destroys

\* Every step.
LEMMA NextKeepsPromise ==
  ASSUME IInv, [Next]_vars
  PROVE  Lifetime!Next
  <1>1. CASE UNCHANGED vars
    BY <1>1, UntouchedHeld, SharesQuietly DEF vars, registers, SameHeld
  <1>2. ASSUME NEW t \in Threads, Operation(t) PROVE Lifetime!Next
    <2>1. ASSUME NEW h \in Locals, NEW o \in Objects, Make(t, h, o) \/ CowClone(t, h, o)
          PROVE  Lifetime!Next
      BY <2>1, MakeCreates, CowCloneShares
    <2>2. ASSUME NEW h \in Handles, NEW s \in Handles,
                 CopyAssign(t, h, s) \/ MoveAssign(t, h, s) \/ Swap(t, h, s)
          PROVE  Lifetime!Next
      <3>1. SameHeld
        BY <2>2, CopyAssignHeld, MoveAssignHeld, SwapHeld
      <3>2. UNCHANGED <<heap, clone>>
        BY <2>2 DEF CopyAssign, MoveAssign, Swap, registers
      <3> QED BY <3>1, <3>2, SharesQuietly DEF SameHeld
    <2>3. ASSUME NEW h \in Locals, Destruct(t, h) \/ Reset(t, h) \/ CowUnique(t, h)
          PROVE  Lifetime!Next
      <3>1. SameHeld
        BY <2>3, DestructHeld, ResetHeld, UntouchedHeld DEF CowUnique
      <3>2. UNCHANGED <<heap, clone>>
        BY <2>3 DEF Destruct, Reset, CowUnique
      <3> QED BY <3>1, <3>2, SharesQuietly DEF SameHeld
    <2>4. ASSUME EndWrite(t) PROVE Lifetime!Next
      BY <2>4, UntouchedHeld, SharesQuietly DEF EndWrite, SameHeld
    <2>5. ASSUME NEW u \in Threads, NEW h \in Locals, Handover(t, u, h) PROVE Lifetime!Next
      BY <2>5, UntouchedHeld, SharesQuietly DEF Handover, registers, SameHeld
    <2> QED BY <1>2, <2>1, <2>2, <2>3, <2>4, <2>5 DEF Operation
  <1>3. ASSUME NEW t \in Threads, Continue(t) PROVE Lifetime!Next
    <2>1. ASSUME NEW f \in Fields, DestructField(t, f) \/ CloneField(t, f) PROVE Lifetime!Next
      <3>1. SameHeld
        BY <2>1, DestructFieldHeld, CloneFieldHeld
      <3>2. UNCHANGED <<heap, clone>>
        BY <2>1 DEF DestructField, CloneField
      <3> QED BY <3>1, <3>2, SharesQuietly DEF SameHeld
    <2>2. ASSUME IncCounter(t) PROVE Lifetime!Next
      BY <2>2, UntouchedHeld, SharesQuietly DEF IncCounter, SameHeld
    <2>3. ASSUME ResetDone(t) PROVE Lifetime!Next
      <3>1. UNCHANGED <<heap, clone>>
        BY <2>3 DEF ResetDone
      <3> QED BY <2>3, <3>1, ResetDoneHeld, SharesQuietly DEF SameHeld
    <2> QED BY <1>3, <2>1, <2>2, <2>3, CloneDoneCreates, DecCounterShares,
               DeallocateDestroys DEF Continue
  <1> QED BY <1>1, <1>2, <1>3 DEF Next

\* The handles, counters and destructors implement the safety half of the
\* promise, for any number of threads and objects: an object is destroyed once
\* nothing refers to it, never referred to again, and what refers to an object
\* finds it constructed (object.h:41-160).
THEOREM PromiseIsKept == Safe => Lifetime!Safe
  <1>1. Init => Lifetime!Init
    BY DistinctAssumption DEF Init, Lifetime!Init, Holders
  <1>2. IInv /\ [Next]_vars => [Lifetime!Next]_Lifetime!vars
    BY NextKeepsPromise
  <1> QED BY <1>1, <1>2, Invariant, PTL DEF Safe, Lifetime!Safe
=============================================================================
