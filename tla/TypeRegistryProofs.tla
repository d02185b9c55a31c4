-------------------------- MODULE TypeRegistryProofs --------------------------
(***************************************************************************)
(* Proofs about TypeRegistry, for any threads and any tree of classes.     *)
(*                                                                         *)
(* The invariant has three parts.  Registry: what is recorded of the       *)
(* classes that have an index.  Stacks: the statics a thread is on its way *)
(* to climb towards the root, so that a guard is never asked for twice and *)
(* the parent's index is there when a class gets its own.  InCall: where   *)
(* each thread stands in its call; the climb of IsFrom is at an ancestor   *)
(* of the object's class that has the same answer.                         *)
(***************************************************************************)
EXTENDS TypeRegistry, FiniteSetTheorems, SequenceTheorems, WellFoundedInduction, TLAPS

Depth == CHOOSE depth \in [Nodes -> 0..Cardinality(Classes)] :
           \A c \in Classes : depth[Parent[c]] < depth[c]

Known(c) == c = Root \/ cached[c] # None

-----------------------------------------------------------------------------
(* Registry. *)

\* An index of its own for every class: static ones below Dynamic, allocated
\* ones from Dynamic up to the counter.
Indexed ==
  /\ names = cached
  /\ \A c \in Classes : cached[c] # None =>
       IF Static[c] = Dynamic THEN cached[c] \in Dynamic..(counter - 1)
       ELSE cached[c] = Static[c]
  /\ \A c, d \in Classes : cached[c] # None /\ cached[c] = cached[d] => c = d

\* The parent of a class got its index first.
Recorded ==
  \A c \in Classes : cached[c] # None =>
    /\ Known(Parent[c])
    /\ parent[cached[c]] = IndexOf(Parent[c])
    /\ IndexOf(Parent[c]) < cached[c]

Allocated == {c \in Classes : Static[c] = Dynamic /\ cached[c] # None}

Counted == counter = Dynamic + Cardinality(Allocated)

MadeKnown == \A c \in made : cached[c] # None

Registry == Indexed /\ Recorded /\ Counted /\ MadeKnown

-----------------------------------------------------------------------------
(* Stacks. *)

\* A guard is held for a static not initialised yet, on the way of its owner.
Guarded ==
  \A c \in Classes : guard[c] # None =>
    cached[c] = None /\ \E k \in 1..Len(need[guard[c]]) : need[guard[c]][k] = c

Upward(t) == \A k \in 1..(Len(need[t]) - 1) : need[t][k + 1] = Parent[need[t][k]]

Descends(t) ==
  \A j, k \in 1..Len(need[t]) : j < k => Depth[need[t][k]] < Depth[need[t][j]]

ParentKnown(t) ==
  need[t] # <<>> /\ guard[Wants(t)] = t => Known(Parent[Wants(t)])

Stacks == Guarded /\ \A t \in Threads : Upward(t) /\ Descends(t) /\ ParentKnown(t)

-----------------------------------------------------------------------------
(* Calls. *)

Goal(t) == IF need[t] = <<>> THEN Known(op[t].class) ELSE need[t][1] = op[t].class

\* The climb of t has come to x, whose ancestors decide as the object's do.
Climbing(t) ==
  \E x \in Nodes :
    /\ Known(x) /\ at[t] = IndexOf(x)
    /\ op[t].class \in Ancestors(op[t].object) <=> op[t].class \in Ancestors(x)

InIsFrom(t) ==
  /\ op[t].object \in made
  /\ found[t] = None
  /\ Goal(t)
  /\ at[t] # None =>
       /\ need[t] = <<>> /\ mutex = t /\ answer[t] = None
       /\ Source(t) > Target(t)
       /\ Climbing(t)
  /\ answer[t] # None =>
       /\ need[t] = <<>>
       /\ answer[t] = "yes" <=> op[t].class \in Ancestors(op[t].object)

InMake(t) == at[t] = None /\ answer[t] = None /\ found[t] = None /\ Goal(t)

Outside(t) == need[t] = <<>> /\ at[t] = None /\ answer[t] = None

InCall(t) ==
  /\ op[t] = None => Outside(t) /\ found[t] = None
  /\ op[t] # None /\ op[t].do = "index" => Outside(t)
  /\ op[t] # None /\ op[t].do = "make" => InMake(t)
  /\ op[t] # None /\ op[t].do = "isFrom" => InIsFrom(t)

\* Who holds the mutex is climbing or initialises the static it wants.
Holding ==
  mutex # None =>
    at[mutex] # None \/ (need[mutex] # <<>> /\ guard[Wants(mutex)] = mutex)

IInv ==
  /\ TypeOK
  /\ Registry
  /\ Stacks
  /\ \A t \in Threads : InCall(t)
  /\ Holding

-----------------------------------------------------------------------------
(* The tree of classes. *)

LEMMA DepthDecreases ==
  /\ Depth \in [Nodes -> 0..Cardinality(Classes)]
  /\ \A c \in Classes : Depth[Parent[c]] < Depth[c]
  PROOF
  BY ClassAssumption DEF Depth

LEMMA Constants ==
  /\ None \notin Int /\ None \notin Threads /\ None \notin Nodes /\ None \notin Calls
  /\ None \notin {"yes", "no"} /\ Root \notin Classes
  /\ Dynamic \in Nat \ {0} /\ Cardinality(Classes) \in Nat /\ Top \in Nat
  /\ Static \in [Classes -> 1..Dynamic] /\ Parent \in [Classes -> Nodes]
  PROOF
  BY ClassAssumption, StaticAssumption, FS_CardinalityType DEF Top

\* A set that is closed under parents has the ancestors of its members.
LEMMA AncestorsLeast ==
  ASSUME NEW S \in SUBSET Nodes, NEW c \in S, \A d \in S \ {Root} : Parent[d] \in S
  PROVE  Ancestors(c) \subseteq S
  PROOF
  BY DEF Ancestors

LEMMA AncestorsSelf ==
  ASSUME NEW c \in Nodes
  PROVE  c \in Ancestors(c) /\ Ancestors(c) \subseteq Nodes
  PROOF
  BY DEF Ancestors

LEMMA AncestorsClosed ==
  ASSUME NEW c \in Nodes, NEW d \in Ancestors(c) \ {Root}
  PROVE  Parent[d] \in Ancestors(c)
  PROOF
  <1>1. Parent[d] \in Nodes
    BY AncestorsSelf, Constants DEF Nodes
  <1> QED BY <1>1 DEF Ancestors

LEMMA AncestorsStep ==
  ASSUME NEW c \in Classes
  PROVE  Ancestors(c) = {c} \cup Ancestors(Parent[c])
  PROOF
  <1> DEFINE U == {c} \cup Ancestors(Parent[c])
  <1>1. c \in Nodes \ {Root} /\ Parent[c] \in Nodes
    BY Constants DEF Nodes
  <1>2. U \in SUBSET Nodes /\ c \in U
    BY <1>1, AncestorsSelf
  <1>3. \A d \in U \ {Root} : Parent[d] \in U
    BY <1>1, AncestorsSelf, AncestorsClosed
  <1>4. Ancestors(c) \subseteq U
    <2> HIDE DEF U
    <2> QED BY <1>2, <1>3, AncestorsLeast
  <1>5. c \in Ancestors(c) /\ Parent[c] \in Ancestors(c)
    BY <1>1, AncestorsSelf, AncestorsClosed
  <1>6. Ancestors(Parent[c]) \subseteq Ancestors(c)
    BY <1>1, <1>5, AncestorsSelf, AncestorsClosed, AncestorsLeast
  <1> QED BY <1>4, <1>5, <1>6

-----------------------------------------------------------------------------
(* Stacks as sequences. *)

LEMMA StackFacts ==
  ASSUME NEW s \in Seq(Classes)
  PROVE  /\ Len(s) \in Nat /\ (s # <<>> <=> Len(s) > 0)
         /\ \A k \in 1..Len(s) : s[k] \in Classes
  PROOF
  BY EmptySeq, LenProperties, ElementOfSeq

LEMMA NoStack == <<>> \in Seq(Classes) /\ Len(<<>>) = 0
  PROOF
  OBVIOUS

LEMMA Pushed ==
  ASSUME NEW s \in Seq(Classes), NEW c \in Classes
  PROVE  /\ Append(s, c) \in Seq(Classes) /\ Append(s, c) # <<>>
         /\ Len(Append(s, c)) = Len(s) + 1
         /\ \A k \in 1..Len(s) : Append(s, c)[k] = s[k]
         /\ Append(s, c)[Len(s) + 1] = c
  PROOF
  BY AppendProperties

LEMMA Popped ==
  ASSUME NEW s \in Seq(Classes), s # <<>>
  PROVE  /\ Front(s) \in Seq(Classes)
         /\ Len(Front(s)) = Len(s) - 1
         /\ \A k \in 1..(Len(s) - 1) : Front(s)[k] = s[k]
  PROOF
  <1> DEFINE n == Len(s) - 1
  <1>1. n \in Nat /\ Len(s) = n + 1 /\ \A k \in 1..n : s[k] \in Classes
    BY StackFacts
  <1>2. Front(s) = SubSeq(s, 1, n)
    BY DEF Front
  <1> HIDE DEF n
  <1>3. /\ Front(s) \in Seq(Classes)
        /\ Len(Front(s)) = IF 1 <= n THEN n - 1 + 1 ELSE 0
        /\ \A k \in 1..(n - 1 + 1) : Front(s)[k] = s[1 + k - 1]
    BY <1>1, <1>2, SubSeqProperties
  <1>4. Len(Front(s)) = n
    BY <1>1, <1>3
  <1>5. ASSUME NEW k \in 1..n PROVE Front(s)[k] = s[k]
    <2>1. k \in 1..(n - 1 + 1) /\ 1 + k - 1 = k
      BY <1>1
    <2> QED BY <1>3, <2>1
  <1> QED BY <1>3, <1>4, <1>5 DEF n

LEMMA PoppedEmpty ==
  ASSUME NEW s \in Seq(Classes), s # <<>>
  PROVE  (Len(s) = 1 => Front(s) = <<>>) /\ (Len(s) # 1 => Front(s) # <<>>)
  PROOF
  <1>1. Front(s) \in Seq(Classes) /\ Len(Front(s)) = Len(s) - 1 /\ Len(s) \in Nat
    BY Popped, StackFacts
  <1>2. Front(s) = <<>> <=> Len(Front(s)) = 0
    BY <1>1, StackFacts
  <1> QED BY <1>1, <1>2

LEMMA Single ==
  ASSUME NEW c \in Classes
  PROVE  <<c>> \in Seq(Classes) /\ <<c>> # <<>> /\ Len(<<c>>) = 1 /\ <<c>>[1] = c
  PROOF
  OBVIOUS

\* What a thread wants is a class.
LEMMA WantsClass ==
  ASSUME TypeOK, NEW t \in Threads, need[t] # <<>>
  PROVE  /\ Wants(t) \in Classes /\ Len(need[t]) \in Nat \ {0}
         /\ \A k \in 1..Len(need[t]) : need[t][k] \in Classes
  PROOF
  <1>1. need[t] \in Seq(Classes)
    BY DEF TypeOK
  <1> QED BY <1>1, StackFacts DEF Wants

-----------------------------------------------------------------------------
(* What a step leaves alone. *)

Grows == \A c \in Classes : cached[c] # None => cached'[c] = cached[c]

\* An index that is known stays what it is.
LEMMA IndexStays ==
  ASSUME Grows, NEW x \in Nodes, Known(x)
  PROVE  Known(x)' /\ IndexOf(x)' = IndexOf(x)
  PROOF
  BY Constants DEF Grows, Known, IndexOf, Nodes

LEMMA RegistryKept ==
  ASSUME Registry, UNCHANGED <<context, cached>>, \A c \in made' : cached[c] # None
  PROVE  Registry'
  PROOF
  BY DEF context, Registry, Indexed, Recorded, Counted, MadeKnown, Allocated, Known, IndexOf

LEMMA StacksKept == Stacks /\ UNCHANGED statics => Stacks'
  PROOF
  BY DEF statics, Stacks, Guarded, Upward, Descends, ParentKnown, Wants, Known

\* The stack of a thread that did not move.
LEMMA StackStays ==
  ASSUME TypeOK, Grows, NEW u \in Threads, Upward(u), Descends(u), ParentKnown(u),
         need'[u] = need[u],
         need[u] # <<>> /\ guard'[Wants(u)] = u => guard[Wants(u)] = u
  PROVE  Upward(u)' /\ Descends(u)' /\ ParentKnown(u)'
  PROOF
  <1>1. Upward(u)' /\ Descends(u)'
    BY DEF Upward, Descends
  <1>2. ParentKnown(u)'
    <2> SUFFICES ASSUME need[u] # <<>>, guard'[Wants(u)] = u PROVE Known(Parent[Wants(u)])'
      BY DEF ParentKnown, Wants
    <2>1. Parent[Wants(u)] \in Nodes /\ Known(Parent[Wants(u)])
      BY WantsClass, Constants DEF ParentKnown
    <2> QED BY <2>1, Constants DEF Grows, Known, Nodes, Wants
  <1> QED BY <1>1, <1>2

\* The call of a thread that did not move.
LEMMA CallStays ==
  ASSUME TypeOK, MadeKnown, Grows, NEW u \in Threads, InCall(u), need'[u] = need[u],
         op'[u] = op[u], at'[u] = at[u], answer'[u] = answer[u], found'[u] = found[u],
         made \subseteq made', mutex = u => mutex' = u
  PROVE  InCall(u)'
  PROOF
  <1>1. op[u] \in Calls \cup {None}
    BY DEF TypeOK
  <1>2. CASE op[u] = None \/ op[u].do = "index"
    BY <1>1, <1>2, Constants DEF InCall, Outside, Calls
  <1>3. ASSUME op[u] # None, op[u].do \in {"make", "isFrom"}, Goal(u) PROVE Goal(u)'
    <2>1. op[u].class \in Nodes
      BY <1>1, <1>3 DEF Calls, Nodes
    <2> QED BY <1>3, <2>1 DEF Goal, Known, Grows, Nodes
  <1>4. CASE op[u] # None /\ op[u].do = "make"
    BY <1>3, <1>4 DEF InCall, InMake
  <1>5. CASE op[u] # None /\ op[u].do = "isFrom"
    <2>1. op[u].class \in Nodes /\ op[u].object \in Nodes
      BY <1>1, <1>5 DEF Calls, Nodes
    <2>2. InIsFrom(u)
      BY <1>5 DEF InCall
    <2>3. op'[u].object \in made' /\ found'[u] = None /\ Goal(u)'
      BY <1>3, <1>5, <2>2 DEF InIsFrom
    <2>4. ASSUME at[u] # None
          PROVE  need'[u] = <<>> /\ mutex' = u /\ answer'[u] = None
                   /\ (Source(u) > Target(u))' /\ Climbing(u)'
      <3>1. Known(op[u].object)
        BY <2>2 DEF InIsFrom, MadeKnown, Known
      <3>2. Known(op[u].class)
        BY <2>2, <2>4 DEF InIsFrom, Goal
      <3>3. Source(u)' = Source(u) /\ Target(u)' = Target(u)
        BY <2>1, <3>1, <3>2, IndexStays DEF Source, Target
      <3>4. Climbing(u)'
        BY <2>2, <2>4, IndexStays DEF InIsFrom, Climbing
      <3> QED BY <2>2, <2>4, <3>3, <3>4 DEF InIsFrom
    <2>5. answer[u] # None =>
            need'[u] = <<>> /\ (answer'[u] = "yes" <=> op'[u].class \in Ancestors(op'[u].object))
      BY <2>2 DEF InIsFrom
    <2>6. InIsFrom(u)'
      BY <2>3, <2>4, <2>5 DEF InIsFrom
    <2> QED BY <1>5, <2>6 DEF InCall
  <1>6. op[u] = None \/ op[u].do \in {"index", "make", "isFrom"}
    BY <1>1 DEF Calls
  <1> QED BY <1>2, <1>4, <1>5, <1>6

-----------------------------------------------------------------------------
(* The invariant: calls begin. *)

LEMMA InitInvariant == Init => IInv
  PROOF
  <1> SUFFICES ASSUME Init PROVE IInv
    OBVIOUS
  <1> USE DEF Init
  <1>1. TypeOK
    BY Constants, EmptySeq DEF TypeOK, Top
  <1>2. Registry
    <2>1. Indexed /\ Recorded /\ MadeKnown
      BY DEF Indexed, Recorded, MadeKnown
    <2>2. Allocated = {}
      BY DEF Allocated
    <2>3. Counted
      BY <2>2, FS_EmptySet, Constants DEF Counted
    <2> QED BY <2>1, <2>3 DEF Registry
  <1>3. Stacks
    BY EmptySeq, Constants DEF Stacks, Guarded, Upward, Descends, ParentKnown
  <1>4. (\A t \in Threads : InCall(t)) /\ Holding
    BY DEF InCall, Outside, Holding
  <1> QED BY <1>1, <1>2, <1>3, <1>4 DEF IInv

\* A thread starts on the way to the static of a class, or to none for Root.
LEMMA StartsInvariant ==
  ASSUME IInv, NEW t \in Threads, NEW c \in Nodes, op[t] = None, NEW what \in Calls,
         what.class = c, what.do \in {"make", "isFrom"},
         what.do = "isFrom" => what.object \in made,
         op' = [op EXCEPT ![t] = what],
         need' = [need EXCEPT ![t] = IF c = Root THEN <<>> ELSE <<c>>],
         UNCHANGED <<context, mutex, guard, cached, at, answer, found, made>>
  PROVE  IInv'
  PROOF
  <1> USE DEF IInv
  <1>1. Outside(t) /\ found[t] = None
    BY DEF InCall
  <1>2. /\ need'[t] \in Seq(Classes) /\ Len(need'[t]) \in {0, 1}
        /\ need'[t] # <<>> => Wants(t)' \in Classes
    <2>1. need'[t] = IF c = Root THEN <<>> ELSE <<c>>
      BY DEF TypeOK
    <2>2. CASE c = Root
      BY <2>1, <2>2, NoStack
    <2>3. CASE c # Root
      BY <2>1, <2>3, Single DEF Nodes, Wants
    <2> QED BY <2>2, <2>3
  <1>3. need' = [need EXCEPT ![t] = need'[t]]
    BY DEF TypeOK
  <1>4. TypeOK'
    BY <1>2, <1>3 DEF TypeOK, context
  <1>5. Registry'
    BY RegistryKept DEF Registry, MadeKnown
  <1>6. Grows
    BY DEF Grows
  <1>7. \A d \in Classes : guard[d] # t
    BY <1>1, EmptySeq, Constants DEF Stacks, Guarded, Outside
  <1>8. Stacks'
    <2>1. Guarded'
      BY <1>7 DEF TypeOK, Stacks, Guarded
    <2>2. ASSUME NEW u \in Threads PROVE Upward(u)' /\ Descends(u)' /\ ParentKnown(u)'
      <3>1. CASE u = t
        <4>1. Upward(t)' /\ Descends(t)'
          BY <1>2 DEF Upward, Descends
        <4>2. ParentKnown(t)'
          BY <1>2, <1>7 DEF ParentKnown
        <4> QED BY <3>1, <4>1, <4>2
      <3>2. CASE u # t
        BY <1>6, <3>2, StackStays DEF TypeOK, Stacks
      <3> QED BY <3>1, <3>2
    <2> QED BY <2>1, <2>2 DEF Stacks
  <1>9. ASSUME NEW u \in Threads PROVE InCall(u)'
    <2>1. CASE u = t
      <3>1. op'[t] = what /\ what # None
        BY Constants DEF TypeOK
      <3>2. need'[t] = IF c = Root THEN <<>> ELSE <<c>>
        BY DEF TypeOK
      <3>3. Goal(t)'
        BY <3>1, <3>2, Single DEF Goal, Known, Nodes
      <3> QED BY <1>1, <2>1, <3>1, <3>3 DEF InCall, InMake, InIsFrom, Outside
    <2>2. CASE u # t
      BY <1>6, <2>2, CallStays DEF TypeOK, Registry
    <2> QED BY <2>1, <2>2
  <1>10. Holding'
    BY <1>1, <1>7, WantsClass DEF TypeOK, Holding, Outside, Wants
  <1> QED BY <1>4, <1>5, <1>8, <1>9, <1>10

LEMMA MakeObjectInvariant ==
  ASSUME IInv, NEW t \in Threads, NEW c \in Classes, MakeObject(t, c)
  PROVE  IInv'
  PROOF
  <1> DEFINE what == [do |-> "make", class |-> c]
  <1>1. what \in Calls /\ what.class = c /\ what.do = "make" /\ c \in Nodes /\ c # Root
    BY Constants DEF Calls, Nodes
  <1>2. op[t] = None /\ op' = [op EXCEPT ![t] = what] /\ need' = [need EXCEPT ![t] = <<c>>]
          /\ UNCHANGED <<context, mutex, guard, cached, at, answer, found, made>>
    BY DEF MakeObject, Idle
  <1> HIDE DEF what
  <1> QED BY <1>1, <1>2, StartsInvariant

LEMMA IsTypeInvariant ==
  ASSUME IInv, NEW t \in Threads, NEW o \in Classes, NEW c \in Nodes, IsType(t, o, c)
  PROVE  IInv'
  PROOF
  <1> DEFINE what == [do |-> "isFrom", class |-> c, object |-> o]
  <1>1. what \in Calls /\ what.class = c /\ what.do = "isFrom" /\ what.object = o
    BY DEF Calls, Nodes
  <1>2. op[t] = None /\ op' = [op EXCEPT ![t] = what] /\ o \in made
          /\ need' = [need EXCEPT ![t] = IF c = Root THEN <<>> ELSE <<c>>]
          /\ UNCHANGED <<context, mutex, guard, cached, at, answer, found, made>>
    BY DEF IsType, Idle
  <1> HIDE DEF what
  <1> QED BY <1>1, <1>2, StartsInvariant

\* A step that leaves the registry, the statics and the other threads alone.
LEMMA LocalInvariant ==
  ASSUME IInv, NEW t \in Threads, TypeOK', UNCHANGED <<context, statics>>,
         \A c \in made' : cached[c] # None, made \subseteq made',
         \A u \in Threads \ {t} :
           /\ op'[u] = op[u] /\ at'[u] = at[u] /\ answer'[u] = answer[u] /\ found'[u] = found[u]
           /\ mutex = u => mutex' = u,
         InCall(t)', Holding'
  PROVE  IInv'
  PROOF
  <1> USE DEF IInv
  <1>1. Registry' /\ Stacks'
    BY RegistryKept, StacksKept DEF statics
  <1>2. ASSUME NEW u \in Threads PROVE InCall(u)'
    <2>1. CASE u # t
      <3>1. need'[u] = need[u] /\ Grows /\ MadeKnown
        BY DEF statics, Grows, Registry
      <3> QED BY <2>1, <3>1, CallStays
    <2> QED BY <2>1
  <1> QED BY <1>1, <1>2

LEMMA IndexInvariant ==
  ASSUME IInv, NEW t \in Threads, NEW c \in Classes, Index(t, c)
  PROVE  IInv'
  PROOF
  <1> USE DEF IInv
  <1>1. op[t] = None /\ op' = [op EXCEPT ![t] = [do |-> "index", class |-> c]]
          /\ UNCHANGED <<context, mutex, statics, at, answer, made>>
    BY DEF Index, Idle
  <1>2. PICK i \in (-1)..Top : found' = [found EXCEPT ![t] = i]
    <2>1. names[c] \in (0..Top) \cup {None} /\ Top \in Nat
      BY Constants DEF TypeOK
    <2>2. PICK i \in {IF names[c] = None THEN -1 ELSE names[c]}
                       \cup IF Inserting THEN {-1, Top} ELSE {} :
            found' = [found EXCEPT ![t] = i]
      BY DEF Index
    <2>3. i \in (-1)..Top
      BY <2>1, <2>2
    <2> QED BY <2>2, <2>3
  <1>3. TypeOK'
    BY <1>1, <1>2 DEF TypeOK, context, statics, Calls
  <1>4. Outside(t)
    BY <1>1 DEF InCall
  <1>5. InCall(t)'
    <2>1. op'[t] # None /\ op'[t].do = "index"
      BY <1>1, <1>3, Constants DEF TypeOK, Calls
    <2> QED BY <1>1, <1>4, <2>1 DEF InCall, Outside, statics
  <1>6. Holding'
    BY <1>1 DEF Holding, Wants, statics
  <1> QED BY <1>1, <1>2, <1>3, <1>5, <1>6, LocalInvariant DEF TypeOK, Registry, MadeKnown

-----------------------------------------------------------------------------
(* The invariant: calls go on. *)

\* What a call works with: known classes, and an index for each.
LEMMA IsFromFacts ==
  ASSUME IInv, NEW t \in Threads, op[t] # None, op[t].do = "isFrom"
  PROVE  /\ op[t].class \in Nodes /\ op[t].object \in Classes
         /\ Known(op[t].object) /\ InIsFrom(t)
         /\ Source(t) = cached[op[t].object]
         /\ need[t] = <<>> => Known(op[t].class)
  PROOF
  <1> USE DEF IInv
  <1>1. op[t] \in Calls
    BY DEF TypeOK
  <1>2. op[t].class \in Nodes /\ op[t].object \in Classes
    BY <1>1 DEF Calls
  <1>3. InIsFrom(t)
    BY DEF InCall
  <1>4. cached[op[t].object] # None
    BY <1>3 DEF InIsFrom, Registry, MadeKnown
  <1>5. Source(t) = cached[op[t].object]
    BY <1>2, <1>4, Constants DEF Source, IndexOf, Registry, Indexed
  <1> QED BY <1>2, <1>3, <1>4, <1>5 DEF InIsFrom, Goal, Known

\* The index of a known class; only Root has 0.
LEMMA IndexFacts ==
  ASSUME IInv, NEW x \in Nodes, Known(x)
  PROVE  /\ IndexOf(x) \in 0..Top
         /\ x = Root => IndexOf(x) = 0
         /\ x # Root => x \in Classes /\ IndexOf(x) = cached[x] /\ IndexOf(x) > 0
         /\ \A y \in Nodes : Known(y) /\ IndexOf(y) = IndexOf(x) => x = y
  PROOF
  <1> USE DEF IInv, Registry
  <1>1. ASSUME NEW c \in Classes, cached[c] # None
        PROVE  IndexOf(c) = cached[c] /\ cached[c] \in 1..Top
    <2>1. cached[c] \in 0..Top /\ Static[c] \in 1..Dynamic
      BY <1>1, Constants DEF TypeOK
    <2>2. IndexOf(c) = cached[c]
      BY <1>1, Constants DEF IndexOf, Indexed
    <2>3. cached[c] > 0
      BY <1>1, <2>1, Constants DEF Indexed
    <2> QED BY <2>1, <2>2, <2>3, Constants
  <1>2. IndexOf(Root) = 0 /\ 0 \in 0..Top
    BY Constants DEF IndexOf
  <1>3. \A y \in Nodes : Known(y) /\ IndexOf(y) = IndexOf(x) => x = y
    BY <1>1, <1>2 DEF Known, Nodes, Indexed
  <1>4. CASE x = Root
    BY <1>2, <1>3, <1>4
  <1>5. CASE x # Root
    <2>1. x \in Classes /\ cached[x] # None
      BY <1>5 DEF Known, Nodes
    <2> QED BY <1>1, <1>3, <1>5, <2>1, Constants
  <1> QED BY <1>4, <1>5

\* No ancestor of a known class has a larger index.
LEMMA AncestorsBelow ==
  ASSUME IInv, NEW x \in Nodes, Known(x), NEW c \in Ancestors(x)
  PROVE  Known(c) /\ IndexOf(c) <= IndexOf(x)
  PROOF
  <1> DEFINE S == {y \in Nodes : Known(y) /\ IndexOf(y) <= IndexOf(x)}
  <1>1. x \in S
    BY IndexFacts, Constants
  <1>2. ASSUME NEW y \in S \ {Root} PROVE Parent[y] \in S
    <2>1. y \in Classes /\ cached[y] # None /\ Parent[y] \in Nodes
      BY Constants DEF Nodes, Known
    <2>2. Known(Parent[y]) /\ IndexOf(Parent[y]) < cached[y]
      BY <2>1 DEF IInv, Registry, Recorded
    <2>3. cached[y] = IndexOf(y) /\ IndexOf(y) \in Int /\ IndexOf(x) \in Int
            /\ IndexOf(Parent[y]) \in Int
      BY <2>1, <2>2, IndexFacts, Constants
    <2> QED BY <2>1, <2>2, <2>3
  <1>3. Ancestors(x) \subseteq S
    <2>1. S \in SUBSET Nodes
      OBVIOUS
    <2> HIDE DEF S
    <2> QED BY <1>1, <1>2, <2>1, AncestorsLeast
  <1> QED BY <1>3

\* The object is made: its class has its index.
LEMMA MadeInvariant ==
  ASSUME IInv, NEW t \in Threads, Made(t)
  PROVE  IInv'
  PROOF
  <1> USE DEF IInv
  <1>1. /\ op[t] # None /\ op[t].do = "make" /\ need[t] = <<>>
        /\ made' = made \cup {op[t].class} /\ op' = [op EXCEPT ![t] = None]
        /\ UNCHANGED <<context, mutex, statics, at, answer, found>>
    BY DEF Made, Calling
  <1>2. op[t] \in Calls /\ op[t].class \in Classes
    BY <1>1 DEF TypeOK, Calls
  <1>3. InMake(t)
    BY <1>1 DEF InCall
  <1>4. cached[op[t].class] # None
    BY <1>1, <1>2, <1>3, Constants DEF InMake, Goal, Known
  <1>5. TypeOK'
    BY <1>1, <1>2 DEF TypeOK, context, statics
  <1>6. InCall(t)'
    BY <1>1, <1>3 DEF InCall, InMake, Outside, TypeOK, statics
  <1>7. Holding'
    BY <1>1 DEF Holding, Wants, statics
  <1> QED BY <1>1, <1>4, <1>5, <1>6, <1>7, LocalInvariant DEF TypeOK, Registry, MadeKnown

\* Equal indices mean one class; a larger index is no ancestor's.
LEMMA CompareDecides ==
  ASSUME IInv, NEW x \in Nodes, NEW c \in Nodes, Known(x), Known(c), IndexOf(x) <= IndexOf(c)
  PROVE  c \in Ancestors(x) <=> IndexOf(x) = IndexOf(c)
  PROOF
  <1>1. ASSUME IndexOf(x) = IndexOf(c) PROVE c \in Ancestors(x)
    BY <1>1, IndexFacts, AncestorsSelf
  <1>2. ASSUME c \in Ancestors(x) PROVE IndexOf(x) = IndexOf(c)
    <2>1. IndexOf(c) <= IndexOf(x)
      BY <1>2, AncestorsBelow
    <2> QED BY <2>1, IndexFacts, Constants
  <1> QED BY <1>1, <1>2

LEMMA IsFromCompareInvariant ==
  ASSUME IInv, NEW t \in Threads, IsFromCompare(t)
  PROVE  IInv'
  PROOF
  <1> USE DEF IInv
  <1>1. /\ op[t] # None /\ op[t].do = "isFrom" /\ need[t] = <<>>
        /\ Source(t) <= Target(t)
        /\ answer' = [answer EXCEPT ![t] = IF Source(t) = Target(t) THEN "yes" ELSE "no"]
        /\ UNCHANGED <<context, mutex, statics, op, at, found, made>>
    BY DEF IsFromCompare, Calling
  <1>2. /\ op[t].class \in Nodes /\ op[t].object \in Nodes /\ InIsFrom(t)
        /\ Known(op[t].object) /\ Known(op[t].class)
    BY <1>1, IsFromFacts DEF Nodes
  <1>3. Source(t) \in Int /\ Target(t) \in Int
    BY <1>2, IndexFacts DEF Source, Target
  <1>4. at[t] = None
    BY <1>1, <1>2, <1>3 DEF InIsFrom
  <1>5. answer'[t] = "yes" <=> op[t].class \in Ancestors(op[t].object)
    <2>1. op[t].class \in Ancestors(op[t].object) <=> Source(t) = Target(t)
      BY <1>1, <1>2, CompareDecides DEF Source, Target
    <2>2. answer'[t] = IF Source(t) = Target(t) THEN "yes" ELSE "no"
      BY <1>1 DEF TypeOK
    <2> QED BY <2>1, <2>2
  <1>6. TypeOK'
    BY <1>1 DEF TypeOK, context, statics
  <1>7. InCall(t)'
    <2>1. InIsFrom(t)'
      BY <1>1, <1>2, <1>4, <1>5 DEF InIsFrom, Goal, Known, statics
    <2> QED BY <1>1, <2>1 DEF InCall
  <1>8. Holding'
    BY <1>1 DEF Holding, Wants, statics
  <1> QED BY <1>1, <1>6, <1>7, <1>8, LocalInvariant DEF TypeOK, Registry, MadeKnown

LEMMA IsFromLockInvariant ==
  ASSUME IInv, NEW t \in Threads, IsFromLock(t)
  PROVE  IInv'
  PROOF
  <1> USE DEF IInv
  <1>1. /\ op[t] # None /\ op[t].do = "isFrom" /\ need[t] = <<>> /\ answer[t] = None
        /\ Source(t) > Target(t) /\ mutex = None /\ mutex' = t
        /\ at' = [at EXCEPT ![t] = Source(t)]
        /\ UNCHANGED <<context, statics, op, answer, found, made>>
    BY DEF IsFromLock, Calling
  <1>2. /\ op[t].class \in Nodes /\ op[t].object \in Nodes /\ InIsFrom(t)
        /\ Known(op[t].object)
    BY <1>1, IsFromFacts DEF Nodes
  <1>3. Source(t) \in 0..Top
    BY <1>2, IndexFacts DEF Source
  <1>4. at'[t] = Source(t) /\ at'[t] # None
    BY <1>1, <1>3, Constants DEF TypeOK
  <1>5. TypeOK'
    BY <1>1, <1>3 DEF TypeOK, context, statics
  <1>6. InCall(t)'
    <2>1. Climbing(t)' /\ (Source(t) > Target(t))' /\ Goal(t)'
      BY <1>1, <1>2, <1>4
         DEF Climbing, Known, IndexOf, Source, Target, InIsFrom, Goal, context, statics
    <2>2. InIsFrom(t)'
      BY <1>1, <1>2, <2>1 DEF InIsFrom, statics
    <2> QED BY <1>1, <2>2 DEF InCall
  <1>7. Holding'
    BY <1>1, <1>4 DEF Holding
  <1>8. \A c \in made' : cached[c] # None
    BY <1>1 DEF Registry, MadeKnown
  <1>9. \A u \in Threads \ {t} :
          /\ op'[u] = op[u] /\ at'[u] = at[u] /\ answer'[u] = answer[u] /\ found'[u] = found[u]
          /\ mutex = u => mutex' = u
    BY <1>1, Constants DEF TypeOK
  <1> QED BY <1>1, <1>5, <1>6, <1>7, <1>8, <1>9, LocalInvariant

\* One step up: the parent is the class itself no more, but decides the same.
LEMMA IsFromClimbInvariant ==
  ASSUME IInv, NEW t \in Threads, IsFromClimb(t)
  PROVE  IInv'
  PROOF
  <1> USE DEF IInv
  <1>1. /\ at[t] # None /\ at[t] > Target(t) /\ at' = [at EXCEPT ![t] = parent[at[t]]]
        /\ UNCHANGED <<context, mutex, statics, op, answer, found, made>>
    BY DEF IsFromClimb
  <1>2. op[t] # None /\ op[t].do = "isFrom"
    BY <1>1 DEF InCall, Outside, InMake, TypeOK, Calls
  <1>3. /\ op[t].class \in Nodes /\ InIsFrom(t) /\ need[t] = <<>> /\ mutex = t
        /\ Known(op[t].class) /\ Climbing(t)
    BY <1>1, <1>2, IsFromFacts DEF InIsFrom
  <1>4. PICK x \in Nodes :
          /\ Known(x) /\ at[t] = IndexOf(x)
          /\ op[t].class \in Ancestors(op[t].object) <=> op[t].class \in Ancestors(x)
    BY <1>3 DEF Climbing
  <1>5. /\ IndexOf(x) \in 0..Top /\ IndexOf(op[t].class) \in 0..Top
        /\ IndexOf(x) > IndexOf(op[t].class)
    BY <1>1, <1>3, <1>4, IndexFacts DEF Target
  <1>6. x \in Classes /\ cached[x] # None /\ x # op[t].class /\ at[t] = cached[x]
    BY <1>4, <1>5, IndexFacts DEF Known
  <1>7. Parent[x] \in Nodes /\ Known(Parent[x]) /\ parent[at[t]] = IndexOf(Parent[x])
    BY <1>6, Constants DEF Registry, Recorded
  <1>8. op[t].class \in Ancestors(x) <=> op[t].class \in Ancestors(Parent[x])
    BY <1>6, AncestorsStep
  <1>9. at'[t] = IndexOf(Parent[x]) /\ at'[t] \in 0..Top
    BY <1>1, <1>7, IndexFacts DEF TypeOK
  <1>10. TypeOK'
    BY <1>1, <1>7, <1>9 DEF TypeOK, context, statics
  <1>11. InCall(t)'
    <2>1. Climbing(t)'
      BY <1>1, <1>4, <1>7, <1>8, <1>9 DEF Climbing, Known, IndexOf, context, statics
    <2>2. (Source(t) > Target(t))' /\ Goal(t)'
      BY <1>1, <1>3 DEF InIsFrom, Source, Target, IndexOf, Goal, Known, context, statics
    <2>3. InIsFrom(t)'
      BY <1>1, <1>3, <2>1, <2>2 DEF InIsFrom, statics
    <2> QED BY <1>1, <1>2, <2>3 DEF InCall
  <1>12. Holding'
    BY <1>1, <1>3, <1>9, Constants DEF Holding
  <1> QED BY <1>1, <1>10, <1>11, <1>12, LocalInvariant DEF TypeOK, Registry, MadeKnown

\* The climb ends at the class asked for, or below it.
LEMMA IsFromReturnInvariant ==
  ASSUME IInv, NEW t \in Threads, IsFromReturn(t)
  PROVE  IInv'
  PROOF
  <1> USE DEF IInv
  <1>1. /\ at[t] # None /\ at[t] <= Target(t) /\ mutex' = None
        /\ answer' = [answer EXCEPT ![t] = IF at[t] = Target(t) THEN "yes" ELSE "no"]
        /\ at' = [at EXCEPT ![t] = None]
        /\ UNCHANGED <<context, statics, op, found, made>>
    BY DEF IsFromReturn
  <1>2. op[t] # None /\ op[t].do = "isFrom"
    BY <1>1 DEF InCall, Outside, InMake, TypeOK, Calls
  <1>3. /\ op[t].class \in Nodes /\ InIsFrom(t) /\ need[t] = <<>> /\ mutex = t
        /\ Known(op[t].class) /\ Climbing(t)
    BY <1>1, <1>2, IsFromFacts DEF InIsFrom
  <1>4. PICK x \in Nodes :
          /\ Known(x) /\ at[t] = IndexOf(x)
          /\ op[t].class \in Ancestors(op[t].object) <=> op[t].class \in Ancestors(x)
    BY <1>3 DEF Climbing
  <1>5. answer'[t] = "yes" <=> op[t].class \in Ancestors(op[t].object)
    <2>1. op[t].class \in Ancestors(x) <=> at[t] = Target(t)
      BY <1>1, <1>3, <1>4, CompareDecides DEF Target
    <2>2. answer'[t] = IF at[t] = Target(t) THEN "yes" ELSE "no"
      BY <1>1 DEF TypeOK
    <2> QED BY <1>4, <2>1, <2>2
  <1>6. TypeOK'
    BY <1>1 DEF TypeOK, context, statics
  <1>7. InCall(t)'
    <2>1. at'[t] = None
      BY <1>1 DEF TypeOK
    <2>2. InIsFrom(t)'
      BY <1>1, <1>3, <1>5, <2>1 DEF InIsFrom, Goal, Known, statics
    <2> QED BY <1>1, <1>2, <2>2 DEF InCall
  <1>8. Holding'
    BY <1>1 DEF Holding
  <1> QED BY <1>1, <1>3, <1>6, <1>7, <1>8, LocalInvariant DEF TypeOK, Registry, MadeKnown

LEMMA ReturnInvariant ==
  ASSUME IInv, NEW t \in Threads, Return(t)
  PROVE  IInv'
  PROOF
  <1> USE DEF IInv
  <1>1. /\ answer[t] # None \/ found[t] # None
        /\ op' = [op EXCEPT ![t] = None]
        /\ answer' = [answer EXCEPT ![t] = None] /\ found' = [found EXCEPT ![t] = None]
        /\ UNCHANGED <<context, mutex, statics, at, made>>
    BY DEF Return
  <1>2. need[t] = <<>> /\ at[t] = None
    BY <1>1 DEF InCall, Outside, InMake, InIsFrom, TypeOK, Calls
  <1>3. TypeOK'
    BY <1>1 DEF TypeOK, context, statics
  <1>4. InCall(t)'
    BY <1>1, <1>2 DEF InCall, Outside, TypeOK, statics
  <1>5. Holding'
    BY <1>1 DEF Holding, Wants, statics
  <1> QED BY <1>1, <1>3, <1>4, <1>5, LocalInvariant DEF TypeOK, Registry, MadeKnown

-----------------------------------------------------------------------------
(* The invariant: a static is initialised. *)

\* A guard is taken for the first time on the way up, and the parent's static
\* comes next.
LEMMA EnterInvariant ==
  ASSUME IInv, NEW t \in Threads, Enter(t)
  PROVE  IInv'
  PROOF
  <1> USE DEF IInv
  <1> DEFINE s == need[t]
             n == Len(need[t])
  <1>1. PICK c \in Classes :
          /\ c = Wants(t) /\ s # <<>> /\ cached[c] = None /\ guard[c] = None
          /\ guard' = [guard EXCEPT ![c] = t]
          /\ need' = [need EXCEPT ![t] = IF Parent[c] = Root THEN @ ELSE Append(@, Parent[c])]
          /\ UNCHANGED <<context, mutex, cached, op, at, answer, found, made>>
    BY WantsClass DEF Enter
  <1>2. /\ s \in Seq(Classes) /\ n \in Nat \ {0} /\ s[n] = c
        /\ \A k \in 1..n : s[k] \in Classes
    BY <1>1, WantsClass DEF TypeOK, Wants
  <1>3. CASE Parent[c] = Root
    <2>1. need' = need
      BY <1>1, <1>3 DEF TypeOK
    <2>2. TypeOK'
      BY <1>1, <2>1 DEF TypeOK, context
    <2>3. Registry' /\ Grows
      BY <1>1, RegistryKept DEF Registry, MadeKnown, Grows, context
    <2>4. Guarded'
      <3> SUFFICES ASSUME NEW d \in Classes, guard'[d] # None
                   PROVE  /\ cached[d] = None
                          /\ \E k \in 1..Len(need[guard'[d]]) : need[guard'[d]][k] = d
        BY <1>1, <2>1 DEF Guarded
      <3>1. CASE d = c
        <4>1. guard'[d] = t /\ n \in 1..Len(need[t]) /\ need[t][n] = c
          BY <1>1, <1>2, <3>1 DEF TypeOK
        <4> QED BY <1>1, <3>1, <4>1
      <3>2. CASE d # c
        <4>1. guard'[d] = guard[d]
          BY <1>1, <3>2 DEF TypeOK
        <4> QED BY <4>1 DEF Stacks, Guarded
      <3> QED BY <3>1, <3>2
    <2>5. ASSUME NEW u \in Threads PROVE Upward(u)' /\ Descends(u)' /\ ParentKnown(u)'
      <3>1. Upward(u) /\ Descends(u) /\ ParentKnown(u) /\ need'[u] = need[u]
        BY <2>1 DEF Stacks
      <3>2. CASE Wants(u) = c
        BY <1>1, <1>3, <2>1, <3>1, <3>2 DEF Upward, Descends, ParentKnown, Wants, Known
      <3>3. CASE Wants(u) # c
        <4>1. need[u] # <<>> /\ guard'[Wants(u)] = u => guard[Wants(u)] = u
          BY <1>1, <3>3, WantsClass DEF TypeOK
        <4> QED BY <2>3, <3>1, <4>1, StackStays
      <3> QED BY <3>2, <3>3
    <2>6. ASSUME NEW u \in Threads PROVE InCall(u)'
      BY <1>1, <2>1, <2>3, CallStays DEF Registry
    <2>7. Holding'
      BY <1>1, <2>1, WantsClass, Constants DEF TypeOK, Holding, Wants
    <2> QED BY <2>2, <2>3, <2>4, <2>5, <2>6, <2>7 DEF Stacks
  <1>4. CASE Parent[c] # Root
    <2> DEFINE p == Parent[c]
    <2>1. p \in Classes
      BY <1>4, Constants DEF Nodes
    <2>2. /\ need'[t] = Append(s, p) /\ Len(need'[t]) = n + 1 /\ need'[t] \in Seq(Classes)
          /\ \A k \in 1..n : need'[t][k] = s[k]
          /\ need'[t][n + 1] = p /\ need'[t] # <<>>
          /\ \A u \in Threads \ {t} : need'[u] = need[u]
      <3>1. need'[t] = Append(s, p) /\ \A u \in Threads \ {t} : need'[u] = need[u]
        BY <1>1, <1>4 DEF TypeOK
      <3> QED BY <1>2, <2>1, <3>1, Pushed
    <2>3. TypeOK'
      <3>1. need' = [need EXCEPT ![t] = need'[t]]
        BY <1>1, <1>4 DEF TypeOK
      <3> QED BY <1>1, <2>2, <3>1 DEF TypeOK, context
    <2>4. Registry' /\ Grows
      BY <1>1, RegistryKept DEF Registry, MadeKnown, Grows, context
    <2>5. \A k \in 1..n : Depth[p] < Depth[s[k]]
      <3> SUFFICES ASSUME NEW k \in 1..n PROVE Depth[p] < Depth[s[k]]
        OBVIOUS
      <3>1. Depth[p] < Depth[c] /\ Depth[p] \in Int /\ Depth[c] \in Int /\ Depth[s[k]] \in Int
        <4>1. \A x \in Classes : Depth[x] \in Int
          BY DepthDecreases, Constants DEF Nodes
        <4> QED BY <1>2, <2>1, <4>1, DepthDecreases
      <3>2. k = n \/ Depth[c] < Depth[s[k]]
        BY <1>2 DEF Stacks, Descends
      <3> QED BY <1>2, <3>1, <3>2
    <2>6. Guarded'
      <3> SUFFICES ASSUME NEW d \in Classes, guard'[d] # None
                   PROVE  cached'[d] = None
                            /\ \E k \in 1..Len(need'[guard'[d]]) : need'[guard'[d]][k] = d
        BY DEF Guarded
      <3>1. CASE d = c
        <4>1. guard'[d] = t /\ n \in 1..Len(need'[t]) /\ need'[t][n] = c
          BY <1>1, <1>2, <2>2, <3>1 DEF TypeOK
        <4> QED BY <1>1, <3>1, <4>1
      <3>2. CASE d # c
        <4>1. guard'[d] = guard[d] /\ guard[d] \in Threads
          BY <1>1, <3>2 DEF TypeOK
        <4>2. cached[d] = None /\ \E k \in 1..Len(need[guard[d]]) : need[guard[d]][k] = d
          BY <4>1, Constants DEF Stacks, Guarded
        <4>3. CASE guard[d] = t
          <5>1. PICK k \in 1..n : s[k] = d
            BY <4>2, <4>3
          <5>2. k \in 1..(n + 1) /\ need'[t][k] = d
            BY <1>2, <2>2, <5>1
          <5> QED BY <1>1, <2>2, <4>1, <4>2, <4>3, <5>2
        <4>4. CASE guard[d] # t
          BY <1>1, <2>2, <4>1, <4>2, <4>4
        <4> QED BY <4>3, <4>4
      <3> QED BY <3>1, <3>2
    <2>7. ASSUME NEW u \in Threads PROVE Upward(u)' /\ Descends(u)' /\ ParentKnown(u)'
      <3>1. Upward(u) /\ Descends(u) /\ ParentKnown(u)
        BY DEF Stacks
      <3>2. CASE u = t
        <4>1. Upward(t)'
          <5> SUFFICES ASSUME NEW k \in 1..n PROVE need'[t][k + 1] = Parent[need'[t][k]]
            BY <2>2 DEF Upward
          <5>1. CASE k = n
            BY <1>2, <2>2, <5>1
          <5>2. CASE k # n
            <6>1. k \in 1..(n - 1) /\ k + 1 \in 1..n
              BY <1>2, <5>2
            <6> QED BY <2>2, <3>1, <3>2, <6>1 DEF Upward
          <5> QED BY <5>1, <5>2
        <4>2. Descends(t)'
          <5> SUFFICES ASSUME NEW j \in 1..(n + 1), NEW k \in 1..(n + 1), j < k
                       PROVE  Depth[need'[t][k]] < Depth[need'[t][j]]
            BY <2>2 DEF Descends
          <5>1. CASE k = n + 1
            <6>1. j \in 1..n
              BY <1>2, <5>1
            <6> QED BY <2>2, <2>5, <5>1, <6>1
          <5>2. CASE k # n + 1
            <6>1. j \in 1..n /\ k \in 1..n
              BY <1>2, <5>2
            <6> QED BY <2>2, <3>1, <3>2, <6>1 DEF Descends
          <5> QED BY <5>1, <5>2
        <4>3. ParentKnown(t)'
          <5>1. Wants(t)' = p /\ p # c
            <6>1. Depth[p] < Depth[c] /\ Depth[p] \in Int
              BY <2>1, DepthDecreases, Constants DEF Nodes
            <6> QED BY <2>2, <6>1 DEF Wants
          <5>2. guard'[p] = guard[p]
            BY <1>1, <2>1, <5>1 DEF TypeOK
          <5>3. guard[p] # t
            <6> SUFFICES ASSUME guard[p] = t PROVE FALSE
              OBVIOUS
            <6>1. PICK k \in 1..n : s[k] = p
              BY <2>1, Constants DEF Stacks, Guarded
            <6>2. Depth[p] < Depth[p] /\ Depth[p] \in Int
              BY <2>1, <2>5, <6>1, DepthDecreases, Constants DEF Nodes
            <6> QED BY <6>2
          <5> QED BY <5>1, <5>2, <5>3 DEF ParentKnown
        <4> QED BY <3>2, <4>1, <4>2, <4>3
      <3>3. CASE u # t
        <4>1. need[u] # <<>> /\ guard'[Wants(u)] = u => guard[Wants(u)] = u
          BY <1>1, <3>3, WantsClass DEF TypeOK
        <4> QED BY <2>2, <2>4, <3>1, <3>3, <4>1, StackStays
      <3> QED BY <3>2, <3>3
    <2>8. ASSUME NEW u \in Threads PROVE InCall(u)'
      <3>1. CASE u = t
        <4>1. InCall(t) /\ s # <<>> /\ need'[t] # <<>> /\ need'[t][1] = s[1]
          BY <1>1, <1>2, <2>2
        <4>2. at[t] = None /\ answer[t] = None /\ op[t] # None
          BY <4>1 DEF InCall, Outside, InMake, InIsFrom, TypeOK, Calls
        <4>3. Goal(t) => Goal(t)'
          BY <1>1, <4>1 DEF Goal
        <4> QED BY <1>1, <3>1, <4>1, <4>2, <4>3 DEF InCall, Outside, InMake, InIsFrom
      <3>2. CASE u # t
        BY <1>1, <2>2, <2>4, <3>2, CallStays DEF Registry
      <3> QED BY <3>1, <3>2
    <2>9. Holding'
      <3> SUFFICES ASSUME mutex # None
                   PROVE  at[mutex] # None \/ (need'[mutex] # <<>> /\ guard'[Wants(mutex)'] = mutex)
        BY <1>1 DEF Holding, Wants
      <3>1. mutex \in Threads
        BY DEF TypeOK
      <3>2. at[mutex] # None \/ (need[mutex] # <<>> /\ guard[Wants(mutex)] = mutex)
        BY DEF Holding
      <3>3. CASE mutex = t
        BY <1>1, <3>1, <3>2, <3>3, Constants
      <3>4. CASE mutex # t
        BY <1>1, <2>2, <3>1, <3>2, <3>4, WantsClass, Constants DEF TypeOK, Wants
      <3> QED BY <3>3, <3>4
    <2> QED BY <2>3, <2>4, <2>6, <2>7, <2>8, <2>9 DEF Stacks
  <1> QED BY <1>3, <1>4

LEMMA LockInvariant ==
  ASSUME IInv, NEW t \in Threads, Lock(t)
  PROVE  IInv'
  PROOF
  <1> USE DEF IInv
  <1>1. /\ need[t] # <<>> /\ guard[Wants(t)] = t /\ mutex = None /\ mutex' = t
        /\ UNCHANGED <<context, statics, op, at, answer, found, made>>
    BY DEF Lock
  <1>2. TypeOK'
    BY <1>1 DEF TypeOK, context, statics
  <1>3. InCall(t)'
    <2>1. InCall(t) /\ at[t] = None
      BY <1>1 DEF InCall, Outside, InMake, InIsFrom, TypeOK, Calls
    <2> QED BY <1>1, <2>1
            DEF InCall, Outside, InMake, InIsFrom, Goal, Known, context, statics
  <1>4. Holding'
    BY <1>1 DEF Holding, Wants, statics
  <1> QED BY <1>1, <1>2, <1>3, <1>4, Constants, LocalInvariant DEF TypeOK, Registry, MadeKnown

\* The innermost static is there: the thread goes on with the one below it.
LEMMA PopStacks ==
  ASSUME TypeOK, Stacks, Grows, NEW t \in Threads, NEW c \in Classes,
         need[t] # <<>>, c = Wants(t), need' = [need EXCEPT ![t] = Front(@)],
         cached'[c] # None, guard'[c] = None,
         \A d \in Classes \ {c} : guard'[d] = guard[d] /\ cached'[d] = cached[d]
  PROVE  Stacks'
  PROOF
  <1> DEFINE s == need[t]
             n == Len(need[t])
  <1>1. /\ s \in Seq(Classes) /\ n \in Nat \ {0} /\ s[n] = c
        /\ \A k \in 1..n : s[k] \in Classes
    BY WantsClass DEF TypeOK, Wants
  <1>2. /\ need'[t] = Front(s) /\ Len(need'[t]) = n - 1
        /\ \A k \in 1..(n - 1) : need'[t][k] = s[k]
        /\ \A u \in Threads \ {t} : need'[u] = need[u]
    <2>1. need'[t] = Front(s) /\ \A u \in Threads \ {t} : need'[u] = need[u]
      BY DEF TypeOK
    <2> QED BY <1>1, <2>1, Popped
  <1>3. Guarded'
    <2> SUFFICES ASSUME NEW d \in Classes, guard'[d] # None
                 PROVE  cached'[d] = None
                          /\ \E k \in 1..Len(need'[guard'[d]]) : need'[guard'[d]][k] = d
      BY DEF Guarded
    <2>1. d # c /\ guard'[d] = guard[d] /\ cached'[d] = cached[d] /\ guard[d] \in Threads
      BY DEF TypeOK
    <2>2. cached[d] = None /\ \E k \in 1..Len(need[guard[d]]) : need[guard[d]][k] = d
      BY <2>1 DEF Stacks, Guarded
    <2>3. CASE guard[d] = t
      <3>1. PICK k \in 1..n : s[k] = d
        BY <2>2, <2>3
      <3>2. k \in 1..(n - 1)
        BY <1>1, <2>1, <3>1
      <3> QED BY <1>2, <2>1, <2>2, <2>3, <3>1, <3>2
    <2>4. CASE guard[d] # t
      BY <1>2, <2>1, <2>2, <2>4
    <2> QED BY <2>3, <2>4
  <1>4. ASSUME NEW u \in Threads PROVE Upward(u)' /\ Descends(u)' /\ ParentKnown(u)'
    <2>1. Upward(u) /\ Descends(u) /\ ParentKnown(u)
      BY DEF Stacks
    <2>2. CASE u = t
      <3>1. Upward(t)'
        <4> SUFFICES ASSUME NEW k \in 1..(n - 1 - 1) PROVE need'[t][k + 1] = Parent[need'[t][k]]
          BY <1>2 DEF Upward
        <4>1. k \in 1..(n - 1) /\ k + 1 \in 1..(n - 1)
          BY <1>1
        <4> QED BY <1>2, <2>1, <2>2, <4>1 DEF Upward
      <3>2. Descends(t)'
        <4> SUFFICES ASSUME NEW j \in 1..(n - 1), NEW k \in 1..(n - 1), j < k
                     PROVE  Depth[need'[t][k]] < Depth[need'[t][j]]
          BY <1>2 DEF Descends
        <4>1. j \in 1..n /\ k \in 1..n
          BY <1>1
        <4> QED BY <1>2, <2>1, <2>2, <4>1 DEF Descends
      <3>3. ParentKnown(t)'
        <4> SUFFICES ASSUME need'[t] # <<>>
                     PROVE  LET p == Parent[need'[t][n - 1]] IN p = Root \/ cached'[p] # None
          BY <1>2 DEF ParentKnown, Wants, Known
        <4>1. n # 1
          BY <1>1, <1>2, PoppedEmpty
        <4>2. n - 1 \in 1..(n - 1) /\ (n - 1) + 1 = n
          <5> HIDE DEF n
          <5>1. n \in Nat \ {0, 1}
            BY <1>1, <4>1
          <5> QED BY <5>1
        <4>3. need'[t][n - 1] = s[n - 1] /\ Parent[s[n - 1]] = c
          BY <1>1, <1>2, <2>1, <2>2, <4>2 DEF Upward
        <4> QED BY <4>3
      <3> QED BY <2>2, <3>1, <3>2, <3>3
    <2>3. CASE u # t
      <3>1. need[u] # <<>> /\ guard'[Wants(u)] = u => guard[Wants(u)] = u
        BY WantsClass, Constants
      <3> QED BY <1>2, <2>1, <2>3, <3>1, StackStays
    <2> QED BY <2>2, <2>3
  <1> QED BY <1>3, <1>4 DEF Stacks

LEMMA PopCall ==
  ASSUME TypeOK, NEW t \in Threads, NEW c \in Classes, InCall(t),
         need[t] # <<>>, c = Wants(t), need' = [need EXCEPT ![t] = Front(@)], cached'[c] # None,
         UNCHANGED <<op, at, answer, found, made>>
  PROVE  InCall(t)'
  PROOF
  <1>1. /\ need[t] \in Seq(Classes) /\ Len(need[t]) \in Nat \ {0}
        /\ need[t][Len(need[t])] = c /\ need'[t] = Front(need[t])
    BY WantsClass DEF TypeOK, Wants
  <1>2. at[t] = None /\ answer[t] = None /\ op[t] # None /\ op[t].do # "index"
    BY DEF InCall, Outside, InMake, InIsFrom, TypeOK, Calls
  <1>3. ASSUME Goal(t) PROVE Goal(t)'
    <2>1. need[t][1] = op[t].class
      BY <1>3 DEF Goal
    <2>2. CASE Len(need[t]) = 1
      <3>1. need'[t] = <<>>
        BY <1>1, <2>2, PoppedEmpty
      <3>2. op[t].class = c
        BY <1>1, <2>1, <2>2
      <3> QED BY <3>1, <3>2 DEF Goal, Known
    <2>3. CASE Len(need[t]) # 1
      <3>1. 1 \in 1..(Len(need[t]) - 1)
        <4> DEFINE n == Len(need[t])
        <4>1. n \in Nat \ {0, 1}
          BY <1>1, <2>3
        <4> HIDE DEF n
        <4>2. 1 \in 1..(n - 1)
          BY <4>1
        <4> QED BY <4>2 DEF n
      <3>2. need'[t] # <<>> /\ need'[t][1] = need[t][1]
        BY <1>1, <2>3, <3>1, Popped, PoppedEmpty
      <3> QED BY <2>1, <3>2 DEF Goal
    <2> QED BY <2>2, <2>3
  <1> QED BY <1>2, <1>3 DEF InCall, InMake, InIsFrom

LEMMA LeaveInvariant ==
  ASSUME IInv, NEW t \in Threads, Leave(t)
  PROVE  IInv'
  PROOF
  <1> USE DEF IInv
  <1>1. PICK c \in Classes :
          /\ need[t] # <<>> /\ c = Wants(t) /\ cached[c] # None
          /\ need' = [need EXCEPT ![t] = Front(@)]
          /\ UNCHANGED <<context, mutex, guard, cached, op, at, answer, found, made>>
    BY WantsClass DEF Leave
  <1>2. guard[c] = None
    BY <1>1 DEF Stacks, Guarded
  <1>3. TypeOK'
    <2>1. Front(need[t]) \in Seq(Classes)
      BY <1>1, Popped DEF TypeOK
    <2> QED BY <1>1, <2>1 DEF TypeOK, context
  <1>4. Registry' /\ Grows
    BY <1>1, RegistryKept DEF Registry, MadeKnown, Grows, context
  <1>5. Stacks'
    BY <1>1, <1>2, <1>4, PopStacks
  <1>6. ASSUME NEW u \in Threads PROVE InCall(u)'
    <2>1. CASE u = t
      BY <1>1, <2>1, PopCall
    <2>2. CASE u # t
      <3>1. need'[u] = need[u]
        BY <1>1, <2>2 DEF TypeOK
      <3> QED BY <1>1, <1>4, <3>1, CallStays DEF Registry
    <2> QED BY <2>1, <2>2
  <1>7. Holding'
    <2>1. mutex # t
      <3>1. guard[Wants(t)] # t
        BY <1>1, <1>2, Constants
      <3>2. at[t] = None
        BY <1>1 DEF InCall, Outside, InMake, InIsFrom, TypeOK, Calls
      <3> QED BY <3>1, <3>2, Constants DEF Holding
    <2>2. mutex # None => need'[mutex] = need[mutex]
      BY <1>1, <2>1 DEF TypeOK
    <2> QED BY <1>1, <2>2 DEF Holding, Wants
  <1> QED BY <1>3, <1>4, <1>5, <1>6, <1>7

\* The index a class is given, and the counter afterwards.
Given(c) == IF Static[c] # Dynamic THEN Static[c] ELSE counter

LEMMA GivenFacts ==
  ASSUME IInv, NEW c \in Classes, cached[c] = None, Known(Parent[c])
  PROVE  /\ Given(c) \in 1..Top
         /\ \A d \in Classes : cached[d] # None => cached[d] # Given(c)
         /\ IndexOf(Parent[c]) \in 0..Top /\ IndexOf(Parent[c]) < Given(c)
         /\ Static[c] = Dynamic => counter + 1 \in Dynamic..Top
  PROOF
  <1> USE DEF IInv, Registry
  <1>1. counter \in Int /\ counter >= Dynamic /\ Static[c] \in 1..Dynamic /\ Dynamic \in Nat \ {0}
    BY Constants DEF TypeOK
  <1>2. Static[c] = Dynamic => counter + 1 \in Dynamic..Top
    <2> SUFFICES ASSUME Static[c] = Dynamic PROVE counter + 1 <= Top
      BY <1>1, Constants
    <2>1. c \notin Allocated /\ Allocated \cup {c} \subseteq Classes
      BY DEF Allocated
    <2>2. IsFiniteSet(Allocated) /\ Cardinality(Allocated) \in Nat
      BY <2>1, ClassAssumption, FS_Subset, FS_CardinalityType
    <2>3. Cardinality(Allocated \cup {c}) = Cardinality(Allocated) + 1
      BY <2>1, <2>2, FS_AddElement
    <2>4. Cardinality(Allocated \cup {c}) <= Cardinality(Classes)
      BY <2>1, ClassAssumption, FS_Subset
    <2> QED BY <2>2, <2>3, <2>4, Constants DEF Counted, Top
  <1>3. Given(c) \in 1..Top
    <2>1. Dynamic <= Top
      BY Constants DEF Top
    <2> QED BY <1>1, <1>2, <2>1, Constants DEF Given
  <1>4. ASSUME NEW d \in Classes, cached[d] # None
        PROVE  cached[d] # Given(c)
    <2>1. c # d /\ Static[d] \in 1..Dynamic
      BY <1>4, Constants
    <2>2. Static[c] # Dynamic => Static[d] # Static[c]
      BY <2>1, StaticAssumption
    <2> QED BY <1>1, <1>4, <2>1, <2>2 DEF Given, Indexed
  <1>5. IndexOf(Parent[c]) \in 0..Top /\ IndexOf(Parent[c]) < Given(c)
    <2>1. Parent[c] \in Nodes
      BY Constants
    <2>2. IndexOf(Parent[c]) \in 0..Top
      BY <2>1, IndexFacts
    <2>3. CASE Parent[c] = Root
      BY <1>3, <2>2, <2>3, Constants DEF IndexOf
    <2>4. CASE Parent[c] # Root
      <3>1. Parent[c] \in Classes /\ cached[Parent[c]] # None
        BY <2>1, <2>4 DEF Nodes, Known
      <3>2. IndexOf(Parent[c]) = cached[Parent[c]] /\ Static[Parent[c]] \in 1..Dynamic
        BY <2>1, <2>4, <3>1, IndexFacts, Constants
      <3>3. CASE Static[c] # Dynamic
        <4>1. Static[Parent[c]] < Static[c]
          BY <2>4, <3>3, StaticAssumption
        <4> QED BY <1>1, <2>2, <3>1, <3>2, <3>3, <4>1 DEF Given, Indexed
      <3>4. CASE Static[c] = Dynamic
        BY <1>1, <2>2, <3>1, <3>2, <3>4 DEF Given, Indexed
      <3> QED BY <3>3, <3>4
    <2> QED BY <2>3, <2>4
  <1> QED BY <1>2, <1>3, <1>4, <1>5

\* A class without an index gets one that no other class has, above that of
\* its parent.
LEMMA AllocateInvariant ==
  ASSUME IInv, NEW t \in Threads, Allocate(t)
  PROVE  IInv'
  PROOF
  <1> USE DEF IInv
  <1>1. PICK c \in Classes : need[t] # <<>> /\ c = Wants(t) /\ guard[c] = t /\ mutex = t
    BY WantsClass DEF Allocate
  <1>2. cached[c] = None /\ names = cached /\ Known(Parent[c])
    <2>1. cached[c] = None
      BY <1>1, Constants DEF Stacks, Guarded
    <2>2. Known(Parent[c])
      BY <1>1 DEF Stacks, ParentKnown
    <2> QED BY <2>1, <2>2 DEF Registry, Indexed
  <1>3. PICK i \in 1..Top : i = Given(c)
    BY <1>2, GivenFacts
  <1>4. /\ names' = [names EXCEPT ![c] = i]
        /\ parent' = [parent EXCEPT ![i] = ParentIndex(c)]
        /\ counter' = IF Static[c] = Dynamic THEN counter + 1 ELSE counter
        /\ cached' = [cached EXCEPT ![c] = i]
        /\ guard' = [guard EXCEPT ![c] = None]
        /\ need' = [need EXCEPT ![t] = Front(@)]
        /\ mutex' = None
        /\ UNCHANGED <<op, at, answer, found, made>>
    BY <1>1, <1>2, <1>3 DEF Allocate, Given
  <1>5. Parent[c] \in Nodes /\ ParentIndex(c) = IndexOf(Parent[c])
    <2>1. Parent[c] \in Nodes
      BY Constants
    <2>2. CASE Parent[c] = Root
      BY <2>1, <2>2 DEF ParentIndex, IndexOf
    <2>3. CASE Parent[c] # Root
      BY <1>2, <2>1, <2>3, IndexFacts DEF ParentIndex
    <2> QED BY <2>1, <2>2, <2>3
  <1>6. /\ \A d \in Classes : cached[d] # None => cached[d] # i
        /\ ParentIndex(c) \in 0..Top /\ ParentIndex(c) < i
        /\ Static[c] = Dynamic => counter + 1 \in Dynamic..Top
    BY <1>2, <1>3, <1>5, GivenFacts
  <1>7. /\ cached'[c] = i /\ i # None
        /\ \A d \in Classes \ {c} : cached'[d] = cached[d] /\ guard'[d] = guard[d]
        /\ guard'[c] = None
    BY <1>4, Constants DEF TypeOK
  <1>8. Grows
    BY <1>2, <1>7 DEF Grows
  <1>9. TypeOK'
    <2>1. Front(need[t]) \in Seq(Classes)
      BY <1>1, Popped DEF TypeOK
    <2>2. counter' \in Dynamic..Top
      BY <1>4, <1>6 DEF TypeOK
    <2>3. i \in 0..Top
      BY <1>3, Constants
    <2> QED BY <1>4, <1>6, <2>1, <2>2, <2>3 DEF TypeOK
  <1>10. Registry'
    <2>1. Indexed'
      <3>1. names' = cached'
        BY <1>2, <1>4
      <3>2. ASSUME NEW d \in Classes, cached'[d] # None
            PROVE  IF Static[d] = Dynamic THEN cached'[d] \in Dynamic..(counter' - 1)
                   ELSE cached'[d] = Static[d]
        <4>1. counter \in Int /\ counter >= Dynamic /\ Dynamic \in Nat
          BY Constants DEF TypeOK
        <4>2. CASE d = c
          BY <1>3, <1>4, <1>7, <4>1, <4>2 DEF Given
        <4>3. CASE d # c
          BY <1>4, <1>7, <3>2, <4>1, <4>3 DEF Registry, Indexed
        <4> QED BY <4>2, <4>3
      <3>3. ASSUME NEW d \in Classes, NEW e \in Classes, cached'[d] # None, cached'[d] = cached'[e]
            PROVE  d = e
        BY <1>6, <1>7, <3>3 DEF Registry, Indexed
      <3> QED BY <3>1, <3>2, <3>3 DEF Indexed
    <2>2. Recorded'
      <3> SUFFICES ASSUME NEW d \in Classes, cached'[d] # None
                   PROVE  /\ Known(Parent[d])'
                          /\ parent'[cached'[d]] = IndexOf(Parent[d])'
                          /\ IndexOf(Parent[d])' < cached'[d]
        BY DEF Recorded
      <3>1. Parent[d] \in Nodes
        BY Constants
      <3>2. CASE d = c
        <4>1. parent'[i] = ParentIndex(c)
          BY <1>3, <1>4, Constants DEF TypeOK
        <4>2. Known(Parent[c])' /\ IndexOf(Parent[c])' = IndexOf(Parent[c])
          BY <1>2, <1>5, <1>8, IndexStays
        <4> QED BY <1>5, <1>6, <1>7, <3>2, <4>1, <4>2
      <3>3. CASE d # c
        <4>1. cached'[d] = cached[d] /\ cached[d] # None /\ cached[d] # i
          BY <1>6, <1>7, <3>3
        <4>2. /\ Known(Parent[d]) /\ parent[cached[d]] = IndexOf(Parent[d])
              /\ IndexOf(Parent[d]) < cached[d]
          BY <4>1 DEF Registry, Recorded
        <4>3. parent'[cached[d]] = parent[cached[d]]
          BY <1>4, <4>1 DEF TypeOK
        <4>4. Known(Parent[d])' /\ IndexOf(Parent[d])' = IndexOf(Parent[d])
          BY <1>8, <3>1, <4>2, IndexStays
        <4> QED BY <4>1, <4>2, <4>3, <4>4
      <3> QED BY <3>2, <3>3
    <2>3. Counted'
      <3>1. IsFiniteSet(Allocated) /\ Cardinality(Allocated) \in Nat /\ c \notin Allocated
        BY <1>2, ClassAssumption, FS_Subset, FS_CardinalityType DEF Allocated
      <3>2. CASE Static[c] = Dynamic
        <4>1. Allocated' = Allocated \cup {c}
          BY <1>7, <3>2 DEF Allocated
        <4>2. Cardinality(Allocated') = Cardinality(Allocated) + 1
          BY <3>1, <4>1, FS_AddElement
        <4> QED BY <1>4, <3>1, <3>2, <4>2, Constants DEF Registry, Counted
      <3>3. CASE Static[c] # Dynamic
        <4>1. Allocated' = Allocated
          BY <1>7, <3>3 DEF Allocated
        <4> QED BY <1>4, <3>3, <4>1 DEF Registry, Counted
      <3> QED BY <3>2, <3>3
    <2>4. MadeKnown'
      BY <1>4, <1>7 DEF TypeOK, Registry, MadeKnown
    <2> QED BY <2>1, <2>2, <2>3, <2>4 DEF Registry
  <1>11. Stacks'
    BY <1>1, <1>4, <1>7, <1>8, PopStacks
  <1>12. ASSUME NEW u \in Threads PROVE InCall(u)'
    <2>1. CASE u = t
      BY <1>1, <1>4, <1>7, <2>1, PopCall
    <2>2. CASE u # t
      <3>1. need'[u] = need[u] /\ mutex # u
        BY <1>1, <1>4, <2>2 DEF TypeOK
      <3> QED BY <1>4, <1>8, <3>1, CallStays DEF Registry
    <2> QED BY <2>1, <2>2
  <1>13. Holding'
    BY <1>4 DEF Holding
  <1> QED BY <1>9, <1>10, <1>11, <1>12, <1>13

-----------------------------------------------------------------------------
(* The theorems. *)

\* Every step preserves the invariant.
LEMMA NextInvariant == IInv /\ [Next]_vars => IInv'
  PROOF
  <1> SUFFICES ASSUME IInv, [Next]_vars PROVE IInv'
    OBVIOUS
  <1>1. CASE UNCHANGED vars
    <2>1. TypeOK'
      BY <1>1 DEF vars, context, statics, IInv, TypeOK
    <2>2. Registry' /\ Stacks'
      BY <1>1, RegistryKept, StacksKept DEF vars, context, statics, IInv, Registry, MadeKnown
    <2>3. ASSUME NEW u \in Threads PROVE InCall(u)'
      BY <1>1, CallStays DEF vars, context, statics, IInv, Registry, Grows
    <2>4. Holding'
      BY <1>1 DEF vars, context, statics, IInv, Holding, Wants
    <2> QED BY <2>1, <2>2, <2>3, <2>4 DEF IInv
  <1>2. CASE Next
    <2>1. PICK t \in Threads : Call(t) \/ Continue(t)
      BY <1>2 DEF Next
    <2>2. CASE Call(t)
      BY <2>2, MakeObjectInvariant, IsTypeInvariant, IndexInvariant DEF Call
    <2>3. CASE Continue(t)
      BY <2>3, EnterInvariant, LeaveInvariant, LockInvariant, AllocateInvariant,
         MadeInvariant, IsFromCompareInvariant, IsFromLockInvariant, IsFromClimbInvariant,
         IsFromReturnInvariant, ReturnInvariant DEF Continue
    <2> QED BY <2>1, <2>2, <2>3
  <1> QED BY <1>1, <1>2

\* The inductive invariant holds in every state.
THEOREM Invariant == Safe => []IInv
  PROOF
  BY InitInvariant, NextInvariant, PTL DEF Safe

\* Indices stay below Top, and a class finds its parent's index.
THEOREM TypeCorrect == Safe => []TypeOK
  PROOF
  <1>1. IInv => TypeOK
    BY DEF IInv
  <1> QED BY <1>1, Invariant, PTL

\* What IsFrom answers is the declared inheritance.
THEOREM IsFromIsInheritance == Safe => []IsFromAgrees
  PROOF
  <1>1. IInv => IsFromAgrees
    BY DEF IInv, IsFromAgrees, InCall, Outside, InMake, InIsFrom, TypeOK, Calls
  <1> QED BY <1>1, Invariant, PTL

\* What is recorded of the class of an object stays: the only step that writes
\* does so at an index nobody has.
THEOREM InfoIsStable == Safe => InfoStable
  PROOF
  <1> DEFINE Stable(c) == IndexOf(c)' = IndexOf(c) /\ parent'[IndexOf(c)] = parent[IndexOf(c)]
  <1>1. ASSUME IInv, Next, NEW c \in made PROVE Stable(c)
    <2>1. c \in Classes /\ c \in Nodes /\ Known(c) /\ cached[c] # None
      BY <1>1 DEF IInv, TypeOK, Registry, MadeKnown, Known, Nodes
    <2>2. PICK t \in Threads : Call(t) \/ Continue(t)
      BY <1>1 DEF Next
    <2>3. CASE UNCHANGED <<parent, cached>>
      BY <2>3 DEF IndexOf
    <2>4. CASE Allocate(t)
      <3>1. PICK d \in Classes : need[t] # <<>> /\ d = Wants(t) /\ guard[d] = t
        BY <1>1, <2>4, WantsClass DEF IInv, Allocate
      <3>2. cached[d] = None /\ names[d] = None /\ Known(Parent[d])
        BY <1>1, <3>1, Constants
           DEF IInv, Stacks, Guarded, ParentKnown, Registry, Indexed
      <3>3. /\ parent' = [parent EXCEPT ![Given(d)] = ParentIndex(d)]
            /\ cached' = [cached EXCEPT ![d] = Given(d)]
        BY <2>4, <3>1, <3>2 DEF Allocate, Given
      <3>4. IndexOf(c) = cached[c] /\ cached[c] # Given(d) /\ cached[c] \in 0..Top
        BY <1>1, <2>1, <3>2, GivenFacts, IndexFacts, Constants DEF IInv, TypeOK
      <3>5. Grows
        BY <3>2, <3>3 DEF Grows
      <3>6. IndexOf(c)' = IndexOf(c)
        BY <2>1, <3>5, IndexStays
      <3> QED BY <1>1, <3>3, <3>4, <3>6 DEF IInv, TypeOK
    <2>5. UNCHANGED <<parent, cached>> \/ Allocate(t)
      BY <2>2 DEF Call, Continue, MakeObject, IsType, Index, Enter, Leave, Lock, Made,
         IsFromCompare, IsFromLock, IsFromClimb, IsFromReturn, Return, context, statics
    <2> QED BY <2>3, <2>4, <2>5
  <1>2. IInv /\ [Next]_vars => [\A c \in made : Stable(c)]_vars
    BY <1>1
  <1> QED BY <1>2, Invariant, PTL DEF Safe, InfoStable

\* How far a thread is from the mutex: below what it waits for, it waits for
\* nothing.
Rank(t) ==
  IF mutex = t THEN 0
  ELSE IF need[t] = <<>> THEN 1
  ELSE IF guard[Wants(t)] = t THEN 2 * Depth[Wants(t)] + 1
  ELSE 2 * Depth[Wants(t)] + 2

LEMMA WaitsForLower ==
  ASSUME IInv, NEW t \in Threads, NEW u \in Threads, Waits(t, u)
  PROVE  Rank(t) \in Nat /\ Rank(u) \in Nat /\ Rank(u) < Rank(t)
  PROOF
  <1> USE DEF IInv
  <1>1. ASSUME NEW v \in Threads
        PROVE  Rank(v) \in Nat /\ (mutex # v => Rank(v) > 0)
                 /\ (need[v] # <<>> => Wants(v) \in Classes /\ Depth[Wants(v)] \in Nat)
    <2>1. need[v] # <<>> => Wants(v) \in Classes /\ Depth[Wants(v)] \in Nat
      BY WantsClass, DepthDecreases, Constants DEF Nodes
    <2> QED BY <2>1 DEF Rank
  <1>2. CASE mutex = u
    BY <1>1, <1>2 DEF Waits, Rank
  <1>3. CASE mutex # u
    <2> DEFINE c == Wants(t)
    <2>1. need[t] # <<>> /\ guard[c] = u /\ u # t
      BY <1>3 DEF Waits
    <2>2. c \in Classes /\ Depth[c] \in Nat
      BY <1>1, <2>1
    <2>3. mutex # t
      <3>1. at[t] = None
        BY <2>1 DEF InCall, Outside, InMake, InIsFrom, TypeOK, Calls
      <3> QED BY <2>1, <3>1, Constants DEF Holding
    <2>4. Rank(t) = 2 * Depth[c] + 2
      BY <2>1, <2>3 DEF Rank
    <2>5. PICK k \in 1..Len(need[u]) : need[u][k] = c
      BY <2>1, <2>2, Constants DEF Stacks, Guarded
    <2>6. need[u] # <<>> /\ Len(need[u]) \in Nat \ {0}
      <3>1. need[u] # <<>>
        BY <2>5, NoStack
      <3> QED BY <3>1, WantsClass
    <2>7. Depth[Wants(u)] \in Nat
      BY <1>1, <2>6
    <2>8. CASE k = Len(need[u])
      <3>1. Wants(u) = c
        BY <2>5, <2>8 DEF Wants
      <3>2. Rank(u) = 2 * Depth[c] + 1
        BY <1>3, <2>1, <2>6, <3>1 DEF Rank
      <3> QED BY <1>1, <2>2, <2>4, <3>2
    <2>9. CASE k # Len(need[u])
      <3>1. Depth[Wants(u)] < Depth[c]
        BY <2>5, <2>6, <2>9 DEF Stacks, Descends, Wants
      <3>2. Rank(u) <= 2 * Depth[Wants(u)] + 2
        BY <1>3, <2>6, <2>7 DEF Rank
      <3> QED BY <1>1, <2>2, <2>4, <2>7, <3>1, <3>2
    <2> QED BY <2>8, <2>9
  <1> QED BY <1>2, <1>3

LEMMA Least ==
  ASSUME NEW T \in SUBSET Nat, T # {}
  PROVE  \E x \in T : \A y \in T : ~ (y < x)
  PROOF
  <1> DEFINE R == {ss \in Nat \X Nat : ss[1] < ss[2]}
  <1>1. IsWellFoundedOn(R, Nat)
    BY NatLessThanWellFounded, Zenon DEF OpToRel
  <1> HIDE DEF R
  <1>2. \E x \in T : \A y \in T : ~ (<<y, x>> \in R)
    BY <1>1, WFMin
  <1> QED BY <1>2 DEF R

\* Among any threads there is one that waits for none of them.
THEOREM WaitsEnd == Safe => []NoWaitCycle
  PROOF
  <1>1. ASSUME IInv PROVE NoWaitCycle
    <2> SUFFICES ASSUME NEW S \in SUBSET Threads, S # {}
                 PROVE  \E t \in S : \A u \in S : ~ Waits(t, u)
      BY DEF NoWaitCycle
    <2> DEFINE T == {Rank(t) : t \in {v \in S : \E u \in S : Waits(v, u)}}
    <2>1. SUFFICES ASSUME \A t \in S : \E u \in S : Waits(t, u) PROVE FALSE
      OBVIOUS
    <2>2. T \in SUBSET Nat
      BY <1>1, WaitsForLower
    <2>3. T # {}
      BY <2>1
    <2>4. \A t \in S : Rank(t) \in T
      BY <2>1
    <2>5. ASSUME NEW x \in T PROVE \E y \in T : y < x
      <3>1. PICK t \in S, u \in S : x = Rank(t) /\ Waits(t, u)
        OBVIOUS
      <3> QED BY <1>1, <2>4, <3>1, WaitsForLower
    <2> HIDE DEF T
    <2> QED BY <2>2, <2>3, <2>5, Least
  <1> QED BY <1>1, Invariant, PTL
=============================================================================
