---------------------------- MODULE TypeRegistry ----------------------------
(***************************************************************************)
(* Run-time type indices: TypeContext of src/src/object.cc and what the    *)
(* macro DEFINE_TYPEINDEX of object.h does with it.                        *)
(*                                                                         *)
(* Every class C has a function-local static, initialised by the first     *)
(* thread that needs C's index: it holds the guard of that static, first   *)
(* initialises the static of C's parent in the same way, then allocates    *)
(* an index under the mutex of TypeContext.  IsFrom walks the parents      *)
(* under the same mutex; Index reads the names without it.                 *)
(***************************************************************************)
EXTENDS Integers, Sequences, FiniteSets

CONSTANTS
  Threads,
  Classes,   \* the classes that use DEFINE_TYPEINDEX
  Root,      \* object_t, whose index is 0 and is not allocated
  Parent,    \* Parent[c]: the parent named in the macro
  Static,    \* Static[c]: INDEX of c; Dynamic asks for an allocated index
  Dynamic,   \* the first allocated index (TypeIndex::Dynamic, 256)
  None

Top == Dynamic + Cardinality(Classes)   \* no index reaches Top

Nodes == Classes \cup {Root}

\* c, its parent, the parent of that, and so on up to Root: the least set that
\* has c and the parents of its members.
Ancestors(c) ==
  {a \in Nodes : \A S \in SUBSET Nodes :
     c \in S /\ (\A d \in S \ {Root} : Parent[d] \in S) => a \in S}

Calls ==
  [do : {"make", "index"}, class : Classes]
    \cup [do : {"isFrom"}, class : Nodes, object : Classes]

\* Parents do not run in a circle.  A static index is not shared, and it is
\* above the index of the parent, which then is static too.
ASSUME ClassAssumption ==
  /\ IsFiniteSet(Classes)
  /\ Root \notin Classes
  /\ None \notin Threads \cup Nodes \cup Calls \cup Int \cup {"yes", "no"}
  /\ Dynamic \in Nat \ {0}
  /\ Parent \in [Classes -> Nodes]
  /\ \E depth \in [Nodes -> 0..Cardinality(Classes)] :
       \A c \in Classes : depth[Parent[c]] < depth[c]

ASSUME StaticAssumption ==
  /\ Static \in [Classes -> 1..Dynamic]
  /\ \A c \in Classes :
       Static[c] # Dynamic =>
         /\ \A d \in Classes \ {c} : Static[d] # Static[c]
         /\ Parent[c] = Root \/ Static[Parent[c]] < Static[c]

VARIABLES
  names,     \* names[c]: the index names_ has for the name of c
  parent,    \* parent[i]: vec_[i].p
  counter,   \* counter_
  mutex,     \* the thread that holds mutex_
  guard,     \* guard[c]: the thread that initialises the static of c
  cached,    \* cached[c]: the initialised static of c
  need,      \* need[t]: the statics t is on its way to, the innermost last
  op,        \* op[t]: what t calls
  at,        \* at[t]: the variable t of IsFrom's loop
  answer,    \* answer[t]: what IsFrom returned
  found,     \* found[t]: what Index returned, -1 for the exception
  made       \* the classes that have an object

statics == <<guard, cached, need>>
context == <<names, parent, counter>>
vars == <<context, mutex, statics, op, at, answer, found, made>>

TypeOK ==
  /\ names \in [Classes -> (0..Top) \cup {None}]
  /\ parent \in [0..Top -> 0..Top]
  /\ counter \in Dynamic..Top
  /\ mutex \in Threads \cup {None}
  /\ guard \in [Classes -> Threads \cup {None}]
  /\ cached \in [Classes -> (0..Top) \cup {None}]
  /\ need \in [Threads -> Seq(Classes)]
  /\ op \in [Threads -> Calls \cup {None}]
  /\ at \in [Threads -> (0..Top) \cup {None}]
  /\ answer \in [Threads -> {"yes", "no", None}]
  /\ found \in [Threads -> (-1..Top) \cup {None}]
  /\ made \in SUBSET Classes

Init ==
  /\ names = [c \in Classes |-> None]
  /\ parent = [i \in 0..Top |-> 0]
  /\ counter = Dynamic
  /\ mutex = None
  /\ guard = [c \in Classes |-> None]
  /\ cached = [c \in Classes |-> None]
  /\ need = [t \in Threads |-> <<>>]
  /\ op = [t \in Threads |-> None]
  /\ at = [t \in Threads |-> None]
  /\ answer = [t \in Threads |-> None]
  /\ found = [t \in Threads |-> None]
  /\ made = {}

-----------------------------------------------------------------------------
(* Calls a thread begins. *)

Idle(t) == op[t] = None

\* MakeObject<C> and REGISTER_TYPEINDEX(C) ask for the index of C.
MakeObject(t, c) ==
  /\ Idle(t)
  /\ op' = [op EXCEPT ![t] = [do |-> "make", class |-> c]]
  /\ need' = [need EXCEPT ![t] = <<c>>]
  /\ UNCHANGED <<context, mutex, guard, cached, at, answer, found, made>>

\* IsType<C> on an object of class o: the index of C is needed first.
IsType(t, o, c) ==
  /\ Idle(t)
  /\ o \in made
  /\ op' = [op EXCEPT ![t] = [do |-> "isFrom", class |-> c, object |-> o]]
  /\ need' = [need EXCEPT ![t] = IF c = Root THEN <<>> ELSE <<c>>]
  /\ UNCHANGED <<context, mutex, guard, cached, at, answer, found, made>>

-----------------------------------------------------------------------------
(* _GetOrAllocRuntimeTypeIndex: the function-local static. *)

Wants(t) == need[t][Len(need[t])]
Front(s) == SubSeq(s, 1, Len(s) - 1)

\* Mutant of Enter: the static of the parent is not asked for.
EnterAlone(t) ==
  /\ need[t] # <<>>
  /\ cached[Wants(t)] = None /\ guard[Wants(t)] = None
  /\ guard' = [guard EXCEPT ![Wants(t)] = t]
  /\ UNCHANGED <<context, mutex, cached, need, op, at, answer, found, made>>

\* t is the first to come: it initialises, and asks for the parent's index.
Enter(t) ==
  /\ need[t] # <<>>
  /\ cached[Wants(t)] = None /\ guard[Wants(t)] = None
  /\ guard' = [guard EXCEPT ![Wants(t)] = t]
  /\ need' = [need EXCEPT ![t] =
                IF Parent[Wants(t)] = Root THEN @ ELSE Append(@, Parent[Wants(t)])]
  /\ UNCHANGED <<context, mutex, cached, op, at, answer, found, made>>

\* The static is initialised, by t before or by the thread t waited for.
Leave(t) ==
  /\ need[t] # <<>>
  /\ cached[Wants(t)] # None
  /\ need' = [need EXCEPT ![t] = Front(@)]
  /\ UNCHANGED <<context, mutex, guard, cached, op, at, answer, found, made>>

\* Mutant of Lock: the mutex is taken before the parent has its index.
LockFirst(t) ==
  /\ need[t] # <<>>
  /\ \E k \in 1..Len(need[t]) : guard[need[t][k]] = t
  /\ mutex = None
  /\ mutex' = t
  /\ UNCHANGED <<context, statics, op, at, answer, found, made>>

\* GetOrAllocRuntimeTypeIndex takes the mutex.
Lock(t) ==
  /\ need[t] # <<>>
  /\ guard[Wants(t)] = t
  /\ mutex = None
  /\ mutex' = t
  /\ UNCHANGED <<context, statics, op, at, answer, found, made>>

\* The index RuntimeTypeIndex() of c returns once the static is there.
IndexOf(c) ==
  IF c = Root THEN 0 ELSE IF Static[c] # Dynamic THEN Static[c] ELSE cached[c]

ParentIndex(c) ==
  IF Parent[c] = Root THEN 0 ELSE cached[Parent[c]]

\* Mutant of Allocate: a new class is recorded as its own parent.
AllocateSelf(t) ==
  LET c == Wants(t)
      i == IF Static[c] # Dynamic THEN Static[c] ELSE counter
  IN  /\ need[t] # <<>> /\ guard[c] = t /\ mutex = t
      /\ names' = [names EXCEPT ![c] = i]
      /\ parent' = [parent EXCEPT ![i] = i]
      /\ counter' = IF Static[c] = Dynamic THEN counter + 1 ELSE counter
      /\ cached' = [cached EXCEPT ![c] = i]
      /\ guard' = [guard EXCEPT ![c] = None]
      /\ need' = [need EXCEPT ![t] = Front(@)]
      /\ mutex' = None
      /\ UNCHANGED <<op, at, answer, found, made>>

\* Mutant of Allocate: counter_ is not advanced.
AllocateSame(t) ==
  LET c == Wants(t)
      i == IF Static[c] # Dynamic THEN Static[c] ELSE counter
  IN  /\ need[t] # <<>> /\ guard[c] = t /\ mutex = t
      /\ names' = [names EXCEPT ![c] = i]
      /\ parent' = [parent EXCEPT ![i] = ParentIndex(c)]
      /\ cached' = [cached EXCEPT ![c] = i]
      /\ guard' = [guard EXCEPT ![c] = None]
      /\ need' = [need EXCEPT ![t] = Front(@)]
      /\ mutex' = None
      /\ UNCHANGED <<counter, op, at, answer, found, made>>

\* A name that is known keeps its index; otherwise the declared index or the
\* next free one is recorded with the parent's.  The static is initialised.
Allocate(t) ==
  LET c == Wants(t)
      new == names[c] = None
      i == IF ~ new THEN names[c]
           ELSE IF Static[c] # Dynamic THEN Static[c] ELSE counter
  IN  /\ need[t] # <<>> /\ guard[c] = t /\ mutex = t
      /\ names' = [names EXCEPT ![c] = i]
      /\ parent' = IF new THEN [parent EXCEPT ![i] = ParentIndex(c)] ELSE parent
      /\ counter' = IF new /\ Static[c] = Dynamic THEN counter + 1 ELSE counter
      /\ cached' = [cached EXCEPT ![c] = i]
      /\ guard' = [guard EXCEPT ![c] = None]
      /\ need' = [need EXCEPT ![t] = Front(@)]
      /\ mutex' = None
      /\ UNCHANGED <<op, at, answer, found, made>>

-----------------------------------------------------------------------------
(* What the calls do with the index. *)

Calling(t, what) == op[t] # None /\ op[t].do = what /\ need[t] = <<>>

\* MakeObject sets t_ of the new object.
Made(t) ==
  /\ Calling(t, "make")
  /\ made' = made \cup {op[t].class}
  /\ op' = [op EXCEPT ![t] = None]
  /\ UNCHANGED <<context, mutex, statics, at, answer, found>>

Target(t) == IndexOf(op[t].class)
Source(t) == IndexOf(op[t].object)

\* IsFrom compares first: a parent's index is never the larger one.
IsFromCompare(t) ==
  /\ Calling(t, "isFrom") /\ answer[t] = None
  /\ Source(t) <= Target(t)
  /\ answer' = [answer EXCEPT ![t] = IF Source(t) = Target(t) THEN "yes" ELSE "no"]
  /\ UNCHANGED <<context, mutex, statics, op, at, found, made>>

IsFromLock(t) ==
  /\ Calling(t, "isFrom") /\ answer[t] = None
  /\ Source(t) > Target(t)
  /\ mutex = None
  /\ mutex' = t
  /\ at' = [at EXCEPT ![t] = Source(t)]
  /\ UNCHANGED <<context, statics, op, answer, found, made>>

IsFromClimb(t) ==
  /\ at[t] # None /\ at[t] > Target(t)
  /\ at' = [at EXCEPT ![t] = parent[at[t]]]
  /\ UNCHANGED <<context, mutex, statics, op, answer, found, made>>

\* Mutant of IsFromReturn: any index reached from above counts as a match.
IsFromReturnBelow(t) ==
  /\ at[t] # None /\ at[t] <= Target(t)
  /\ answer' = [answer EXCEPT ![t] = "yes"]
  /\ at' = [at EXCEPT ![t] = None]
  /\ mutex' = None
  /\ UNCHANGED <<context, statics, op, found, made>>

IsFromReturn(t) ==
  /\ at[t] # None /\ at[t] <= Target(t)
  /\ answer' = [answer EXCEPT ![t] = IF at[t] = Target(t) THEN "yes" ELSE "no"]
  /\ at' = [at EXCEPT ![t] = None]
  /\ mutex' = None
  /\ UNCHANGED <<context, statics, op, found, made>>

\* A thread is inside GetOrAllocRuntimeTypeIndex, changing names_.
Inserting == mutex # None /\ at[mutex] = None

\* GetIndex(name) does not lock.  It finds the index or throws; while names_
\* is being changed it may do either, or return what is no index (Top).
Index(t, c) ==
  /\ Idle(t)
  /\ op' = [op EXCEPT ![t] = [do |-> "index", class |-> c]]
  /\ \E i \in {IF names[c] = None THEN -1 ELSE names[c]}
              \cup IF Inserting THEN {-1, Top} ELSE {} :
       found' = [found EXCEPT ![t] = i]
  /\ UNCHANGED <<context, mutex, statics, at, answer, made>>

\* The caller has used the result.
Return(t) ==
  /\ answer[t] # None \/ found[t] # None
  /\ op' = [op EXCEPT ![t] = None]
  /\ answer' = [answer EXCEPT ![t] = None]
  /\ found' = [found EXCEPT ![t] = None]
  /\ UNCHANGED <<context, mutex, statics, at, made>>

-----------------------------------------------------------------------------
Call(t) ==
  \/ \E c \in Classes : MakeObject(t, c) \/ Index(t, c)
  \/ \E o \in Classes, c \in Nodes : IsType(t, o, c)

Continue(t) ==
  \/ Enter(t) \/ Leave(t) \/ Lock(t) \/ Allocate(t)
  \/ Made(t)
  \/ IsFromCompare(t) \/ IsFromLock(t) \/ IsFromClimb(t) \/ IsFromReturn(t)
  \/ Return(t)

Next == \E t \in Threads : Call(t) \/ Continue(t)

Safe == Init /\ [][Next]_vars

\* A thread that can take its next step takes it some time.
Spec == Safe /\ \A t \in Threads : WF_vars(Continue(t))

-----------------------------------------------------------------------------
(* Properties. *)

\* IsFrom answers whether the class of the object is declared, directly or
\* through parents, from the class asked for (object.cc:29-42 and the check
\* behind every As<T> and IsType<T>).
IsFromAgrees ==
  \A t \in Threads :
    answer[t] # None =>
      (answer[t] = "yes" <=> op[t].class \in Ancestors(op[t].object))

\* t cannot go on before u does: u has the static or the mutex t is after.
Waits(t, u) ==
  /\ u # t
  /\ \/ need[t] # <<>> /\ guard[Wants(t)] = u
     \/ need[t] # <<>> /\ guard[Wants(t)] = t /\ mutex = u
     \/ Calling(t, "isFrom") /\ answer[t] = None /\ mutex = u

\* The guards of the statics and the mutex never wait for each other in a
\* circle: a class takes its parent's guard, never the other way round, and
\* no guard is taken under the mutex (object.h:220-232, object.cc:43-44).
NoWaitCycle ==
  \A S \in (SUBSET Threads) \ {{}} : \E t \in S : \A u \in S : ~ Waits(t, u)

\* What is recorded of an object's class never changes while the object
\* exists: no later class takes its index or another parent (object.cc:70-72).
InfoStable ==
  [][\A c \in made : IndexOf(c)' = IndexOf(c) /\ parent'[IndexOf(c)] = parent[IndexOf(c)]]_vars

\* The mutex is given back: the climb of IsFrom ends (object.cc:37-39).
MutexReleased == \A t \in Threads : mutex = t ~> mutex # t
=============================================================================
