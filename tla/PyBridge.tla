------------------------------ MODULE PyBridge ------------------------------
(***************************************************************************)
(* Python calls C++: the conversions and the calls of case_ext.cc over     *)
(* ObjectRetain, ObjectFree and FuncCall_PYTHON_C_API of c_api.cc, with    *)
(* the Module wrapper of module.py.  C code runs with the interpreter lock *)
(* held, so threads switch only while Python code runs: between calls, in  *)
(* the input callback of a Module argument and in the creator of a result. *)
(*                                                                         *)
(* A Python variable is a wrapper: an ObjectBase with a handle, or a       *)
(* Module.  The argument tuple keeps its wrappers alive during a call; any *)
(* other wrapper may be dropped.  The C++ function called is arbitrary: it *)
(* fails, returns no object, a new object made of its arguments, an        *)
(* argument, or a member of one.                                           *)
(*                                                                         *)
(* A reference is released by a step of its own, Release: the last one     *)
(* deletes the object, whose members are then due to be released as well.  *)
(***************************************************************************)
EXTENDS Integers, Sequences, FiniteSets, Functions

CONSTANTS
  Objects,    \* addresses of C++ objects
  ModuleObjects,  \* those that are modules, which Python wraps in Module
  Wrappers,   \* addresses of Python objects
  Threads,
  MaxArgs,    \* bound on the arguments of a call
  MaxLost,    \* no call starts once this many references are lost
  Text,       \* a str argument, and the heap copy made of it
  Bad,        \* an argument of an unsupported type
  None

ASSUME BoundAssumption == MaxArgs \in Nat /\ MaxLost \in Nat
ASSUME FiniteAssumption == IsFiniteSet(Objects) /\ IsFiniteSet(Wrappers) /\ IsFiniteSet(Threads)
ASSUME ObjectAssumption == ModuleObjects \subseteq Objects

WrapperRecords == [kind : {"object", "module"}, handle : Objects \cup {None}]

ASSUME DistinctAssumption ==
  /\ Text # Bad /\ Text # None /\ Bad # None
  /\ {Text, Bad, None} \cap (Objects \cup Wrappers) = {}
  /\ None \notin WrapperRecords

VARIABLES
  count,     \* count[o]: counter_ of o, 0 when it is not allocated; live copies of a str
  members,   \* members[o]: the objects o refers to
  wrapper,   \* wrapper[w]: kind and handle, or None
  frame,     \* frame[t]: the extension call t is in
  gil,       \* the thread in C code that converts or calls
  due,       \* due[o]: releases that C code has still to make
  lost       \* lost[o]: references that nothing will ever release

vars == <<count, members, wrapper, frame, gil, due, lost>>

Heap == Objects \cup {Text}
Wrapper(kind, o) == [kind |-> kind, handle |-> o]

\* self is the wrapper being constructed, None in a plain call; values are the
\* arguments converted so far and ret an object on its way to Python.
Idle == [phase |-> "idle", self |-> None, args |-> <<>>, values |-> <<>>, ret |-> None]

-----------------------------------------------------------------------------
(* Counting. *)

Occurrences(x, s) == Cardinality({i \in DOMAIN s : s[i] = x})

\* Mutant of Retain: the reference is borrowed.
Borrow(c, o) == c

Retain(c, o) == IF o = None THEN c ELSE [c EXCEPT ![o] = @ + 1]

\* One more of x in the bag b, if x is an object or a str.
Plus(b, x) == [y \in Heap |-> IF y = x THEN b[y] + 1 ELSE b[y]]

TotalLost == SumFunction(lost)

-----------------------------------------------------------------------------
Frames ==
  [phase : {"idle", "convert", "callback", "creator"},
   self : Wrappers \cup {None},
   args : Seq(Wrappers \cup {Text, Bad}),
   values : Seq(Heap \cup {None}),
   ret : Objects \cup {None}]

TypeOK ==
  /\ count \in [Heap -> Nat]
  /\ members \in [Objects -> SUBSET Objects]
  /\ wrapper \in [Wrappers -> {None} \cup WrapperRecords]
  /\ frame \in [Threads -> Frames]
  /\ \A t \in Threads : Len(frame[t].values) <= Len(frame[t].args) /\ Len(frame[t].args) <= MaxArgs
  /\ gil \in Threads \cup {None}
  /\ due \in [Heap -> Nat]
  /\ lost \in [Heap -> Nat]

Init ==
  /\ count = [x \in Heap |-> 0]
  /\ members = [o \in Objects |-> {}]
  /\ wrapper = [w \in Wrappers |-> None]
  /\ frame = [t \in Threads |-> Idle]
  /\ gil = None
  /\ due = [x \in Heap |-> 0]
  /\ lost = [x \in Heap |-> 0]

\* Python code runs: no thread is in C code, and no release is due.
Python == gil = None /\ \A x \in Heap : due[x] = 0

\* ObjectFree and ~McValue: DecCounter of x, whose last reference deletes it.
Release(x) ==
  /\ due[x] > 0
  /\ count' = [count EXCEPT ![x] = @ - 1]
  /\ IF x \in Objects /\ count[x] = 1
       THEN /\ due' = [y \in Heap |-> due[y] + (IF y \in members[x] THEN 1 ELSE 0)
                                             - (IF y = x THEN 1 ELSE 0)]
            /\ members' = [members EXCEPT ![x] = {}]
       ELSE /\ due' = [due EXCEPT ![x] = @ - 1]
            /\ UNCHANGED members
  /\ UNCHANGED <<wrapper, frame, gil, lost>>

InUse(w) == \E t \in Threads : frame[t].self = w \/ \E i \in DOMAIN frame[t].args : frame[t].args[i] = w

\* A bound: an address is left for the wrapper of every result on its way.
Room ==
  Cardinality({t \in Threads : frame[t].phase = "creator"}) < Cardinality({w \in Wrappers : wrapper[w] = None})

\* cls.__new__(cls): a wrapper with a null handle.
New(w) ==
  /\ Python /\ wrapper[w] = None /\ Room
  /\ wrapper' = [wrapper EXCEPT ![w] = Wrapper("object", None)]
  /\ UNCHANGED <<count, members, frame, gil, due, lost>>

Live == {w \in Wrappers : wrapper[w] # None}

\* f(*args), or self.__init_handle_by_constructor__(f, *args).
StartCall(t) ==
  /\ Python /\ frame[t] = Idle /\ TotalLost < MaxLost
  /\ \E self \in Live \cup {None}, n \in 0..MaxArgs :
     \E args \in [1..n -> Live \cup {Text, Bad}] :
       /\ self # None => wrapper[self].kind = "object"
       /\ frame' = [frame EXCEPT ![t] = [phase |-> "convert", self |-> self, args |-> args,
                                         values |-> <<>>, ret |-> None]]
  /\ gil' = t
  /\ UNCHANGED <<count, members, wrapper, due, lost>>

Arg(t) == frame[t].args[Len(frame[t].values) + 1]
Converting(t) == frame[t].phase = "convert" /\ Len(frame[t].values) < Len(frame[t].args)
IsModule(x) == x \in Wrappers /\ wrapper[x].kind = "module"

Converted(t, x) ==
  /\ count' = Retain(count, x)
  /\ frame' = [frame EXCEPT ![t].phase = "convert", ![t].values = Append(@, x)]
  /\ gil' = t
  /\ UNCHANGED <<members, wrapper, due, lost>>

\* One round of the loop: a str is copied, an object is retained.
Convert(t) ==
  /\ gil = t /\ Converting(t) /\ Arg(t) # Bad /\ ~IsModule(Arg(t))
  /\ Converted(t, IF Arg(t) = Text THEN Text ELSE wrapper[Arg(t)].handle)

\* A Module is converted by the Python function _conv, which retains the
\* module for an Any that never releases it; other threads run meanwhile.
EnterCallback(t) ==
  /\ gil = t /\ Converting(t) /\ IsModule(Arg(t))
  /\ frame' = [frame EXCEPT ![t].phase = "callback"]
  /\ gil' = None
  /\ UNCHANGED <<count, members, wrapper, due, lost>>

LeaveCallback(t) ==
  /\ Python /\ frame[t].phase = "callback"
  /\ Converted(t, wrapper[Arg(t)].handle)

\* FREE_ARGS: PyPackedFuncBase_call deletes the array only, the constructor
\* path frees the strings; neither releases the objects it retained.
Kept(f) == [x \in Heap |-> IF f.self # None /\ x = Text THEN 0 ELSE Occurrences(x, f.values)]
Freed(f) == [x \in Heap |-> IF f.self # None /\ x = Text THEN Occurrences(x, f.values) ELSE 0]

FreeArgs(t) == due' = [x \in Heap |-> due[x] + Freed(frame[t])[x]]
Lose(t) == [x \in Heap |-> lost[x] + Kept(frame[t])[x]]

ConvertFails(t) ==
  /\ gil = t /\ Converting(t) /\ Arg(t) = Bad
  /\ FreeArgs(t)
  /\ lost' = Lose(t)
  /\ frame' = [frame EXCEPT ![t] = Idle]
  /\ gil' = None
  /\ UNCHANGED <<count, members, wrapper>>

Given(t) == {frame[t].values[i] : i \in DOMAIN frame[t].values} \cap Objects

\* Mutant of Returned: AsValue leaves the result in rv, which releases it again.
ReturnedReleased(c, o, ms) ==
  IF c[o] > 0 THEN c ELSE [x \in Heap |-> IF x \in ms THEN c[x] + 1 ELSE c[x]]

\* The counts after a function has returned o, an object that exists or a new
\* one with the members ms.
Returned(c, o, ms) ==
  IF c[o] > 0 THEN Retain(c, o)
  ELSE [x \in Heap |-> IF x = o THEN 1 ELSE IF x \in ms THEN c[x] + 1 ELSE c[x]]

Ready(t) == gil = t /\ frame[t].phase = "convert" /\ Len(frame[t].values) = Len(frame[t].args)

\* The function fails, or returns no object: a result str is copied twice, and
\* the copy made by AsValue stays.
CallWithout(t, result) ==
  /\ Ready(t)
  /\ count' = Retain(count, result)
  /\ FreeArgs(t)
  /\ lost' = Plus(Lose(t), result)
  /\ frame' = [frame EXCEPT ![t] = Idle]
  /\ gil' = None
  /\ UNCHANGED <<members, wrapper>>

\* What the function can return: a new object with some of the arguments as
\* members, or an object it can reach.
CanReturn(t, o, ms) ==
  \/ count[o] = 0 /\ (o \in ModuleObjects => ms = {})
  \/ ms = {} /\ o \in Given(t) \cup UNION {members[g] : g \in Given(t)}

\* A plain call returns an object: the creator for its type is called.
Call(t, o, ms) ==
  /\ Ready(t) /\ frame[t].self = None /\ Room
  /\ CanReturn(t, o, ms)
  /\ count' = Returned(count, o, ms)
  /\ members' = IF count[o] = 0 THEN [members EXCEPT ![o] = ms] ELSE members
  /\ frame' = [frame EXCEPT ![t].phase = "creator", ![t].ret = o]
  /\ gil' = None
  /\ UNCHANGED <<wrapper, due, lost>>

\* The constructor returns an object: self gets it, whatever handle it had.
Construct(t, o, ms) ==
  /\ Ready(t) /\ frame[t].self # None
  /\ CanReturn(t, o, ms)
  /\ LET self == frame[t].self
     IN  /\ count' = Returned(count, o, ms)
         /\ members' = IF count[o] = 0 THEN [members EXCEPT ![o] = ms] ELSE members
         /\ FreeArgs(t)
         /\ lost' = Plus(Lose(t), wrapper[self].handle)
         /\ wrapper' = [wrapper EXCEPT ![self].handle = o]
  /\ frame' = [frame EXCEPT ![t] = Idle]
  /\ gil' = None

\* The creator has made the wrapper w; ValueSwitchToObject stores the handle.
\* Module(handle) keeps the handle as a number.
Wrap(t, w) ==
  /\ Python /\ frame[t].phase = "creator" /\ wrapper[w] = None
  /\ LET o == frame[t].ret
     IN  wrapper' = [wrapper EXCEPT
                       ![w] = Wrapper(IF o \in ModuleObjects THEN "module" ELSE "object", o)]
  /\ lost' = Lose(t)
  /\ frame' = [frame EXCEPT ![t] = Idle]
  /\ UNCHANGED <<count, members, gil, due>>

\* A wrapper is collected: PyObjectBase_finalize releases the handle, a Module
\* has no finalizer.
Finalize(w) ==
  /\ Python /\ wrapper[w] # None /\ ~InUse(w)
  /\ IF wrapper[w].kind = "module"
       THEN lost' = Plus(lost, wrapper[w].handle) /\ UNCHANGED due
       ELSE due' = Plus(due, wrapper[w].handle) /\ UNCHANGED lost
  /\ wrapper' = [wrapper EXCEPT ![w] = None]
  /\ UNCHANGED <<count, members, frame, gil>>

Next ==
  \/ \E w \in Wrappers : New(w) \/ Finalize(w)
  \/ \E x \in Heap : Release(x)
  \/ \E t \in Threads :
       \/ StartCall(t) \/ Convert(t) \/ EnterCallback(t) \/ LeaveCallback(t) \/ ConvertFails(t)
       \/ \E result \in {None, Text} : CallWithout(t, result)
       \/ \E o \in Objects, ms \in SUBSET Given(t) : Call(t, o, ms)
       \/ \E o \in Objects, ms \in SUBSET Given(t) : Construct(t, o, ms)
       \/ \E w \in Wrappers : Wrap(t, w)

Safe == Init /\ [][Next]_vars
-----------------------------------------------------------------------------
(* Properties. *)

\* What refers to x: wrappers, members, converted arguments and results.
Handles(x) == {w \in Wrappers : wrapper[w] # None /\ wrapper[w].handle = x}
Owners(x) == {p \in Objects : x \in members[p]}
Arguments(x) ==
  {p \in Threads \X (1..MaxArgs) :
     p[2] <= Len(frame[p[1]].values) /\ frame[p[1]].values[p[2]] = x}
Results(x) == {t \in Threads : frame[t].ret = x}

References(x) ==
  Cardinality(Handles(x)) + Cardinality(Owners(x)) + Cardinality(Arguments(x)) + Cardinality(Results(x))

\* Whatever Python or a call in progress holds exists: the object behind a
\* wrapper, a converted argument, a result waiting for its wrapper, and a
\* member of an object that exists (case_ext.cc:327-339, 477-485, 595-601).
HandleLive == \A o \in Objects : References(o) > 0 => count[o] > 0

\* The counter of an object is the number of its holders, of the releases that
\* are due and of the references that a call has lost; no path loses or drops
\* any other (case_ext.cc:577-601, 647-658, 858-863).
Accounted == \A x \in Heap : count[x] = References(x) + due[x] + lost[x]
=============================================================================
