---------------------------- MODULE PyBridgeProofs ----------------------------
(***************************************************************************)
(* The accounts of PyBridge, for any threads, wrappers, objects and bound  *)
(* on arguments: each counter is the number of references, the releases    *)
(* that are due and the references that were lost.                         *)
(*                                                                         *)
(* A step changes one wrapper, the members of one object, or the frame of  *)
(* one thread, so each of the four sets behind References gains or loses   *)
(* elements in one place: the lemmas of the first part say how many.       *)
(***************************************************************************)
EXTENDS PyBridge, FiniteSetTheorems, SequenceTheorems, TLAPS

\* The frame of a thread that has a result is that of a plain call; the
\* argument for which a callback runs is a wrapper.
FrameShape(t) ==
  /\ frame[t].phase # "creator" => frame[t].ret = None
  /\ frame[t].phase = "creator" => frame[t].ret \in Objects /\ frame[t].self = None
  /\ frame[t].phase = "callback" =>
       Len(frame[t].values) < Len(frame[t].args) /\ Arg(t) \in Wrappers

\* What a call was given is not collected before it is done.
ArgsExist(t) ==
  /\ frame[t].self # None => wrapper[frame[t].self] # None
  /\ \A i \in 1..Len(frame[t].args) :
       frame[t].args[i] \in Wrappers => wrapper[frame[t].args[i]] # None

\* An object that was deleted has no members.
DeadIsEmpty == \A o \in Objects : count[o] = 0 => members[o] = {}

IInv ==
  /\ TypeOK
  /\ \A t \in Threads : FrameShape(t)
  /\ \A t \in Threads : ArgsExist(t)
  /\ DeadIsEmpty
  /\ Accounted

(***************************************************************************)
(* Counting.                                                               *)
(***************************************************************************)

One(p) == IF p THEN 1 ELSE 0

\* Two sets that differ in e at most.
LEMMA CardStep ==
  ASSUME NEW S, NEW T, IsFiniteSet(S), NEW e, S \ {e} = T \ {e}
  PROVE  /\ IsFiniteSet(T)
         /\ Cardinality(T) \in Nat /\ Cardinality(S) \in Nat
         /\ Cardinality(T) = Cardinality(S) - One(e \in S) + One(e \in T)
  <1>1. /\ IsFiniteSet(S \ {e})
        /\ Cardinality(S \ {e}) = Cardinality(S) - One(e \in S)
    BY FS_RemoveElement, FS_CardinalityType DEF One
  <1>2. CASE e \in T
    <2>1. T = (S \ {e}) \cup {e}
      BY <1>2
    <2>2. IsFiniteSet(T) /\ Cardinality(T) = Cardinality(S \ {e}) + 1
      BY <1>1, <2>1, FS_AddElement
    <2> QED BY <1>1, <1>2, <2>2, FS_CardinalityType DEF One
  <1>3. CASE e \notin T
    <2>1. T = S \ {e}
      BY <1>3
    <2> QED BY <1>1, <1>3, <2>1, FS_CardinalityType DEF One
  <1> QED BY <1>2, <1>3

LEMMA ReferenceSets ==
  ASSUME NEW x
  PROVE  /\ IsFiniteSet(Handles(x)) /\ IsFiniteSet(Owners(x))
         /\ IsFiniteSet(Arguments(x)) /\ IsFiniteSet(Results(x))
  <1>1. IsFiniteSet(Threads \X (1..MaxArgs))
    <2>1. IsFiniteSet(1..MaxArgs)
      BY FS_Interval, BoundAssumption
    <2> QED BY <2>1, FS_Product, FiniteAssumption
  <1>2. Handles(x) \subseteq Wrappers /\ Owners(x) \subseteq Objects /\ Results(x) \subseteq Threads
    BY DEF Handles, Owners, Results
  <1>3. Arguments(x) \subseteq Threads \X (1..MaxArgs)
    BY DEF Arguments
  <1> QED BY <1>1, <1>2, <1>3, FS_Subset, FiniteAssumption

LEMMA ReferencesNat ==
  ASSUME NEW x
  PROVE  /\ Cardinality(Handles(x)) \in Nat /\ Cardinality(Owners(x)) \in Nat
         /\ Cardinality(Arguments(x)) \in Nat /\ Cardinality(Results(x)) \in Nat
         /\ References(x) \in Nat
  BY ReferenceSets, FS_CardinalityType DEF References

\* One wrapper changes.
LEMMA HandlesStep ==
  ASSUME NEW w \in Wrappers, \A v \in Wrappers \ {w} : wrapper'[v] = wrapper[v], NEW x
  PROVE  Cardinality(Handles(x)') =
           Cardinality(Handles(x)) - One(wrapper[w] # None /\ wrapper[w].handle = x)
                                   + One(wrapper'[w] # None /\ wrapper'[w].handle = x)
  <1>1. Handles(x) \ {w} = Handles(x)' \ {w}
    BY DEF Handles
  <1>2. /\ w \in Handles(x) <=> wrapper[w] # None /\ wrapper[w].handle = x
        /\ w \in Handles(x)' <=> wrapper'[w] # None /\ wrapper'[w].handle = x
    BY DEF Handles
  <1>3. Cardinality(Handles(x)') =
          Cardinality(Handles(x)) - One(w \in Handles(x)) + One(w \in Handles(x)')
    BY <1>1, CardStep, ReferenceSets
  <1> QED BY <1>2, <1>3 DEF One

\* The members of one object change.
LEMMA OwnersStep ==
  ASSUME NEW o \in Objects, \A p \in Objects \ {o} : members'[p] = members[p], NEW x
  PROVE  Cardinality(Owners(x)') =
           Cardinality(Owners(x)) - One(x \in members[o]) + One(x \in members'[o])
  <1>1. Owners(x) \ {o} = Owners(x)' \ {o}
    BY DEF Owners
  <1>2. (o \in Owners(x) <=> x \in members[o]) /\ (o \in Owners(x)' <=> x \in members'[o])
    BY DEF Owners
  <1>3. Cardinality(Owners(x)') = Cardinality(Owners(x)) - One(o \in Owners(x)) + One(o \in Owners(x)')
    BY <1>1, CardStep, ReferenceSets
  <1> QED BY <1>2, <1>3 DEF One

\* One frame changes: its result.
LEMMA ResultsStep ==
  ASSUME NEW t \in Threads, \A u \in Threads \ {t} : frame'[u] = frame[u], NEW x
  PROVE  Cardinality(Results(x)') =
           Cardinality(Results(x)) - One(frame[t].ret = x) + One(frame'[t].ret = x)
  <1>1. Results(x) \ {t} = Results(x)' \ {t}
    BY DEF Results
  <1>2. (t \in Results(x) <=> frame[t].ret = x) /\ (t \in Results(x)' <=> frame'[t].ret = x)
    BY DEF Results
  <1>3. Cardinality(Results(x)') = Cardinality(Results(x)) - One(t \in Results(x)) + One(t \in Results(x)')
    BY <1>1, CardStep, ReferenceSets
  <1> QED BY <1>2, <1>3 DEF One

\* One frame changes: it has one argument more.
LEMMA ArgumentsGrow ==
  ASSUME TypeOK, NEW t \in Threads, \A u \in Threads \ {t} : frame'[u] = frame[u],
         NEW v \in Heap \cup {None}, frame'[t].values = Append(frame[t].values, v),
         Len(frame[t].values) < MaxArgs, NEW x
  PROVE  Cardinality(Arguments(x)') = Cardinality(Arguments(x)) + One(v = x)
  <1> DEFINE n == Len(frame[t].values) + 1
             e == <<t, n>>
  <1>1. /\ frame[t].values \in Seq(Heap \cup {None})
        /\ n \in 1..MaxArgs /\ Len(frame'[t].values) = n
        /\ frame'[t].values[n] = v
        /\ \A i \in 1..(n - 1) : frame'[t].values[i] = frame[t].values[i]
    BY BoundAssumption DEF TypeOK, Frames
  <1>2. e \notin Arguments(x) /\ (e \in Arguments(x)' <=> v = x)
    BY <1>1 DEF Arguments
  <1>3. ASSUME NEW p, p # e PROVE p \in Arguments(x) <=> p \in Arguments(x)'
    <2>1. ASSUME p \in Threads \X (1..MaxArgs)
          PROVE  (p[2] <= Len(frame[p[1]].values) /\ frame[p[1]].values[p[2]] = x) <=>
                 (p[2] <= Len(frame'[p[1]].values) /\ frame'[p[1]].values[p[2]] = x)
      <3>1. PICK u \in Threads, i \in 1..MaxArgs : p = <<u, i>>
        BY <2>1
      <3>2. CASE u # t
        BY <3>1, <3>2
      <3>3. CASE u = t
        <4>1. i # n /\ p[1] = t /\ p[2] = i
          BY <1>3, <3>1, <3>3
        <4>2. CASE i < n
          <5>1. i \in 1..(n - 1) /\ n - 1 = Len(frame[t].values)
            BY <1>1, <4>2
          <5>2. /\ frame'[t].values[i] = frame[t].values[i]
                /\ i <= Len(frame'[t].values) /\ i <= Len(frame[t].values)
            BY <1>1, <5>1
          <5> QED BY <4>1, <5>2
        <4>3. CASE i > n
          BY <1>1, <4>1, <4>3
        <4> QED BY <1>1, <4>1, <4>2, <4>3
      <3> QED BY <3>2, <3>3
    <2> QED BY <2>1 DEF Arguments
  <1>4. Arguments(x) \ {e} = Arguments(x)' \ {e}
    BY <1>3
  <1>5. Cardinality(Arguments(x)') =
          Cardinality(Arguments(x)) - One(e \in Arguments(x)) + One(e \in Arguments(x)')
    BY <1>4, CardStep, ReferenceSets
  <1> QED BY <1>2, <1>5, ReferencesNat DEF One

\* One frame changes: it has no arguments any more.
LEMMA ArgumentsDropped ==
  ASSUME TypeOK, NEW t \in Threads, \A u \in Threads \ {t} : frame'[u] = frame[u],
         frame'[t].values = <<>>, NEW x
  PROVE  /\ Occurrences(x, frame[t].values) \in Nat
         /\ Cardinality(Arguments(x)') = Cardinality(Arguments(x)) - Occurrences(x, frame[t].values)
  <1> DEFINE s == frame[t].values
             D == {i \in DOMAIN s : s[i] = x}
  <1>1. s \in Seq(Heap \cup {None}) /\ Len(s) <= MaxArgs /\ Len(s) \in Nat /\ DOMAIN s = 1..Len(s)
    BY BoundAssumption DEF TypeOK, Frames
  <1>2. IsFiniteSet(D) /\ Cardinality(D) \in Nat
    <2>1. IsFiniteSet(1..Len(s)) /\ D \in SUBSET (1..Len(s))
      BY <1>1, FS_Interval
    <2> QED BY <2>1, FS_Subset, FS_CardinalityType
  <1>3. IsFiniteSet({t} \X D) /\ Cardinality({t} \X D) = Cardinality(D)
    <2>1. IsFiniteSet({t}) /\ Cardinality({t}) = 1
      BY FS_Singleton
    <2>2. /\ IsFiniteSet({t} \X D)
          /\ Cardinality({t} \X D) = Cardinality({t}) * Cardinality(D)
      BY <1>2, <2>1, FS_Product
    <2> QED BY <1>2, <2>1, <2>2
  <1>4. ASSUME NEW p \in Threads \X (1..MaxArgs)
        PROVE  p \in Arguments(x) <=> p \in Arguments(x)' \/ p \in {t} \X D
    <2>1. PICK u \in Threads, i \in 1..MaxArgs : p = <<u, i>>
      OBVIOUS
    <2>2. p \in Arguments(x) <=> i <= Len(frame[u].values) /\ frame[u].values[i] = x
      BY <2>1 DEF Arguments
    <2>3. p \in Arguments(x)' <=> i <= Len(frame'[u].values) /\ frame'[u].values[i] = x
      BY <2>1 DEF Arguments
    <2>4. p \in {t} \X D <=> u = t /\ i \in D
      BY <2>1
    <2>5. CASE u = t
      <3>1. p \notin Arguments(x)'
        BY <2>3, <2>5
      <3> QED BY <1>1, <2>2, <2>4, <2>5, <3>1, BoundAssumption
    <2>6. CASE u # t
      BY <2>2, <2>3, <2>4, <2>6
    <2> QED BY <2>5, <2>6
  <1>5. ASSUME NEW p \in {t} \X D PROVE p \in Threads \X (1..MaxArgs) /\ p \notin Arguments(x)'
    <2>1. PICK i \in D : p = <<t, i>>
      OBVIOUS
    <2>2. i \in 1..MaxArgs
      BY <1>1, <2>1, BoundAssumption
    <2> QED BY <2>1, <2>2 DEF Arguments
  <1>6. Arguments(x) = Arguments(x)' \cup ({t} \X D) /\ Arguments(x)' \cap ({t} \X D) = {}
    <2>1. Arguments(x) \subseteq Threads \X (1..MaxArgs) /\ Arguments(x)' \subseteq Threads \X (1..MaxArgs)
      BY DEF Arguments
    <2> QED BY <1>4, <1>5, <2>1
  <1>7. IsFiniteSet(Arguments(x)')
    BY <1>6, ReferenceSets, FS_Subset
  <1>8. Cardinality(Arguments(x)) = Cardinality(Arguments(x)') + Cardinality(D)
    <2>1. Cardinality(Arguments(x)) =
            Cardinality(Arguments(x)') + Cardinality({t} \X D)
              - Cardinality(Arguments(x)' \cap ({t} \X D))
      BY <1>3, <1>6, <1>7, FS_Union
    <2>2. Cardinality(Arguments(x)' \cap ({t} \X D)) = 0
      BY <1>6, FS_EmptySet
    <2>3. Cardinality(Arguments(x)') \in Nat
      BY <1>7, FS_CardinalityType
    <2> QED BY <1>2, <1>3, <2>1, <2>2, <2>3
  <1> QED BY <1>2, <1>7, <1>8, FS_CardinalityType DEF Occurrences

\* One frame changes, with the values it has.
LEMMA ArgumentsKept ==
  ASSUME NEW t \in Threads, \A u \in Threads \ {t} : frame'[u] = frame[u],
         frame'[t].values = frame[t].values, NEW x
  PROVE  Arguments(x)' = Arguments(x)
  <1>1. \A u \in Threads : frame'[u].values = frame[u].values
    OBVIOUS
  <1> QED BY <1>1 DEF Arguments

(***************************************************************************)
(* Types, and what frames refer to.                                        *)
(***************************************************************************)

LEMMA HeapTypes ==
  /\ Objects \subseteq Heap /\ Text \in Heap /\ None \notin Heap /\ Text \notin Objects
  /\ None \notin Wrappers /\ Text \notin Wrappers /\ Bad \notin Wrappers
  BY DistinctAssumption DEF Heap

LEMMA RetainType ==
  ASSUME NEW c \in [Heap -> Nat], NEW o \in Heap \cup {None}
  PROVE  /\ Retain(c, o) \in [Heap -> Nat]
         /\ \A x \in Heap : Retain(c, o)[x] = c[x] + One(x = o)
  BY HeapTypes DEF Retain, One

LEMMA ReturnedType ==
  ASSUME NEW c \in [Heap -> Nat], NEW o \in Objects, NEW ms \in SUBSET Objects
  PROVE  /\ Returned(c, o, ms) \in [Heap -> Nat]
         /\ c[o] > 0 => \A x \in Heap : Returned(c, o, ms)[x] = c[x] + One(x = o)
         /\ c[o] = 0 => \A x \in Heap : Returned(c, o, ms)[x] =
                          IF x = o THEN 1 ELSE c[x] + One(x \in ms)
  <1>1. o \in Heap /\ c[o] \in Nat
    BY HeapTypes
  <1>2. CASE c[o] > 0
    BY <1>1, <1>2, RetainType DEF Returned
  <1>3. CASE c[o] = 0
    BY <1>1, <1>3 DEF Returned, One
  <1> QED BY <1>1, <1>2, <1>3

LEMMA PlusType ==
  ASSUME NEW b \in [Heap -> Nat], NEW o
  PROVE  /\ Plus(b, o) \in [Heap -> Nat]
         /\ \A x \in Heap : Plus(b, o)[x] = b[x] + One(x = o)
  BY DEF Plus, One

LEMMA OccurrencesNat ==
  ASSUME TypeOK, NEW t \in Threads, NEW x
  PROVE  Occurrences(x, frame[t].values) \in Nat
  <1>1. PICK n \in Nat : DOMAIN frame[t].values = 1..n
    BY DEF TypeOK, Frames
  <1>2. IsFiniteSet(1..n)
    BY FS_Interval
  <1>3. IsFiniteSet({i \in DOMAIN frame[t].values : frame[t].values[i] = x})
    BY <1>1, <1>2, FS_Subset
  <1> QED BY <1>3, FS_CardinalityType DEF Occurrences

\* What a call gives up at its end is freed or lost.
LEMMA Parting ==
  ASSUME TypeOK, NEW t \in Threads
  PROVE  /\ Lose(t) \in [Heap -> Nat]
         /\ FreeArgs(t) => due' \in [Heap -> Nat]
         /\ FreeArgs(t) => \A x \in Heap :
              due'[x] + Lose(t)[x] = due[x] + lost[x] + Occurrences(x, frame[t].values)
         /\ frame[t].self = None => \A x \in Heap :
              Lose(t)[x] = lost[x] + Occurrences(x, frame[t].values)
  <1>1. \A x : Occurrences(x, frame[t].values) \in Nat
    BY OccurrencesNat
  <1>2. due \in [Heap -> Nat] /\ lost \in [Heap -> Nat]
    BY DEF TypeOK
  <1>3. \A x \in Heap :
          /\ Kept(frame[t])[x] \in Nat /\ Freed(frame[t])[x] \in Nat
          /\ Kept(frame[t])[x] + Freed(frame[t])[x] = Occurrences(x, frame[t].values)
          /\ frame[t].self = None => Kept(frame[t])[x] = Occurrences(x, frame[t].values)
    BY <1>1 DEF Kept, Freed
  <1> QED BY <1>1, <1>2, <1>3 DEF Lose, FreeArgs

LEMMA IdleType == Idle \in Frames
  BY EmptySeq DEF Idle, Frames

\* The wrapper that is converted next, or the text.
LEMMA ArgType ==
  ASSUME TypeOK, NEW t \in Threads, Len(frame[t].values) < Len(frame[t].args)
  PROVE  /\ Len(frame[t].values) + 1 \in 1..Len(frame[t].args)
         /\ Arg(t) = frame[t].args[Len(frame[t].values) + 1]
         /\ Arg(t) \in Wrappers \cup {Text, Bad}
  <1>1. frame[t].args \in Seq(Wrappers \cup {Text, Bad}) /\ frame[t].values \in Seq(Heap \cup {None})
    BY DEF TypeOK, Frames
  <1>2. Len(frame[t].values) + 1 \in 1..Len(frame[t].args)
    BY <1>1
  <1> QED BY <1>1, <1>2, ElementOfSeq DEF Arg

\* A record that describes a wrapper is not None.
LEMMA RecordNotNone ==
  ASSUME NEW r \in WrapperRecords
  PROVE  r # None
  BY DistinctAssumption

LEMMA HandleType ==
  ASSUME TypeOK, NEW w \in Wrappers, wrapper[w] # None
  PROVE  wrapper[w].handle \in Objects \cup {None}
  BY DEF TypeOK, WrapperRecords

\* The next argument, as Convert and LeaveCallback convert it.
LEMMA ConvertedType ==
  ASSUME IInv, NEW t \in Threads, Convert(t) \/ LeaveCallback(t)
  PROVE  \E v \in Heap \cup {None} :
           /\ Converted(t, v)
           /\ Len(frame[t].values) < Len(frame[t].args)
           /\ frame[t].phase \in {"convert", "callback"}
  <1>1. Len(frame[t].values) < Len(frame[t].args) /\ frame[t].phase \in {"convert", "callback"}
    BY DEF Convert, LeaveCallback, Converting, IInv, FrameShape
  <1>2. /\ Len(frame[t].values) + 1 \in 1..Len(frame[t].args)
        /\ Arg(t) = frame[t].args[Len(frame[t].values) + 1]
        /\ Arg(t) \in Wrappers \cup {Text, Bad}
    BY <1>1, ArgType DEF IInv
  <1>3. Arg(t) \in Wrappers => wrapper[Arg(t)].handle \in Heap \cup {None}
    BY <1>2, HandleType, HeapTypes DEF IInv, ArgsExist
  <1>4. CASE Convert(t)
    BY <1>1, <1>2, <1>3, <1>4, HeapTypes DEF Convert
  <1>5. CASE LeaveCallback(t)
    BY <1>1, <1>3, <1>5 DEF LeaveCallback, IInv, FrameShape
  <1> QED BY <1>4, <1>5

\* The frame behind a conversion.
LEMMA ConvertedFrame ==
  ASSUME TypeOK, NEW t \in Threads, NEW v \in Heap \cup {None}, Converted(t, v),
         Len(frame[t].values) < Len(frame[t].args)
  PROVE  /\ \A u \in Threads \ {t} : frame'[u] = frame[u]
         /\ frame'[t] \in Frames /\ frame' \in [Threads -> Frames]
         /\ frame'[t].phase = "convert" /\ frame'[t].self = frame[t].self
         /\ frame'[t].args = frame[t].args /\ frame'[t].ret = frame[t].ret
         /\ frame'[t].values = Append(frame[t].values, v)
         /\ Len(frame'[t].values) = Len(frame[t].values) + 1
         /\ Len(frame[t].values) < MaxArgs
  <1>1. /\ frame \in [Threads -> Frames] /\ frame[t].values \in Seq(Heap \cup {None})
        /\ frame[t].args \in Seq(Wrappers \cup {Text, Bad})
    BY DEF TypeOK, Frames
  <1>2. frame' = [frame EXCEPT ![t] = [frame[t] EXCEPT !.phase = "convert", !.values = Append(@, v)]]
    BY DEF Converted
  <1>3. Append(frame[t].values, v) \in Seq(Heap \cup {None})
    BY <1>1
  <1>4. frame'[t] = [frame[t] EXCEPT !.phase = "convert", !.values = Append(frame[t].values, v)]
    BY <1>1, <1>2
  <1>5. frame'[t] \in Frames
    <2>1. frame'[t] = [phase |-> "convert", self |-> frame[t].self, args |-> frame[t].args,
                       values |-> Append(frame[t].values, v), ret |-> frame[t].ret]
      <3>1. frame[t] \in Frames
        BY <1>1
      <3> QED BY <1>4, <3>1 DEF Frames
    <2>2. /\ frame[t].self \in Wrappers \cup {None} /\ frame[t].ret \in Objects \cup {None}
          /\ frame[t].args \in Seq(Wrappers \cup {Text, Bad})
      BY <1>1 DEF Frames
    <2> QED BY <1>3, <2>1, <2>2 DEF Frames
  <1>6. Len(frame[t].values) < MaxArgs
    BY <1>1, BoundAssumption DEF TypeOK
  <1> QED BY <1>1, <1>2, <1>4, <1>5, <1>6 DEF Frames

(***************************************************************************)
(* What the steps have in common.                                          *)
(***************************************************************************)

\* The threads whose frames stay.
LEMMA OthersFramed ==
  ASSUME IInv, NEW u \in Threads, frame'[u] = frame[u],
         \A w \in Wrappers : wrapper[w] # None => wrapper'[w] # None
  PROVE  /\ FrameShape(u)' /\ ArgsExist(u)'
         /\ Len(frame'[u].values) <= Len(frame'[u].args) /\ Len(frame'[u].args) <= MaxArgs
  <1>1. FrameShape(u)'
    BY DEF IInv, FrameShape, Arg
  <1>2. frame[u].self \in Wrappers \cup {None}
    BY DEF IInv, TypeOK, Frames
  <1>3. ArgsExist(u)'
    BY <1>2 DEF IInv, ArgsExist
  <1> QED BY <1>1, <1>3 DEF IInv, TypeOK

\* The thread whose call is over.
LEMMA IdleFramed ==
  ASSUME TypeOK, NEW t \in Threads, frame' = [frame EXCEPT ![t] = Idle]
  PROVE  /\ frame' \in [Threads -> Frames]
         /\ \A u \in Threads \ {t} : frame'[u] = frame[u]
         /\ frame'[t].values = <<>> /\ frame'[t].ret = None
         /\ FrameShape(t)' /\ ArgsExist(t)'
         /\ Len(frame'[t].values) <= Len(frame'[t].args) /\ Len(frame'[t].args) <= MaxArgs
  <1>1. /\ frame' \in [Threads -> Frames] /\ frame'[t] = Idle
        /\ \A u \in Threads \ {t} : frame'[u] = frame[u]
    BY IdleType DEF TypeOK
  <1>2. Len(<<>>) = 0 /\ 0 <= MaxArgs
    BY BoundAssumption
  <1>3. FrameShape(t)'
    BY <1>1 DEF FrameShape, Idle
  <1>4. ArgsExist(t)'
    BY <1>1, <1>2 DEF ArgsExist, Idle
  <1> QED BY <1>1, <1>2, <1>3, <1>4 DEF Idle

\* The account of one object, item by item.
LEMMA Account ==
  ASSUME IInv, NEW x \in Heap
  PROVE  /\ count[x] = Cardinality(Handles(x)) + Cardinality(Owners(x))
                       + Cardinality(Arguments(x)) + Cardinality(Results(x)) + due[x] + lost[x]
         /\ Cardinality(Handles(x)) \in Nat /\ Cardinality(Owners(x)) \in Nat
         /\ Cardinality(Arguments(x)) \in Nat /\ Cardinality(Results(x)) \in Nat
         /\ count[x] \in Nat /\ due[x] \in Nat /\ lost[x] \in Nat
  BY ReferencesNat DEF IInv, TypeOK, Accounted, References

\* A step that leaves frames alone.
LEMMA FramesSame ==
  ASSUME frame' = frame, NEW x
  PROVE  Arguments(x)' = Arguments(x) /\ Results(x)' = Results(x)
  BY DEF Arguments, Results

(***************************************************************************)
(* The steps.                                                              *)
(***************************************************************************)

LEMMA NewInv ==
  ASSUME IInv, NEW w \in Wrappers, New(w)
  PROVE  IInv'
  <1>1. /\ \A v \in Wrappers \ {w} : wrapper'[v] = wrapper[v]
        /\ wrapper[w] = None /\ wrapper'[w] = Wrapper("object", None)
        /\ UNCHANGED <<count, members, frame, gil, due, lost>>
    BY DEF New, IInv, TypeOK
  <1>2. TypeOK'
    BY DEF New, IInv, TypeOK, Wrapper, WrapperRecords
  <1>3. \A v \in Wrappers : wrapper[v] # None => wrapper'[v] # None
    BY <1>1
  <1>4. \A u \in Threads : FrameShape(u)' /\ ArgsExist(u)'
    BY <1>1, <1>3, OthersFramed
  <1>5. DeadIsEmpty'
    BY <1>1 DEF IInv, DeadIsEmpty
  <1>6. ASSUME NEW x \in Heap PROVE count'[x] = References(x)' + due'[x] + lost'[x]
    <2>1. Cardinality(Handles(x)') = Cardinality(Handles(x))
      <3>1. ~(wrapper'[w] # None /\ wrapper'[w].handle = x)
        BY <1>1, HeapTypes DEF Wrapper
      <3> QED BY <1>1, <3>1, HandlesStep, ReferencesNat DEF One
    <2>2. Owners(x)' = Owners(x)
      BY <1>1 DEF Owners
    <2> QED BY <1>1, <2>1, <2>2, FramesSame, Account DEF References
  <1> QED BY <1>2, <1>4, <1>5, <1>6 DEF IInv, Accounted

\* A step of a frame that moves no reference.
LEMMA FrameOnlyInv ==
  ASSUME IInv, NEW t \in Threads, UNCHANGED <<count, members, wrapper, due, lost>>,
         frame' \in [Threads -> Frames], \A u \in Threads \ {t} : frame'[u] = frame[u],
         frame'[t].values = frame[t].values, frame'[t].ret = frame[t].ret,
         Len(frame'[t].values) <= Len(frame'[t].args), Len(frame'[t].args) <= MaxArgs,
         FrameShape(t)', ArgsExist(t)', gil' \in Threads \cup {None}
  PROVE  IInv'
  <1>1. \A u \in Threads : /\ FrameShape(u)' /\ ArgsExist(u)'
                           /\ Len(frame'[u].values) <= Len(frame'[u].args)
                           /\ Len(frame'[u].args) <= MaxArgs
    BY OthersFramed
  <1>2. TypeOK'
    BY <1>1 DEF IInv, TypeOK
  <1>3. DeadIsEmpty'
    BY DEF IInv, DeadIsEmpty
  <1>4. ASSUME NEW x \in Heap PROVE count'[x] = References(x)' + due'[x] + lost'[x]
    <2>1. Handles(x)' = Handles(x) /\ Owners(x)' = Owners(x)
      BY DEF Handles, Owners
    <2>2. Arguments(x)' = Arguments(x)
      BY ArgumentsKept
    <2>3. Results(x)' = Results(x)
      BY DEF Results
    <2> QED BY <2>1, <2>2, <2>3, Account DEF References
  <1> QED BY <1>1, <1>2, <1>3, <1>4 DEF IInv, Accounted

LEMMA StartCallInv ==
  ASSUME IInv, NEW t \in Threads, StartCall(t)
  PROVE  IInv'
  <1>0. PICK self \in Live \cup {None}, n \in 0..MaxArgs :
          \E args \in [1..n -> Live \cup {Text, Bad}] :
            frame' = [frame EXCEPT ![t] = [phase |-> "convert", self |-> self, args |-> args,
                                           values |-> <<>>, ret |-> None]]
    BY DEF StartCall
  <1>1. PICK args \in [1..n -> Live \cup {Text, Bad}] :
          frame' = [frame EXCEPT ![t] = [phase |-> "convert", self |-> self, args |-> args,
                                         values |-> <<>>, ret |-> None]]
    BY <1>0
  <1>2. /\ frame[t] = Idle /\ gil' = t
        /\ UNCHANGED <<count, members, wrapper, due, lost>>
    BY DEF StartCall
  <1>3. args \in Seq(Wrappers \cup {Text, Bad}) /\ Len(args) = n
    BY BoundAssumption DEF Live
  <1>4. [phase |-> "convert", self |-> self, args |-> args, values |-> <<>>, ret |-> None] \in Frames
    BY <1>3, EmptySeq DEF Frames, Live
  <1>5. /\ frame' \in [Threads -> Frames] /\ \A u \in Threads \ {t} : frame'[u] = frame[u]
        /\ frame'[t] = [phase |-> "convert", self |-> self, args |-> args,
                        values |-> <<>>, ret |-> None]
    BY <1>1, <1>4 DEF IInv, TypeOK
  <1>6. /\ frame'[t].values = frame[t].values /\ frame'[t].ret = frame[t].ret
        /\ Len(frame'[t].values) <= Len(frame'[t].args) /\ Len(frame'[t].args) <= MaxArgs
    BY <1>2, <1>3, <1>5, BoundAssumption DEF Idle
  <1>7. FrameShape(t)'
    BY <1>5 DEF FrameShape
  <1>8. ArgsExist(t)'
    BY <1>2, <1>3, <1>5, HeapTypes DEF ArgsExist, Live
  <1> QED BY <1>2, <1>5, <1>6, <1>7, <1>8, FrameOnlyInv

LEMMA EnterCallbackInv ==
  ASSUME IInv, NEW t \in Threads, EnterCallback(t)
  PROVE  IInv'
  <1>1. /\ frame' = [frame EXCEPT ![t] = [frame[t] EXCEPT !.phase = "callback"]]
        /\ frame[t].phase = "convert" /\ Len(frame[t].values) < Len(frame[t].args)
        /\ Arg(t) \in Wrappers /\ gil' = None
        /\ UNCHANGED <<count, members, wrapper, due, lost>>
    BY DEF EnterCallback, Converting, IsModule
  <1>2. [frame[t] EXCEPT !.phase = "callback"] \in Frames /\ frame[t] \in Frames
    BY DEF IInv, TypeOK, Frames
  <1>3. /\ frame' \in [Threads -> Frames] /\ \A u \in Threads \ {t} : frame'[u] = frame[u]
        /\ frame'[t].phase = "callback" /\ frame'[t].self = frame[t].self
        /\ frame'[t].args = frame[t].args /\ frame'[t].values = frame[t].values
        /\ frame'[t].ret = frame[t].ret
    BY <1>1, <1>2 DEF IInv, TypeOK, Frames
  <1>4. FrameShape(t)'
    BY <1>1, <1>3 DEF IInv, FrameShape, Arg
  <1>5. ArgsExist(t)'
    BY <1>1, <1>3 DEF IInv, ArgsExist
  <1>6. Len(frame'[t].values) <= Len(frame'[t].args) /\ Len(frame'[t].args) <= MaxArgs
    BY <1>3 DEF IInv, TypeOK
  <1> QED BY <1>1, <1>3, <1>4, <1>5, <1>6, FrameOnlyInv

LEMMA ConvertedInv ==
  ASSUME IInv, NEW t \in Threads, Convert(t) \/ LeaveCallback(t)
  PROVE  IInv'
  <1>1. PICK v \in Heap \cup {None} :
           /\ Converted(t, v)
           /\ Len(frame[t].values) < Len(frame[t].args)
           /\ frame[t].phase \in {"convert", "callback"}
    BY ConvertedType
  <1>2. /\ \A u \in Threads \ {t} : frame'[u] = frame[u]
        /\ frame'[t] \in Frames /\ frame' \in [Threads -> Frames]
        /\ frame'[t].phase = "convert" /\ frame'[t].self = frame[t].self
        /\ frame'[t].args = frame[t].args /\ frame'[t].ret = frame[t].ret
        /\ frame'[t].values = Append(frame[t].values, v)
        /\ Len(frame'[t].values) = Len(frame[t].values) + 1
        /\ Len(frame[t].values) < MaxArgs
    BY <1>1, ConvertedFrame DEF IInv
  <1>3. /\ count' = Retain(count, v) /\ gil' = t
        /\ UNCHANGED <<members, wrapper, due, lost>>
    BY <1>1 DEF Converted
  <1>4. count' \in [Heap -> Nat] /\ \A x \in Heap : count'[x] = count[x] + One(x = v)
    <2>1. count \in [Heap -> Nat]
      BY DEF IInv, TypeOK
    <2> QED BY <1>3, <2>1, RetainType
  <1>5. FrameShape(t)' /\ ArgsExist(t)'
    BY <1>1, <1>2, <1>3 DEF IInv, FrameShape, ArgsExist
  <1>6. Len(frame'[t].values) <= Len(frame'[t].args) /\ Len(frame'[t].args) <= MaxArgs
    <2>1. Len(frame[t].values) \in Nat /\ Len(frame[t].args) \in Nat
      BY DEF IInv, TypeOK, Frames
    <2> QED BY <1>1, <1>2, <2>1 DEF IInv, TypeOK
  <1>7. \A u \in Threads : /\ FrameShape(u)' /\ ArgsExist(u)'
                           /\ Len(frame'[u].values) <= Len(frame'[u].args)
                           /\ Len(frame'[u].args) <= MaxArgs
    BY <1>2, <1>3, <1>5, <1>6, OthersFramed
  <1>8. TypeOK'
    BY <1>2, <1>3, <1>4, <1>7 DEF IInv, TypeOK
  <1>9. DeadIsEmpty'
    <2>1. \A o \in Objects : count[o] \in Nat /\ count'[o] \in Nat /\ count'[o] >= count[o]
      BY <1>4, HeapTypes DEF IInv, TypeOK, One
    <2> QED BY <1>3, <2>1 DEF IInv, DeadIsEmpty
  <1>10. ASSUME NEW x \in Heap PROVE count'[x] = References(x)' + due'[x] + lost'[x]
    <2>1. Handles(x)' = Handles(x) /\ Owners(x)' = Owners(x)
      BY <1>3 DEF Handles, Owners
    <2>2. Cardinality(Arguments(x)') = Cardinality(Arguments(x)) + One(v = x)
      BY <1>2, ArgumentsGrow DEF IInv
    <2>3. Results(x)' = Results(x)
      BY <1>2 DEF Results
    <2> QED BY <1>3, <1>4, <2>1, <2>2, <2>3, Account DEF References, One
  <1> QED BY <1>7, <1>8, <1>9, <1>10 DEF IInv, Accounted

\* The call of t is over, without a result or with one that has its wrapper.
LEMMA OverInv ==
  ASSUME IInv, NEW t \in Threads, frame' = [frame EXCEPT ![t] = Idle],
         \A w \in Wrappers : wrapper[w] # None => wrapper'[w] # None,
         TypeOK', DeadIsEmpty',
         \A x \in Heap :
           count'[x] = count[x] + (due'[x] + lost'[x]) - (due[x] + lost[x])
                       + Cardinality(Handles(x)') - Cardinality(Handles(x))
                       + Cardinality(Owners(x)') - Cardinality(Owners(x))
                       - Occurrences(x, frame[t].values) - One(frame[t].ret = x)
  PROVE  IInv'
  <1>1. /\ \A u \in Threads \ {t} : frame'[u] = frame[u]
        /\ frame'[t].values = <<>> /\ frame'[t].ret = None
        /\ FrameShape(t)' /\ ArgsExist(t)'
    BY IdleFramed DEF IInv
  <1>2. \A u \in Threads : FrameShape(u)' /\ ArgsExist(u)'
    BY <1>1, OthersFramed
  <1>3. ASSUME NEW x \in Heap PROVE count'[x] = References(x)' + due'[x] + lost'[x]
    <2>1. /\ Occurrences(x, frame[t].values) \in Nat
          /\ Cardinality(Arguments(x)') = Cardinality(Arguments(x)) - Occurrences(x, frame[t].values)
      BY <1>1, ArgumentsDropped DEF IInv
    <2>2. Cardinality(Results(x)') = Cardinality(Results(x)) - One(frame[t].ret = x)
      <3>1. None # x
        BY HeapTypes
      <3>2. Cardinality(Results(x)') =
              Cardinality(Results(x)) - One(frame[t].ret = x) + One(frame'[t].ret = x)
        BY <1>1, ResultsStep
      <3> QED BY <1>1, <3>1, <3>2, ReferencesNat DEF One
    <2>3. Cardinality(Handles(x)') \in Nat /\ Cardinality(Owners(x)') \in Nat
      <3>1. IsFiniteSet(Handles(x)') /\ IsFiniteSet(Owners(x)')
        <4>1. Handles(x)' \subseteq Wrappers /\ Owners(x)' \subseteq Objects
          BY DEF Handles, Owners
        <4> QED BY <4>1, FS_Subset, FiniteAssumption
      <3> QED BY <3>1, FS_CardinalityType
    <2>4. due'[x] \in Nat /\ lost'[x] \in Nat
      BY DEF TypeOK
    <2> QED BY <2>1, <2>2, <2>3, <2>4, Account DEF References, One
  <1> QED BY <1>2, <1>3 DEF IInv, Accounted

\* The types behind the end of a call.
LEMMA OverTypes ==
  ASSUME IInv, NEW t \in Threads, frame' = [frame EXCEPT ![t] = Idle],
         count' \in [Heap -> Nat], members' \in [Objects -> SUBSET Objects],
         wrapper' \in [Wrappers -> {None} \cup WrapperRecords],
         gil' \in Threads \cup {None}, due' \in [Heap -> Nat], lost' \in [Heap -> Nat]
  PROVE  TypeOK'
  <1>1. /\ frame' \in [Threads -> Frames]
        /\ \A u \in Threads \ {t} : frame'[u] = frame[u]
        /\ Len(frame'[t].values) <= Len(frame'[t].args) /\ Len(frame'[t].args) <= MaxArgs
    BY IdleFramed DEF IInv
  <1> QED BY <1>1 DEF IInv, TypeOK

LEMMA ConvertFailsInv ==
  ASSUME IInv, NEW t \in Threads, ConvertFails(t)
  PROVE  IInv'
  <1>1. /\ frame' = [frame EXCEPT ![t] = Idle] /\ gil' = None
        /\ FreeArgs(t) /\ lost' = Lose(t) /\ frame[t].ret = None
        /\ UNCHANGED <<count, members, wrapper>>
    BY DEF ConvertFails, Converting, IInv, FrameShape
  <1>2. /\ due' \in [Heap -> Nat] /\ lost' \in [Heap -> Nat]
        /\ \A x \in Heap :
             due'[x] + lost'[x] = due[x] + lost[x] + Occurrences(x, frame[t].values)
    BY <1>1, Parting DEF IInv
  <1>3. TypeOK' /\ DeadIsEmpty'
    BY <1>1, <1>2, OverTypes DEF IInv, TypeOK, DeadIsEmpty
  <1>4. ASSUME NEW x \in Heap
        PROVE  count'[x] = count[x] + (due'[x] + lost'[x]) - (due[x] + lost[x])
                           + Cardinality(Handles(x)') - Cardinality(Handles(x))
                           + Cardinality(Owners(x)') - Cardinality(Owners(x))
                           - Occurrences(x, frame[t].values) - One(frame[t].ret = x)
    <2>1. Handles(x)' = Handles(x) /\ Owners(x)' = Owners(x)
      BY <1>1 DEF Handles, Owners
    <2>2. One(frame[t].ret = x) = 0
      BY <1>1, HeapTypes DEF One
    <2>3. Occurrences(x, frame[t].values) \in Nat
      BY OccurrencesNat DEF IInv
    <2> QED BY <1>1, <1>2, <2>1, <2>2, <2>3, Account
  <1> QED BY <1>1, <1>3, <1>4, OverInv

LEMMA CallWithoutInv ==
  ASSUME IInv, NEW t \in Threads, NEW result \in {None, Text}, CallWithout(t, result)
  PROVE  IInv'
  <1>1. /\ frame' = [frame EXCEPT ![t] = Idle] /\ gil' = None
        /\ count' = Retain(count, result)
        /\ FreeArgs(t) /\ lost' = Plus(Lose(t), result) /\ frame[t].ret = None
        /\ UNCHANGED <<members, wrapper>>
    BY DEF CallWithout, Ready, IInv, FrameShape
  <1>2. /\ due' \in [Heap -> Nat] /\ Lose(t) \in [Heap -> Nat]
        /\ \A x \in Heap :
             due'[x] + Lose(t)[x] = due[x] + lost[x] + Occurrences(x, frame[t].values)
    BY <1>1, Parting DEF IInv
  <1>3. lost' \in [Heap -> Nat] /\ \A x \in Heap : lost'[x] = Lose(t)[x] + One(x = result)
    BY <1>1, <1>2, PlusType
  <1>4. count' \in [Heap -> Nat] /\ \A x \in Heap : count'[x] = count[x] + One(x = result)
    <2>1. count \in [Heap -> Nat] /\ result \in Heap \cup {None}
      BY HeapTypes DEF IInv, TypeOK
    <2> QED BY <1>1, <2>1, RetainType
  <1>5. TypeOK'
    BY <1>1, <1>2, <1>3, <1>4, OverTypes DEF IInv, TypeOK
  <1>6. DeadIsEmpty'
    <2>1. \A o \in Objects : count[o] \in Nat /\ count'[o] \in Nat /\ count'[o] >= count[o]
      BY <1>4, HeapTypes DEF IInv, TypeOK, One
    <2> QED BY <1>1, <2>1 DEF IInv, DeadIsEmpty
  <1>7. ASSUME NEW x \in Heap
        PROVE  count'[x] = count[x] + (due'[x] + lost'[x]) - (due[x] + lost[x])
                           + Cardinality(Handles(x)') - Cardinality(Handles(x))
                           + Cardinality(Owners(x)') - Cardinality(Owners(x))
                           - Occurrences(x, frame[t].values) - One(frame[t].ret = x)
    <2>1. Handles(x)' = Handles(x) /\ Owners(x)' = Owners(x)
      BY <1>1 DEF Handles, Owners
    <2>2. One(frame[t].ret = x) = 0
      BY <1>1, HeapTypes DEF One
    <2>3. /\ Occurrences(x, frame[t].values) \in Nat
          /\ due'[x] \in Nat /\ Lose(t)[x] \in Nat /\ One(x = result) \in Nat
      BY <1>2, OccurrencesNat DEF IInv, One
    <2>4. /\ count'[x] = count[x] + One(x = result) /\ lost'[x] = Lose(t)[x] + One(x = result)
          /\ due'[x] + Lose(t)[x] = due[x] + lost[x] + Occurrences(x, frame[t].values)
      BY <1>2, <1>3, <1>4
    <2>5. /\ Cardinality(Handles(x)') = Cardinality(Handles(x))
          /\ Cardinality(Owners(x)') = Cardinality(Owners(x))
          /\ Cardinality(Handles(x)) \in Nat /\ Cardinality(Owners(x)) \in Nat
          /\ count[x] \in Nat /\ due[x] \in Nat /\ lost[x] \in Nat
      BY <2>1, Account
    <2> QED BY <2>2, <2>3, <2>4, <2>5
  <1> QED BY <1>1, <1>5, <1>6, <1>7, OverInv

LEMMA HeldLive ==
  ASSUME IInv, NEW x \in Heap,
         Handles(x) # {} \/ Owners(x) # {} \/ Arguments(x) # {} \/ Results(x) # {}
  PROVE  References(x) > 0 /\ count[x] > 0
  <1>1. \/ Cardinality(Handles(x)) # 0 \/ Cardinality(Owners(x)) # 0
        \/ Cardinality(Arguments(x)) # 0 \/ Cardinality(Results(x)) # 0
    BY ReferenceSets, FS_EmptySet
  <1>2. /\ Cardinality(Handles(x)) \in Nat /\ Cardinality(Owners(x)) \in Nat
        /\ Cardinality(Arguments(x)) \in Nat /\ Cardinality(Results(x)) \in Nat
    BY ReferencesNat
  <1>3. References(x) \in Nat /\ References(x) # 0
    BY <1>1, <1>2 DEF References
  <1>4. count[x] = References(x) + due[x] + lost[x] /\ due[x] \in Nat /\ lost[x] \in Nat
    BY DEF IInv, TypeOK, Accounted
  <1> QED BY <1>3, <1>4

\* A member of an object, and what a call was given, exist.
LEMMA MemberLive ==
  ASSUME IInv, NEW p \in Objects, NEW x \in members[p]
  PROVE  x \in Objects /\ count[x] > 0
  <1>1. x \in Objects
    BY DEF IInv, TypeOK
  <1>2. Owners(x) # {}
    BY DEF Owners
  <1> QED BY <1>1, <1>2, HeapTypes, HeldLive

LEMMA GivenLive ==
  ASSUME IInv, NEW t \in Threads, NEW g \in Given(t)
  PROVE  g \in Objects /\ count[g] > 0
  <1>1. g \in Objects
    BY DEF Given
  <1>2. PICK i \in DOMAIN frame[t].values : frame[t].values[i] = g
    BY DEF Given
  <1>3. /\ frame[t].values \in Seq(Heap \cup {None})
        /\ Len(frame[t].values) <= Len(frame[t].args) /\ Len(frame[t].args) <= MaxArgs
        /\ Len(frame[t].args) \in Nat
    BY DEF IInv, TypeOK, Frames
  <1>4. i \in 1..MaxArgs /\ i <= Len(frame[t].values)
    BY <1>3, BoundAssumption
  <1>5. <<t, i>> \in Arguments(g)
    BY <1>2, <1>4 DEF Arguments
  <1> QED BY <1>1, <1>5, HeapTypes, HeldLive

\* A function returns an object: one reference more to it, and one to each
\* member of a new one.
LEMMA ReturnedAccount ==
  ASSUME IInv, NEW t \in Threads, NEW o \in Objects, NEW ms \in SUBSET Given(t),
         CanReturn(t, o, ms), count' = Returned(count, o, ms),
         members' = IF count[o] = 0 THEN [members EXCEPT ![o] = ms] ELSE members
  PROVE  /\ count' \in [Heap -> Nat] /\ members' \in [Objects -> SUBSET Objects]
         /\ DeadIsEmpty'
         /\ \A x \in Heap :
              count'[x] = count[x] + One(x = o) + Cardinality(Owners(x)') - Cardinality(Owners(x))
  <1>1. /\ count \in [Heap -> Nat] /\ members \in [Objects -> SUBSET Objects]
        /\ o \in Heap /\ count[o] \in Nat
    BY HeapTypes DEF IInv, TypeOK
  <1>2. ms \subseteq Objects /\ \A g \in ms : count[g] > 0
    BY GivenLive
  <1>3. CASE count[o] = 0
    <2>1. o \notin ms /\ members[o] = {}
      BY <1>2, <1>3 DEF IInv, DeadIsEmpty
    <2>2. /\ count' \in [Heap -> Nat]
          /\ \A x \in Heap : count'[x] = IF x = o THEN 1 ELSE count[x] + One(x \in ms)
      BY <1>1, <1>2, <1>3, ReturnedType
    <2>3. /\ members' \in [Objects -> SUBSET Objects] /\ members'[o] = ms
          /\ \A p \in Objects \ {o} : members'[p] = members[p]
      BY <1>1, <1>2, <1>3
    <2>4. DeadIsEmpty'
      <3>1. ASSUME NEW p \in Objects, count'[p] = 0 PROVE members'[p] = {}
        <4>1. p # o /\ p \in Heap /\ count[p] \in Nat
          BY <1>1, <2>2, <3>1, HeapTypes
        <4>2. count[p] = 0
          BY <2>2, <3>1, <4>1 DEF One
        <4> QED BY <2>3, <4>1, <4>2 DEF IInv, DeadIsEmpty
      <3> QED BY <3>1 DEF DeadIsEmpty
    <2>5. ASSUME NEW x \in Heap
          PROVE  count'[x] = count[x] + One(x = o) + Cardinality(Owners(x)') - Cardinality(Owners(x))
      <3>1. Cardinality(Owners(x)') = Cardinality(Owners(x)) + One(x \in ms)
        <4>1. Cardinality(Owners(x)') =
                Cardinality(Owners(x)) - One(x \in members[o]) + One(x \in members'[o])
          BY <2>3, OwnersStep
        <4>2. One(x \in members[o]) = 0 /\ One(x \in members'[o]) = One(x \in ms)
          BY <2>1, <2>3 DEF One
        <4> QED BY <4>1, <4>2, ReferencesNat DEF One
      <3>2. Cardinality(Owners(x)) \in Nat /\ count[x] \in Nat
        BY <1>1, ReferencesNat
      <3> QED BY <1>3, <2>1, <2>2, <3>1, <3>2 DEF One
    <2> QED BY <2>2, <2>3, <2>4, <2>5
  <1>4. CASE count[o] > 0
    <2>1. count' \in [Heap -> Nat] /\ \A x \in Heap : count'[x] = count[x] + One(x = o)
      BY <1>1, <1>2, <1>4, ReturnedType
    <2>2. members' = members
      BY <1>4
    <2>3. DeadIsEmpty'
      <3>1. \A p \in Objects : count[p] \in Nat /\ count'[p] >= count[p]
        BY <1>1, <2>1, HeapTypes DEF One
      <3> QED BY <1>1, <2>1, <2>2, <3>1, HeapTypes DEF IInv, DeadIsEmpty
    <2>4. \A x : Cardinality(Owners(x)') = Cardinality(Owners(x)) /\ Cardinality(Owners(x)) \in Nat
      BY <2>2, ReferencesNat DEF Owners
    <2> QED BY <1>1, <2>1, <2>2, <2>3, <2>4 DEF One
  <1> QED BY <1>1, <1>3, <1>4

LEMMA CallInv ==
  ASSUME IInv, NEW t \in Threads, NEW o \in Objects, NEW ms \in SUBSET Given(t), Call(t, o, ms)
  PROVE  IInv'
  <1>1. /\ frame' = [frame EXCEPT ![t] = [frame[t] EXCEPT !.phase = "creator", !.ret = o]]
        /\ frame[t].self = None /\ frame[t].ret = None /\ gil' = None
        /\ UNCHANGED <<wrapper, due, lost>>
    BY DEF Call, Ready, IInv, FrameShape
  <1>2. frame[t] \in Frames /\ [frame[t] EXCEPT !.phase = "creator", !.ret = o] \in Frames
    BY DEF IInv, TypeOK, Frames
  <1>3. /\ frame' \in [Threads -> Frames] /\ \A u \in Threads \ {t} : frame'[u] = frame[u]
        /\ frame'[t].phase = "creator" /\ frame'[t].self = None
        /\ frame'[t].args = frame[t].args /\ frame'[t].values = frame[t].values
        /\ frame'[t].ret = o
    BY <1>1, <1>2 DEF IInv, TypeOK, Frames
  <1>4. /\ count' \in [Heap -> Nat] /\ members' \in [Objects -> SUBSET Objects] /\ DeadIsEmpty'
        /\ \A x \in Heap :
             count'[x] = count[x] + One(x = o) + Cardinality(Owners(x)') - Cardinality(Owners(x))
    BY ReturnedAccount DEF Call
  <1>5. FrameShape(t)' /\ ArgsExist(t)'
    BY <1>1, <1>3 DEF IInv, FrameShape, ArgsExist
  <1>6. \A u \in Threads : /\ FrameShape(u)' /\ ArgsExist(u)'
                           /\ Len(frame'[u].values) <= Len(frame'[u].args)
                           /\ Len(frame'[u].args) <= MaxArgs
    <2>1. Len(frame'[t].values) <= Len(frame'[t].args) /\ Len(frame'[t].args) <= MaxArgs
      BY <1>3 DEF IInv, TypeOK
    <2>2. \A w \in Wrappers : wrapper[w] # None => wrapper'[w] # None
      BY <1>1
    <2> QED BY <1>3, <1>5, <2>1, <2>2, OthersFramed
  <1>7. TypeOK'
    BY <1>1, <1>3, <1>4, <1>6 DEF IInv, TypeOK
  <1>8. ASSUME NEW x \in Heap PROVE count'[x] = References(x)' + due'[x] + lost'[x]
    <2>1. Handles(x)' = Handles(x) /\ Arguments(x)' = Arguments(x)
      BY <1>1, <1>3, ArgumentsKept DEF Handles
    <2>2. Cardinality(Results(x)') = Cardinality(Results(x)) + One(x = o)
      <3>1. Cardinality(Results(x)') =
              Cardinality(Results(x)) - One(frame[t].ret = x) + One(frame'[t].ret = x)
        BY <1>3, ResultsStep
      <3>2. One(frame[t].ret = x) = 0 /\ One(frame'[t].ret = x) = One(x = o)
        BY <1>1, <1>3, HeapTypes DEF One
      <3> QED BY <3>1, <3>2, ReferencesNat DEF One
    <2>3. Cardinality(Owners(x)') \in Nat
      <3>1. IsFiniteSet(Owners(x)')
        BY FS_Subset, FiniteAssumption DEF Owners
      <3> QED BY <3>1, FS_CardinalityType
    <2>4. count'[x] = count[x] + One(x = o) + Cardinality(Owners(x)') - Cardinality(Owners(x))
      BY <1>4
    <2> QED BY <1>1, <2>1, <2>2, <2>3, <2>4, Account DEF References, One
  <1> QED BY <1>4, <1>6, <1>7, <1>8 DEF IInv, Accounted

LEMMA ConstructInv ==
  ASSUME IInv, NEW t \in Threads, NEW o \in Objects, NEW ms \in SUBSET Given(t), Construct(t, o, ms)
  PROVE  IInv'
  <1> DEFINE self == frame[t].self
             old == wrapper[self].handle
  <1>1. /\ frame' = [frame EXCEPT ![t] = Idle] /\ gil' = None /\ FreeArgs(t)
        /\ lost' = Plus(Lose(t), old)
        /\ wrapper' = [wrapper EXCEPT ![self] = [wrapper[self] EXCEPT !.handle = o]]
        /\ frame[t].ret = None
    BY DEF Construct, Ready, IInv, FrameShape
  <1>2. self \in Wrappers /\ wrapper[self] # None
    BY DEF Construct, Ready, IInv, TypeOK, Frames, ArgsExist
  <1>3. /\ wrapper[self] \in WrapperRecords
        /\ wrapper \in [Wrappers -> {None} \cup WrapperRecords]
    BY <1>2 DEF IInv, TypeOK
  <1>4. /\ wrapper' \in [Wrappers -> {None} \cup WrapperRecords]
        /\ \A v \in Wrappers \ {self} : wrapper'[v] = wrapper[v]
        /\ wrapper'[self] = [wrapper[self] EXCEPT !.handle = o]
    BY <1>1, <1>2, <1>3 DEF WrapperRecords
  <1>5. wrapper'[self].handle = o /\ wrapper'[self] # None
    <2>1. wrapper[self] = [kind |-> wrapper[self].kind, handle |-> old]
      BY <1>3 DEF WrapperRecords
    <2>2. wrapper'[self] = [kind |-> wrapper[self].kind, handle |-> o]
      BY <1>4, <2>1
    <2> QED BY <2>2, <1>3, <1>4, RecordNotNone DEF WrapperRecords
  <1>6. /\ due' \in [Heap -> Nat] /\ Lose(t) \in [Heap -> Nat]
        /\ \A x \in Heap :
             due'[x] + Lose(t)[x] = due[x] + lost[x] + Occurrences(x, frame[t].values)
    BY <1>1, Parting DEF IInv
  <1>7. lost' \in [Heap -> Nat] /\ \A x \in Heap : lost'[x] = Lose(t)[x] + One(x = old)
    BY <1>1, <1>6, PlusType
  <1>8. /\ count' \in [Heap -> Nat] /\ members' \in [Objects -> SUBSET Objects] /\ DeadIsEmpty'
        /\ \A x \in Heap :
             count'[x] = count[x] + One(x = o) + Cardinality(Owners(x)') - Cardinality(Owners(x))
    BY ReturnedAccount DEF Construct
  <1>9. TypeOK'
    BY <1>1, <1>4, <1>6, <1>7, <1>8, OverTypes
  <1>10. ASSUME NEW x \in Heap
         PROVE  count'[x] = count[x] + (due'[x] + lost'[x]) - (due[x] + lost[x])
                            + Cardinality(Handles(x)') - Cardinality(Handles(x))
                            + Cardinality(Owners(x)') - Cardinality(Owners(x))
                            - Occurrences(x, frame[t].values) - One(frame[t].ret = x)
    <2>1. Cardinality(Handles(x)') = Cardinality(Handles(x)) - One(x = old) + One(x = o)
      <3>1. Cardinality(Handles(x)') =
              Cardinality(Handles(x)) - One(wrapper[self] # None /\ wrapper[self].handle = x)
                                      + One(wrapper'[self] # None /\ wrapper'[self].handle = x)
        BY <1>2, <1>4, HandlesStep
      <3> QED BY <1>2, <1>5, <3>1 DEF One
    <2>2. One(frame[t].ret = x) = 0
      BY <1>1, HeapTypes DEF One
    <2>3. /\ Occurrences(x, frame[t].values) \in Nat
          /\ due'[x] \in Nat /\ Lose(t)[x] \in Nat /\ One(x = old) \in Nat /\ One(x = o) \in Nat
      BY <1>6, OccurrencesNat DEF IInv, One
    <2>4. /\ count'[x] = count[x] + One(x = o) + Cardinality(Owners(x)') - Cardinality(Owners(x))
          /\ lost'[x] = Lose(t)[x] + One(x = old)
          /\ due'[x] + Lose(t)[x] = due[x] + lost[x] + Occurrences(x, frame[t].values)
      BY <1>6, <1>7, <1>8
    <2>5. /\ Cardinality(Handles(x)) \in Nat /\ Cardinality(Owners(x)) \in Nat
          /\ count[x] \in Nat /\ due[x] \in Nat /\ lost[x] \in Nat
      BY Account
    <2>6. Cardinality(Owners(x)') \in Nat
      <3>1. IsFiniteSet(Owners(x)')
        BY FS_Subset, FiniteAssumption DEF Owners
      <3> QED BY <3>1, FS_CardinalityType
    <2> HIDE DEF self, old
    <2> QED BY <2>1, <2>2, <2>3, <2>4, <2>5, <2>6
  <1>11. \A w \in Wrappers : wrapper[w] # None => wrapper'[w] # None
    BY <1>4, <1>5
  <1> QED BY <1>1, <1>8, <1>9, <1>10, <1>11, OverInv

LEMMA WrapInv ==
  ASSUME IInv, NEW t \in Threads, NEW w \in Wrappers, Wrap(t, w)
  PROVE  IInv'
  <1> DEFINE o == frame[t].ret
             kind == IF o \in ModuleObjects THEN "module" ELSE "object"
  <1>1. /\ frame' = [frame EXCEPT ![t] = Idle] /\ wrapper[w] = None
        /\ lost' = Lose(t) /\ wrapper' = [wrapper EXCEPT ![w] = Wrapper(kind, o)]
        /\ o \in Objects /\ frame[t].self = None
        /\ UNCHANGED <<count, members, gil, due>>
    BY DEF Wrap, IInv, FrameShape
  <1>2. Wrapper(kind, o) \in WrapperRecords
    BY <1>1 DEF Wrapper, WrapperRecords
  <1>3. wrapper'[w] = Wrapper(kind, o) /\ \A v \in Wrappers \ {w} : wrapper'[v] = wrapper[v]
    BY <1>1 DEF IInv, TypeOK
  <1>4. wrapper'[w] # None /\ wrapper'[w].handle = o
    BY <1>2, <1>3, RecordNotNone DEF Wrapper
  <1>5. /\ lost' \in [Heap -> Nat]
        /\ \A x \in Heap : lost'[x] = lost[x] + Occurrences(x, frame[t].values)
    BY <1>1, Parting DEF IInv
  <1>6. wrapper' \in [Wrappers -> {None} \cup WrapperRecords]
    BY <1>1, <1>2 DEF IInv, TypeOK
  <1>7. TypeOK'
    BY <1>1, <1>5, <1>6, OverTypes DEF IInv, TypeOK
  <1>8. DeadIsEmpty'
    BY <1>1 DEF IInv, DeadIsEmpty
  <1>9. ASSUME NEW x \in Heap
        PROVE  count'[x] = count[x] + (due'[x] + lost'[x]) - (due[x] + lost[x])
                           + Cardinality(Handles(x)') - Cardinality(Handles(x))
                           + Cardinality(Owners(x)') - Cardinality(Owners(x))
                           - Occurrences(x, frame[t].values) - One(frame[t].ret = x)
    <2>1. Cardinality(Handles(x)') = Cardinality(Handles(x)) + One(frame[t].ret = x)
      <3>1. Cardinality(Handles(x)') =
              Cardinality(Handles(x)) - One(wrapper[w] # None /\ wrapper[w].handle = x)
                                      + One(wrapper'[w] # None /\ wrapper'[w].handle = x)
        BY <1>3, HandlesStep
      <3> QED BY <1>1, <1>4, <3>1, ReferencesNat DEF One
    <2>2. Owners(x)' = Owners(x)
      BY <1>1 DEF Owners
    <2>3. Occurrences(x, frame[t].values) \in Nat /\ One(frame[t].ret = x) \in Nat
      BY OccurrencesNat DEF IInv, One
    <2>4. /\ count'[x] = count[x] /\ due'[x] = due[x]
          /\ lost'[x] = lost[x] + Occurrences(x, frame[t].values)
          /\ Cardinality(Owners(x)') = Cardinality(Owners(x))
      BY <1>1, <1>5, <2>2
    <2>5. /\ Cardinality(Handles(x)) \in Nat /\ Cardinality(Owners(x)) \in Nat
          /\ count[x] \in Nat /\ due[x] \in Nat /\ lost[x] \in Nat
      BY Account
    <2> QED BY <2>1, <2>3, <2>4, <2>5
  <1>10. \A v \in Wrappers : wrapper[v] # None => wrapper'[v] # None
    BY <1>3, <1>4
  <1> QED BY <1>1, <1>7, <1>8, <1>9, <1>10, OverInv

LEMMA FinalizeInv ==
  ASSUME IInv, NEW w \in Wrappers, Finalize(w)
  PROVE  IInv'
  <1> DEFINE h == wrapper[w].handle
  <1>1. /\ wrapper' = [wrapper EXCEPT ![w] = None] /\ wrapper[w] # None /\ ~InUse(w)
        /\ UNCHANGED <<count, members, frame, gil>>
    BY DEF Finalize
  <1>2. /\ wrapper' \in [Wrappers -> {None} \cup WrapperRecords] /\ wrapper'[w] = None
        /\ \A v \in Wrappers \ {w} : wrapper'[v] = wrapper[v]
    BY <1>1 DEF IInv, TypeOK
  <1>3. /\ due' \in [Heap -> Nat] /\ lost' \in [Heap -> Nat]
        /\ \A x \in Heap : due'[x] + lost'[x] = due[x] + lost[x] + One(x = h)
    <2>1. due \in [Heap -> Nat] /\ lost \in [Heap -> Nat]
      BY DEF IInv, TypeOK
    <2>2. CASE lost' = Plus(lost, h) /\ due' = due
      BY <2>1, <2>2, PlusType DEF One
    <2>3. CASE due' = Plus(due, h) /\ lost' = lost
      BY <2>1, <2>3, PlusType DEF One
    <2> QED BY <2>2, <2>3 DEF Finalize
  <1>4. ASSUME NEW u \in Threads PROVE FrameShape(u)' /\ ArgsExist(u)'
    <2>1. FrameShape(u)'
      BY <1>1 DEF IInv, FrameShape, Arg
    <2>2. frame[u].self \in Wrappers \cup {None} /\ frame[u].self # w
      BY <1>1 DEF IInv, TypeOK, Frames, InUse
    <2>3. ASSUME NEW i \in 1..Len(frame[u].args), frame[u].args[i] \in Wrappers
          PROVE  wrapper'[frame[u].args[i]] # None
      <3>1. DOMAIN frame[u].args = 1..Len(frame[u].args)
        BY DEF IInv, TypeOK, Frames
      <3>2. frame[u].args[i] # w
        BY <1>1, <3>1 DEF InUse
      <3> QED BY <1>2, <2>3, <3>2 DEF IInv, ArgsExist
    <2>4. ArgsExist(u)'
      BY <1>1, <1>2, <2>2, <2>3 DEF IInv, ArgsExist
    <2> QED BY <2>1, <2>4
  <1>5. TypeOK' /\ DeadIsEmpty'
    BY <1>1, <1>2, <1>3 DEF IInv, TypeOK, DeadIsEmpty
  <1>6. ASSUME NEW x \in Heap PROVE count'[x] = References(x)' + due'[x] + lost'[x]
    <2>1. Cardinality(Handles(x)') = Cardinality(Handles(x)) - One(x = h)
      <3>1. Cardinality(Handles(x)') =
              Cardinality(Handles(x)) - One(wrapper[w] # None /\ wrapper[w].handle = x)
                                      + One(wrapper'[w] # None /\ wrapper'[w].handle = x)
        BY <1>2, HandlesStep
      <3> QED BY <1>1, <1>2, <3>1, ReferencesNat DEF One
    <2>2. Owners(x)' = Owners(x) /\ Arguments(x)' = Arguments(x) /\ Results(x)' = Results(x)
      BY <1>1, FramesSame DEF Owners
    <2>3. /\ One(x = h) \in Nat /\ count'[x] = count[x]
          /\ due'[x] + lost'[x] = due[x] + lost[x] + One(x = h)
          /\ due'[x] \in Nat /\ lost'[x] \in Nat
      BY <1>1, <1>3 DEF One
    <2>4. References(x)' = Cardinality(Handles(x)') + Cardinality(Owners(x))
                           + Cardinality(Arguments(x)) + Cardinality(Results(x))
      BY <2>2 DEF References
    <2>5. /\ count[x] = Cardinality(Handles(x)) + Cardinality(Owners(x))
                        + Cardinality(Arguments(x)) + Cardinality(Results(x)) + due[x] + lost[x]
          /\ Cardinality(Handles(x)) \in Nat /\ Cardinality(Owners(x)) \in Nat
          /\ Cardinality(Arguments(x)) \in Nat /\ Cardinality(Results(x)) \in Nat
          /\ count[x] \in Nat /\ due[x] \in Nat /\ lost[x] \in Nat
      BY Account
    <2> HIDE DEF h
    <2> QED BY <2>1, <2>3, <2>4, <2>5
  <1> QED BY <1>4, <1>5, <1>6 DEF IInv, Accounted

LEMMA ReleaseInv ==
  ASSUME IInv, NEW x \in Heap, Release(x)
  PROVE  IInv'
  <1>1. /\ count \in [Heap -> Nat] /\ members \in [Objects -> SUBSET Objects]
        /\ due \in [Heap -> Nat] /\ lost \in [Heap -> Nat]
        /\ due[x] > 0 /\ count' = [count EXCEPT ![x] = @ - 1]
        /\ UNCHANGED <<wrapper, frame, gil, lost>>
    BY DEF Release, IInv, TypeOK
  <1>2. count[x] > 0
    <2>1. References(x) \in Nat /\ count[x] = References(x) + due[x] + lost[x]
      BY ReferencesNat DEF IInv, Accounted
    <2> QED BY <1>1, <2>1
  <1>3. count' \in [Heap -> Nat] /\ \A y \in Heap : count'[y] = count[y] - One(y = x)
    BY <1>1, <1>2 DEF One
  <1>4. \A u \in Threads : FrameShape(u)' /\ ArgsExist(u)'
    BY <1>1, OthersFramed
  <1>5. /\ due' \in [Heap -> Nat] /\ members' \in [Objects -> SUBSET Objects] /\ DeadIsEmpty'
        /\ \A y \in Heap :
             due'[y] = due[y] - One(y = x) - Cardinality(Owners(y)') + Cardinality(Owners(y))
    <2>1. CASE x \in Objects /\ count[x] = 1
      <3>1. due' = [y \in Heap |-> due[y] + (IF y \in members[x] THEN 1 ELSE 0)
                                          - (IF y = x THEN 1 ELSE 0)]
        BY <2>1 DEF Release
      <3>2. /\ due' \in [Heap -> Nat]
            /\ \A y \in Heap : due'[y] = due[y] + One(y \in members[x]) - One(y = x)
        BY <1>1, <3>1 DEF One
      <3>3. /\ members' \in [Objects -> SUBSET Objects] /\ members'[x] = {}
            /\ \A p \in Objects \ {x} : members'[p] = members[p]
        BY <1>1, <2>1 DEF Release
      <3>4. DeadIsEmpty'
        <4>1. \A p \in Objects \ {x} : count'[p] = count[p]
          BY <1>1, HeapTypes
        <4> QED BY <3>3, <4>1 DEF IInv, DeadIsEmpty
      <3>5. ASSUME NEW y \in Heap
            PROVE  due'[y] = due[y] - One(y = x) - Cardinality(Owners(y)') + Cardinality(Owners(y))
        <4>1. Cardinality(Owners(y)') = Cardinality(Owners(y)) - One(y \in members[x])
          <5>1. Cardinality(Owners(y)') =
                  Cardinality(Owners(y)) - One(y \in members[x]) + One(y \in members'[x])
            BY <2>1, <3>3, OwnersStep
          <5> QED BY <3>3, <5>1, ReferencesNat DEF One
        <4>2. Cardinality(Owners(y)) \in Nat /\ due[y] \in Nat
          BY <1>1, ReferencesNat
        <4> QED BY <3>2, <4>1, <4>2 DEF One
      <3> QED BY <3>2, <3>3, <3>4, <3>5
    <2>2. CASE ~(x \in Objects /\ count[x] = 1)
      <3>1. due' = [due EXCEPT ![x] = @ - 1] /\ members' = members
        BY <2>2 DEF Release
      <3>2. due' \in [Heap -> Nat] /\ \A y \in Heap : due'[y] = due[y] - One(y = x)
        BY <1>1, <3>1 DEF One
      <3>3. DeadIsEmpty'
        <4>1. \A p \in Objects : count'[p] = 0 => count[p] = 0
          BY <1>1, <1>2, <2>2, HeapTypes
        <4> QED BY <3>1, <4>1 DEF IInv, DeadIsEmpty
      <3>4. \A y : Cardinality(Owners(y)') = Cardinality(Owners(y)) /\ Cardinality(Owners(y)) \in Nat
        BY <3>1, ReferencesNat DEF Owners
      <3> QED BY <1>1, <3>1, <3>2, <3>3, <3>4 DEF One
    <2> QED BY <2>1, <2>2
  <1>6. TypeOK'
    BY <1>1, <1>3, <1>5 DEF IInv, TypeOK
  <1>7. ASSUME NEW y \in Heap PROVE count'[y] = References(y)' + due'[y] + lost'[y]
    <2>1. Handles(y)' = Handles(y) /\ Arguments(y)' = Arguments(y) /\ Results(y)' = Results(y)
      BY <1>1, FramesSame DEF Handles
    <2>2. Cardinality(Owners(y)') \in Nat
      <3>1. IsFiniteSet(Owners(y)')
        BY FS_Subset, FiniteAssumption DEF Owners
      <3> QED BY <3>1, FS_CardinalityType
    <2>3. /\ count'[y] = count[y] - One(y = x) /\ One(y = x) \in Nat /\ lost'[y] = lost[y]
          /\ due'[y] = due[y] - One(y = x) - Cardinality(Owners(y)') + Cardinality(Owners(y))
      BY <1>1, <1>3, <1>5 DEF One
    <2>4. References(y)' = Cardinality(Handles(y)) + Cardinality(Owners(y)')
                           + Cardinality(Arguments(y)) + Cardinality(Results(y))
      BY <2>1 DEF References
    <2> QED BY <2>2, <2>3, <2>4, Account
  <1> QED BY <1>4, <1>5, <1>6, <1>7 DEF IInv, Accounted

(***************************************************************************)
(* The theorems.                                                           *)
(***************************************************************************)

LEMMA InitInv == Init => IInv
  <1> SUFFICES ASSUME Init PROVE IInv
    OBVIOUS
  <1>1. TypeOK
    <2>1. Len(<<>>) = 0
      OBVIOUS
    <2> QED BY <2>1, IdleType, BoundAssumption DEF Init, TypeOK, Idle
  <1>2. \A t \in Threads : FrameShape(t) /\ ArgsExist(t)
    <2>1. Len(<<>>) = 0
      OBVIOUS
    <2> QED BY <2>1 DEF Init, FrameShape, ArgsExist, Idle
  <1>3. DeadIsEmpty
    BY DEF Init, DeadIsEmpty
  <1>4. ASSUME NEW x \in Heap PROVE count[x] = References(x) + due[x] + lost[x]
    <2>1. Handles(x) = {} /\ Owners(x) = {} /\ Results(x) = {}
      BY HeapTypes DEF Init, Handles, Owners, Results, Idle
    <2>2. Arguments(x) = {}
      <3>1. \A p \in Threads \X (1..MaxArgs) : ~(p[2] <= Len(frame[p[1]].values))
        <4>1. Len(<<>>) = 0 /\ \A t \in Threads : frame[t].values = <<>>
          BY DEF Init, Idle
        <4> QED BY <4>1
      <3> QED BY <3>1 DEF Arguments
    <2>3. References(x) = 0
      BY <2>1, <2>2, FS_EmptySet DEF References
    <2> QED BY <2>3 DEF Init
  <1> QED BY <1>1, <1>2, <1>3, <1>4 DEF IInv, Accounted

LEMMA NextInv == IInv /\ [Next]_vars => IInv'
  <1> SUFFICES ASSUME IInv, [Next]_vars PROVE IInv'
    OBVIOUS
  <1>1. ASSUME NEW w \in Wrappers, New(w) \/ Finalize(w) PROVE IInv'
    BY <1>1, NewInv, FinalizeInv
  <1>2. ASSUME NEW x \in Heap, Release(x) PROVE IInv'
    BY <1>2, ReleaseInv
  <1>3. ASSUME NEW t \in Threads,
               \/ StartCall(t) \/ Convert(t) \/ EnterCallback(t) \/ LeaveCallback(t) \/ ConvertFails(t)
        PROVE  IInv'
    BY <1>3, StartCallInv, ConvertedInv, EnterCallbackInv, ConvertFailsInv
  <1>4. ASSUME NEW t \in Threads, NEW result \in {None, Text}, CallWithout(t, result) PROVE IInv'
    BY <1>4, CallWithoutInv
  <1>5. ASSUME NEW t \in Threads, NEW o \in Objects, NEW ms \in SUBSET Given(t),
               Call(t, o, ms) \/ Construct(t, o, ms)
        PROVE  IInv'
    BY <1>5, CallInv, ConstructInv
  <1>6. ASSUME NEW t \in Threads, NEW w \in Wrappers, Wrap(t, w) PROVE IInv'
    BY <1>6, WrapInv
  <1>7. ASSUME UNCHANGED vars PROVE IInv'
    BY <1>7 DEF vars, IInv, TypeOK, FrameShape, ArgsExist, Arg, DeadIsEmpty, Accounted,
                References, Handles, Owners, Arguments, Results
  <1> QED BY <1>1, <1>2, <1>3, <1>4, <1>5, <1>6, <1>7 DEF Next

\* The invariant, of which the theorems are parts.
THEOREM Invariant == Safe => []IInv
  BY InitInv, NextInv, PTL DEF Safe

\* Types: a counter, and what is due, never falls below zero.
THEOREM TypeCorrect == Safe => []TypeOK
  <1>1. IInv => TypeOK
    BY DEF IInv
  <1> QED BY <1>1, Invariant, PTL

\* Every reference is accounted for, whatever calls run and whatever the
\* functions do that they call (case_ext.cc:577-601, 647-658, 858-863).
THEOREM CallsAreAccounted == Safe => []Accounted
  <1>1. IInv => Accounted
    BY DEF IInv
  <1> QED BY <1>1, Invariant, PTL

\* No wrapper, argument, result or member dangles (case_ext.cc:327-339, 477-485,
\* 595-601).
THEOREM HandlesAreLive == Safe => []HandleLive
  <1>1. ASSUME IInv PROVE HandleLive
    <2>1. ASSUME NEW o \in Objects, References(o) > 0 PROVE count[o] > 0
      <3>1. /\ count[o] = References(o) + due[o] + lost[o]
            /\ References(o) \in Nat /\ due[o] \in Nat /\ lost[o] \in Nat
        BY <1>1, HeapTypes, ReferencesNat DEF IInv, TypeOK, Accounted
      <3> QED BY <2>1, <3>1
    <2> QED BY <2>1 DEF HandleLive
  <1> QED BY <1>1, Invariant, PTL
=============================================================================
