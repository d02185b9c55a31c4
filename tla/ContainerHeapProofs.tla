------------------------- MODULE ContainerHeapProofs -------------------------
(***************************************************************************)
(* The counters of ContainerHeap, for any variables, values and places in  *)
(* memory, and containers of any size: they are exact, a node is used only *)
(* while it is there, and only cycles are never deleted.                   *)
(*                                                                         *)
(* A step writes one variable or one node.  The lemmas of the first part   *)
(* say what that does to the variables and the elements that refer to an   *)
(* object; BeginInv asks of a statement that its copies, its old and its   *)
(* new values balance what it wrote.                                       *)
(*                                                                         *)
(* The last parts are about ContainerPromise: what is lost is lost to      *)
(* cycles, and every step of ContainerHeap is a step of PyHeap, or changes *)
(* nothing that a script can see.                                          *)
(***************************************************************************)
EXTENDS ContainerPromise, FiniteSetTheorems, FunctionTheorems, SequenceTheorems,
        WellFoundedInduction, TLAPS

\* The places in p that refer to o.
In(o, p) == {s \in DOMAIN Slots(kind[p], body[p]) : Slots(kind[p], body[p])[s] = o}

Live(o) == kind[o] # "free"

\* The part of the type that is not about numbers.
Shape ==
  /\ env \in [Vars -> Values]
  /\ kind \in [Objects -> ContainerKinds \cup {"free"}]
  /\ body = [o \in Objects |-> body[o]]
  /\ \A o \in Objects : BodyOK(kind[o], body[o])

\* What is written and not counted yet is a temporary too, and stands in a
\* variable, or in a container that is a temporary.
GainPlaced ==
  \A o \in Objects : gain[o] > 0 =>
    /\ gain[o] = 1 /\ temps[o] > 0
    /\ \/ \E x \in Vars : env[x] = o
       \/ \E c \in Objects : temps[c] > 0 /\ In(o, c) # {}

\* A place is free when its counter is zero.
LiveIsCounted == \A o \in Objects : Live(o) <=> count[o] > 0

IInv == TypeOK /\ CountMatches /\ LiveIsCounted /\ GainPlaced

LEMMA TypeShape == TypeOK => Shape
  BY DEF TypeOK, Shape

(***************************************************************************)
(* Counting.                                                               *)
(***************************************************************************)

Has(S, e) == IF e \in S THEN 1 ELSE 0
Is(v, o) == IF v = o THEN 1 ELSE 0

\* Two sets that differ in e at most.
LEMMA CardStep ==
  ASSUME NEW S, NEW T, IsFiniteSet(S), NEW e, S \ {e} = T \ {e}
  PROVE  /\ IsFiniteSet(T)
         /\ Cardinality(T) \in Nat /\ Cardinality(S) \in Nat
         /\ Cardinality(T) = Cardinality(S) - Has(S, e) + Has(T, e)
  <1>1. /\ IsFiniteSet(S \ {e})
        /\ Cardinality(S \ {e}) = Cardinality(S) - Has(S, e)
    BY FS_RemoveElement, FS_CardinalityType DEF Has, Is
  <1>2. CASE e \in T
    <2>1. T = (S \ {e}) \cup {e}
      BY <1>2
    <2>2. IsFiniteSet(T) /\ Cardinality(T) = Cardinality(S \ {e}) + 1
      BY <1>1, <2>1, FS_AddElement
    <2> QED BY <1>1, <1>2, <2>2, FS_CardinalityType DEF Has, Is
  <1>3. CASE e \notin T
    <2>1. T = S \ {e}
      BY <1>3
    <2> QED BY <1>1, <1>3, <2>1, FS_CardinalityType DEF Has, Is
  <1> QED BY <1>2, <1>3

\* What a container holds.
LEMMA SlotsType ==
  ASSUME NEW k \in ContainerKinds \cup {"free"}, NEW b, BodyOK(k, b)
  PROVE  /\ IsFiniteSet(DOMAIN Slots(k, b))
         /\ \A s \in DOMAIN Slots(k, b) : Slots(k, b)[s] \in Values
  <1>1. CASE k \in {"list", "tuple"}
    <2>1. Slots(k, b) = b /\ b \in Seq(Values)
      BY <1>1 DEF Slots, BodyOK
    <2>2. DOMAIN b = 1..Len(b) /\ Len(b) \in Nat
      BY <2>1
    <2> QED BY <2>1, <2>2, FS_Interval, ElementOfSeq
  <1>2. CASE k = "set"
    <2>1. Slots(k, b) = [v \in b |-> v] /\ b \subseteq Values /\ IsFiniteSet(b)
      BY <1>2 DEF Slots, BodyOK
    <2> QED BY <2>1
  <1>3. CASE k = "dict"
    <2>1. /\ Slots(k, b) = [s \in {"key", "value"} \X DOMAIN b |-> IF s[1] = "key" THEN s[2] ELSE b[s[2]]]
          /\ IsFiniteSet(DOMAIN b) /\ DOMAIN b \subseteq Values /\ b \in [DOMAIN b -> Values]
      BY <1>3 DEF Slots, BodyOK
    <2>2. IsFiniteSet({"key", "value"})
      <3>1. IsFiniteSet({"key"}) /\ {"key", "value"} = {"key"} \cup {"value"}
        BY FS_Singleton
      <3> QED BY <3>1, FS_AddElement
    <2>3. IsFiniteSet({"key", "value"} \X DOMAIN b)
      BY <2>1, <2>2, FS_Product
    <2>4. \A s \in {"key", "value"} \X DOMAIN b : s[2] \in Values /\ b[s[2]] \in Values
      BY <2>1
    <2> QED BY <2>1, <2>3, <2>4
  <1>4. CASE k = "free"
    <2>1. Slots(k, b) = <<>> /\ DOMAIN <<>> = {}
      BY <1>4 DEF Slots
    <2> QED BY <2>1, FS_EmptySet
  <1> QED BY <1>1, <1>2, <1>3, <1>4 DEF ContainerKinds

\* A bag counts, and has what it counts.
LEMMA BagType ==
  ASSUME NEW f, IsFiniteSet(DOMAIN f)
  PROVE  /\ Bag(f) \in [Objects -> Nat]
         /\ \A o \in Objects :
              /\ Bag(f)[o] = Cardinality({i \in DOMAIN f : f[i] = o})
              /\ Bag(f)[o] > 0 => \E i \in DOMAIN f : f[i] = o
  <1>1. ASSUME NEW o \in Objects
        PROVE  /\ Occurrences(o, f) \in Nat
               /\ Occurrences(o, f) > 0 => \E i \in DOMAIN f : f[i] = o
    <2> DEFINE D == {i \in DOMAIN f : f[i] = o}
    <2>1. IsFiniteSet(D)
      BY FS_Subset
    <2>2. Cardinality(D) \in Nat /\ (Cardinality(D) > 0 => D # {})
      BY <2>1, FS_CardinalityType, FS_EmptySet
    <2> QED BY <2>2 DEF Occurrences
  <1> QED BY <1>1 DEF Bag, Occurrences

LEMMA BagOne ==
  ASSUME NEW v
  PROVE  /\ Bag(<<v>>) \in [Objects -> Nat]
         /\ \A o \in Objects : Bag(<<v>>)[o] = Is(v, o)
  <1>1. ASSUME NEW o \in Objects PROVE Occurrences(o, <<v>>) = Is(v, o)
    <2>1. {i \in DOMAIN <<v>> : <<v>>[i] = o} = IF v = o THEN {1} ELSE {}
      OBVIOUS
    <2> QED BY <2>1, FS_Singleton, FS_EmptySet DEF Occurrences, Has, Is
  <1> QED BY <1>1 DEF Bag, Has, Is

LEMMA BagTwo ==
  ASSUME NEW v, NEW w
  PROVE  /\ Bag(<<v, w>>) \in [Objects -> Nat]
         /\ \A o \in Objects : Bag(<<v, w>>)[o] = Is(v, o) + Is(w, o)
  <1>1. ASSUME NEW o \in Objects PROVE Occurrences(o, <<v, w>>) = Is(v, o) + Is(w, o)
    <2> DEFINE D == {i \in DOMAIN <<v, w>> : <<v, w>>[i] = o}
               C == IF v = o THEN {1} ELSE {}
    <2>1. IsFiniteSet(C) /\ Cardinality(C) = Is(v, o)
      BY FS_Singleton, FS_EmptySet DEF Has, Is
    <2>2. C \ {2} = D \ {2} /\ 2 \notin C /\ (2 \in D <=> w = o)
      OBVIOUS
    <2> HIDE DEF C, D
    <2>a. IsFiniteSet(C) /\ C \ {2} = D \ {2}
      BY <2>1, <2>2
    <2>3. Cardinality(D) = Cardinality(C) - Has(C, 2) + Has(D, 2)
      BY <2>a, CardStep
    <2>4. Cardinality(D) = Is(v, o) + Is(w, o)
      BY <2>1, <2>2, <2>3 DEF Has, Is
    <2> QED BY <2>4 DEF Occurrences, D
  <1> QED BY <1>1 DEF Bag, Has, Is

\* The operands of a statement.
LEMMA BagThree ==
  ASSUME NEW u, NEW v, NEW w
  PROVE  /\ Bag(<<u, v, w>>) \in [Objects -> Nat]
         /\ \A o \in Objects : Bag(<<u, v, w>>)[o] > 0 <=> o \in {u, v, w}
  <1>1. DOMAIN <<u, v, w>> = 1..3 /\ IsFiniteSet(1..3)
    <2>1. DOMAIN <<u, v, w>> = 1..3
      OBVIOUS
    <2>2. 1 \in Int /\ 3 \in Int
      OBVIOUS
    <2> QED BY <2>1, <2>2, FS_Interval
  <1>2. Bag(<<u, v, w>>) \in [Objects -> Nat]
    BY <1>1, BagType
  <1>3. ASSUME NEW o \in Objects PROVE Bag(<<u, v, w>>)[o] > 0 <=> o \in {u, v, w}
    <2> DEFINE D == {i \in DOMAIN <<u, v, w>> : <<u, v, w>>[i] = o}
    <2>1. IsFiniteSet(D)
      BY <1>1, FS_Subset
    <2>2. D # {} <=> o \in {u, v, w}
      <3>1. 1 \in 1..3 /\ 2 \in 1..3 /\ 3 \in 1..3
        OBVIOUS
      <3> QED BY <1>1, <3>1
    <2>3. Bag(<<u, v, w>>)[o] = Cardinality(D)
      BY <1>1, BagType
    <2>4. Cardinality(D) \in Nat /\ (Cardinality(D) = 0 <=> D = {})
      BY <2>1, FS_CardinalityType, FS_EmptySet
    <2> HIDE DEF D
    <2> QED BY <2>2, <2>3, <2>4
  <1> QED BY <1>2, <1>3

LEMMA PlusType ==
  ASSUME NEW a \in [Objects -> Nat], NEW b \in [Objects -> Nat]
  PROVE  /\ Plus(a, b) \in [Objects -> Nat]
         /\ \A o \in Objects : Plus(a, b)[o] = a[o] + b[o]
  BY DEF Plus

LEMMA ZeroType == Zero \in [Objects -> Nat] /\ \A o \in Objects : Zero[o] = 0
  BY DEF Zero

-----------------------------------------------------------------------------
\* Variables and elements that refer to an object are finitely many.
LEMMA InFinite ==
  ASSUME Shape, NEW p \in Objects, NEW o
  PROVE  /\ IsFiniteSet(In(o, p)) /\ Cardinality(In(o, p)) \in Nat
         /\ Cardinality(In(o, p)) = 0 <=> In(o, p) = {}
  <1>1. IsFiniteSet(DOMAIN Slots(kind[p], body[p]))
    BY SlotsType DEF Shape
  <1>2. In(o, p) \subseteq DOMAIN Slots(kind[p], body[p])
    BY DEF In
  <1> QED BY <1>1, <1>2, FS_Subset, FS_CardinalityType, FS_EmptySet

LEMMA HeldIs ==
  ASSUME Shape, NEW p \in Objects
  PROVE  /\ Held(p) \in [Objects -> Nat]
         /\ \A o \in Objects : Held(p)[o] = Cardinality(In(o, p))
  <1>1. IsFiniteSet(DOMAIN Slots(kind[p], body[p]))
    BY SlotsType DEF Shape
  <1> QED BY <1>1, BagType DEF Held, In

LEMMA ReferringFinite ==
  ASSUME Shape, NEW o
  PROVE  /\ IsFiniteSet(Names(o)) /\ IsFiniteSet(Elements(o))
         /\ Cardinality(Names(o)) \in Nat /\ Cardinality(Elements(o)) \in Nat
  <1>1. IsFiniteSet(Names(o))
    BY FiniteAssumption, FS_Subset DEF Names
  <1>2. IsFiniteSet(Elements(o))
    <2> DEFINE f == [p \in Objects |-> {p} \X In(o, p)]
               T == {{p} \X In(o, p) : p \in Objects}
    <2>1. f \in Surjection(Objects, T)
      BY DEF Surjection
    <2>2. IsFiniteSet(T)
      BY <2>1, FiniteAssumption, FS_Surjection
    <2>3. \A U \in T : IsFiniteSet(U)
      <3>1. ASSUME NEW p \in Objects PROVE IsFiniteSet({p} \X In(o, p))
        BY InFinite, FS_Singleton, FS_Product
      <3> QED BY <3>1
    <2>4. Elements(o) = UNION T
      BY DEF Elements, In
    <2> HIDE DEF T
    <2> QED BY <2>2, <2>3, <2>4, FS_UNION
  <1> QED BY <1>1, <1>2, FS_CardinalityType

\* The same of every object, to be used after a step too.
ReferringIsFinite ==
  \A o \in Objects : Cardinality(Names(o)) \in Nat /\ Cardinality(Elements(o)) \in Nat

LEMMA Referring == Shape => ReferringIsFinite
  BY ReferringFinite DEF ReferringIsFinite

HeldIsIn ==
  \A p \in Objects :
    /\ Held(p) \in [Objects -> Nat]
    /\ \A o \in Objects :
         Held(p)[o] = Cardinality(In(o, p)) /\ (Held(p)[o] > 0 => In(o, p) # {})

LEMMA Holding == Shape => HeldIsIn
  <1> SUFFICES ASSUME Shape, NEW p \in Objects, NEW o \in Objects
               PROVE  /\ Held(p) \in [Objects -> Nat]
                      /\ Held(p)[o] = Cardinality(In(o, p))
                      /\ Held(p)[o] > 0 => In(o, p) # {}
    BY HeldIs DEF HeldIsIn
  <1>1. Held(p) \in [Objects -> Nat] /\ Held(p)[o] = Cardinality(In(o, p))
    BY HeldIs
  <1>2. Cardinality(In(o, p)) = 0 <=> In(o, p) = {}
    BY InFinite
  <1> QED BY <1>1, <1>2

\* One variable is written.
LEMMA NamesStep ==
  ASSUME Shape, NEW x \in Vars, NEW v, env' = [env EXCEPT ![x] = v], NEW o
  PROVE  Cardinality(Names(o)') = Cardinality(Names(o)) - Is(env[x], o) + Is(v, o)
  <1>1. Names(o) \ {x} = Names(o)' \ {x}
    BY DEF Names, Shape
  <1>2. (x \in Names(o) <=> env[x] = o) /\ (x \in Names(o)' <=> v = o)
    BY DEF Names, Shape
  <1>3. Cardinality(Names(o)') = Cardinality(Names(o)) - Has(Names(o), x) + Has(Names(o)', x)
    BY <1>1, CardStep, ReferringFinite
  <1> QED BY <1>2, <1>3 DEF Has, Is

\* One node is written.
LEMMA ElementsStep ==
  ASSUME Shape, Shape', NEW q \in Objects,
         \A p \in Objects \ {q} : kind'[p] = kind[p] /\ body'[p] = body[p], NEW o
  PROVE  Cardinality(Elements(o)') =
           Cardinality(Elements(o)) - Cardinality(In(o, q)) + Cardinality(In(o, q)')
  <1> DEFINE R == Elements(o) \ ({q} \X In(o, q))
  <1>1. \A p \in Objects \ {q} : In(o, p)' = In(o, p)
    BY DEF In
  <1>2. ASSUME NEW e PROVE e \in Elements(o) <=> \E p \in Objects : \E s \in In(o, p) : e = <<p, s>>
    BY DEF Elements, In
  <1>3. ASSUME NEW e PROVE e \in Elements(o)' <=> \E p \in Objects : \E s \in In(o, p)' : e = <<p, s>>
    BY DEF Elements, In
  <1>4. /\ Elements(o) = R \cup ({q} \X In(o, q)) /\ R \cap ({q} \X In(o, q)) = {}
    BY <1>2
  <1>5. /\ Elements(o)' = R \cup ({q} \X In(o, q)') /\ R \cap ({q} \X In(o, q)') = {}
    <2>1. ASSUME NEW e \in R PROVE e \in Elements(o)' /\ e \notin {q} \X In(o, q)'
      <3>1. PICK p \in Objects : \E s \in In(o, p) : e = <<p, s>>
        BY <1>2
      <3>2. p # q
        BY <3>1
      <3>3. In(o, p)' = In(o, p)
        BY <1>1, <3>2
      <3> QED BY <1>3, <3>1, <3>2, <3>3
    <2>2. ASSUME NEW e \in {q} \X In(o, q)' PROVE e \in Elements(o)'
      BY <1>3
    <2>3. ASSUME NEW e \in Elements(o)', e \notin {q} \X In(o, q)' PROVE e \in R
      <3>1. PICK p \in Objects : \E s \in In(o, p)' : e = <<p, s>>
        BY <1>3, <2>3
      <3>2. p # q
        BY <2>3, <3>1
      <3>3. In(o, p)' = In(o, p)
        BY <1>1, <3>2
      <3> QED BY <1>2, <3>1, <3>2, <3>3
    <2> HIDE DEF R
    <2> QED BY <2>1, <2>2, <2>3
  <1>6. IsFiniteSet(R) /\ Cardinality(R) \in Nat
    BY ReferringFinite, FS_Subset, FS_CardinalityType
  <1>7. IsFiniteSet(In(o, q)) /\ IsFiniteSet(In(o, q)')
    <2>1. IsFiniteSet(In(o, q)')
      <3>1. IsFiniteSet(DOMAIN Slots(kind'[q], body'[q]))
        BY SlotsType DEF Shape
      <3> QED BY <3>1, FS_Subset DEF In
    <2> QED BY <2>1, InFinite
  <1>8. ASSUME NEW S, IsFiniteSet(S), R \cap ({q} \X S) = {}
        PROVE  Cardinality(R \cup ({q} \X S)) = Cardinality(R) + Cardinality(S)
    <2>1. IsFiniteSet({q}) /\ Cardinality({q}) = 1 /\ Cardinality(S) \in Nat
      BY <1>8, FS_Singleton, FS_CardinalityType
    <2>2. /\ IsFiniteSet({q} \X S)
          /\ Cardinality({q} \X S) = Cardinality({q}) * Cardinality(S)
      BY <1>8, <2>1, FS_Product
    <2>3. Cardinality(R \cup ({q} \X S)) =
            Cardinality(R) + Cardinality({q} \X S) - Cardinality(R \cap ({q} \X S))
      BY <1>6, <2>2, FS_Union
    <2>4. Cardinality(R \cap ({q} \X S)) = 0
      BY <1>8, FS_EmptySet
    <2> HIDE DEF R
    <2> QED BY <1>6, <2>1, <2>2, <2>3, <2>4
  <1> HIDE DEF R
  <1>9. /\ Cardinality(Elements(o)) = Cardinality(R) + Cardinality(In(o, q))
        /\ Cardinality(Elements(o)') = Cardinality(R) + Cardinality(In(o, q)')
    BY <1>4, <1>5, <1>7, <1>8
  <1> QED BY <1>6, <1>7, <1>9, FS_CardinalityType
-----------------------------------------------------------------------------
(***************************************************************************)
(* Steps.                                                                  *)
(***************************************************************************)

LEMMA ElementsOf ==
  ASSUME NEW o, NEW c \in Objects, In(o, c) # {}
  PROVE  Elements(o) # {}
  <1>1. PICK s \in In(o, c) : TRUE
    OBVIOUS
  <1>2. Elements(o) = UNION {{p} \X In(o, p) : p \in Objects}
    BY DEF Elements, In
  <1>3. <<c, s>> \in {c} \X In(o, c)
    BY <1>1
  <1> QED BY <1>2, <1>3

\* A counter is at least what refers to the node, and at least what is there
\* to be destroyed; so what anything refers to is there.
LEMMA CountIs ==
  ASSUME IInv, NEW o \in Objects
  PROVE  /\ Cardinality(Names(o)) \in Nat /\ Cardinality(Elements(o)) \in Nat
         /\ count[o] \in Nat /\ due[o] \in Nat /\ gain[o] \in Nat /\ temps[o] \in Nat
         /\ count[o] + gain[o] = Cardinality(Names(o)) + Cardinality(Elements(o)) + due[o] + temps[o]
         /\ count[o] >= Cardinality(Names(o)) + Cardinality(Elements(o)) + due[o]
         /\ count[o] >= due[o] + temps[o]
         /\ Live(o) <=> count[o] > 0
  <1>1. /\ Cardinality(Names(o)) \in Nat /\ Cardinality(Elements(o)) \in Nat
        /\ IsFiniteSet(Names(o)) /\ IsFiniteSet(Elements(o))
    BY TypeShape, ReferringFinite DEF IInv
  <1>2. count[o] \in Nat /\ due[o] \in Nat /\ gain[o] \in Nat /\ temps[o] \in Nat
    BY DEF IInv, TypeOK
  <1>3. count[o] + gain[o] = Cardinality(Names(o)) + Cardinality(Elements(o)) + due[o] + temps[o]
    BY DEF IInv, CountMatches
  <1>4. Live(o) <=> count[o] > 0
    BY DEF IInv, LiveIsCounted
  <1>5. gain[o] > 0 => gain[o] = 1 /\ temps[o] > 0
    BY DEF IInv, GainPlaced
  <1>6. gain[o] > 0 => Cardinality(Names(o)) + Cardinality(Elements(o)) > 0
    <2> SUFFICES ASSUME gain[o] > 0 PROVE Names(o) # {} \/ Elements(o) # {}
      BY <1>1, FS_EmptySet
    <2>1. CASE \E x \in Vars : env[x] = o
      BY <2>1 DEF Names
    <2>2. CASE \E c \in Objects : In(o, c) # {}
      BY <2>2, ElementsOf
    <2> QED BY <2>1, <2>2 DEF IInv, GainPlaced
  <1> QED BY <1>1, <1>2, <1>3, <1>4, <1>5, <1>6

\* What a variable or a container has is there.
LEMMA HeldLive ==
  ASSUME IInv, NEW o \in Objects,
         Names(o) # {} \/ \E c \in Objects : In(o, c) # {}
  PROVE  Live(o)
  <1>1. Names(o) # {} \/ Elements(o) # {}
    BY ElementsOf
  <1>2. IsFiniteSet(Names(o)) /\ IsFiniteSet(Elements(o))
    BY TypeShape, ReferringFinite DEF IInv
  <1>3. Cardinality(Names(o)) # 0 \/ Cardinality(Elements(o)) # 0
    BY <1>1, <1>2, FS_EmptySet
  <1> QED BY <1>3, CountIs

\* What a statement writes, in terms of what it copies, the old and the new
\* values and its temporaries.
Balances(copies, old, new, ts) ==
  \A o \in Objects :
    copies[o] + new[o] + Cardinality(Names(o)) + Cardinality(Elements(o)) =
      Cardinality(Names(o)') + Cardinality(Elements(o)') + old[o] + ts[o]
Copies(copies) == \A o \in Objects : Live(o)' <=> Live(o) \/ copies[o] > 0
Places(new, ts) ==
  \A o \in Objects : new[o] > 0 =>
    /\ new[o] = 1 /\ ts[o] > 0
    /\ \/ \E x \in Vars : env'[x] = o
       \/ \E c \in Objects : ts[c] > 0 /\ In(o, c)' # {}

\* A statement whose values balance what it writes.
LEMMA BeginInv ==
  ASSUME IInv, Shape', NEW st,
         NEW copies \in [Objects -> Nat], NEW old \in [Objects -> Nat],
         NEW new \in [Objects -> Nat], NEW ts \in [Objects -> Nat],
         Begin(st, copies, old, new, ts),
         Copies(copies), Balances(copies, old, new, ts), Places(new, ts)
  PROVE  IInv'
  <1>0. ReferringIsFinite'
    BY Referring, PTL
  <1>1. /\ due = Zero /\ gain = Zero /\ temps = Zero
        /\ count' = Plus(count, copies)
        /\ due' = old /\ gain' = new /\ temps' = ts
        /\ stale' = (stale \/ \E o \in Objects : copies[o] > 0 /\ kind'[o] = "free")
    BY DEF Begin, Between
  <1>2. count \in [Objects -> Nat] /\ ~stale
    BY DEF IInv, TypeOK, CountMatches
  <1>3. count' \in [Objects -> Nat] /\ \A o \in Objects : count'[o] = count[o] + copies[o]
    BY <1>1, <1>2, PlusType
  <1>4. ~stale'
    BY <1>1, <1>2 DEF Live, Copies
  <1>5. TypeOK'
    BY <1>1, <1>3, <1>4 DEF TypeOK, Shape
  <1>6. ASSUME NEW o \in Objects
        PROVE  /\ count'[o] + gain'[o] = Cardinality(Names(o)') + Cardinality(Elements(o)') + due'[o] + temps'[o]
               /\ Live(o)' <=> count'[o] > 0
    <2>1. /\ Cardinality(Names(o)) \in Nat /\ Cardinality(Elements(o)) \in Nat
          /\ count[o] + gain[o] = Cardinality(Names(o)) + Cardinality(Elements(o)) + due[o] + temps[o]
          /\ Live(o) <=> count[o] > 0
      BY CountIs
    <2>2. due[o] = 0 /\ gain[o] = 0 /\ temps[o] = 0
      BY <1>1, ZeroType
    <2>3. /\ Cardinality(Names(o)') \in Nat /\ Cardinality(Elements(o)') \in Nat
      BY <1>0 DEF ReferringIsFinite
    <2>4. /\ copies[o] \in Nat /\ old[o] \in Nat /\ new[o] \in Nat /\ ts[o] \in Nat /\ count[o] \in Nat
          /\ count'[o] = count[o] + copies[o]
          /\ due'[o] = old[o] /\ gain'[o] = new[o] /\ temps'[o] = ts[o]
      BY <1>1, <1>2, <1>3
    <2>5. copies[o] + new[o] + Cardinality(Names(o)) + Cardinality(Elements(o)) =
            Cardinality(Names(o)') + Cardinality(Elements(o)') + old[o] + ts[o]
      BY DEF Balances
    <2>6. Live(o)' <=> Live(o) \/ copies[o] > 0
      BY DEF Copies
    <2> QED BY <2>1, <2>2, <2>3, <2>4, <2>5, <2>6
  <1>7. CountMatches' /\ LiveIsCounted'
    BY <1>4, <1>6 DEF CountMatches, LiveIsCounted
  <1>8. GainPlaced'
    BY <1>1 DEF GainPlaced, Places
  <1> QED BY <1>5, <1>7, <1>8 DEF IInv

\* What writing the node c does, in terms of its values.
Present(bag) == \A o \in Objects : bag[o] > 0 => Live(o)
Moves(c, copies, old, new) ==
  \A o \in Objects : copies[o] + new[o] + Held(c)[o] = Held(c)'[o] + old[o]
Stands(c, new, ts) ==
  \A o \in Objects : new[o] > 0 => new[o] = 1 /\ ts[o] > 0 /\ Held(c)'[o] > 0

\* A statement that writes the node c, with the operands of the bag ts.
LEMMA EffectInv ==
  ASSUME IInv, Shape', NEW st, NEW c \in Objects, NEW b, NEW ts,
         NEW copies \in [Objects -> Nat], NEW old \in [Objects -> Nat], NEW new \in [Objects -> Nat],
         Bag(ts) \in [Objects -> Nat],
         Become(c, b), Effect(st, ts, copies, old, new),
         Bag(ts)[c] > 0, Present(Bag(ts)), Present(copies),
         Moves(c, copies, old, new), Stands(c, new, Bag(ts))
  PROVE  IInv'
  <1> DEFINE all == Plus(Bag(ts), copies)
  <1>1. UNCHANGED <<env, kind>> /\ Begin(st, all, old, new, Bag(ts))
    BY DEF Effect
  <1>2. all \in [Objects -> Nat] /\ \A o \in Objects : all[o] = Bag(ts)[o] + copies[o]
    BY PlusType
  <1>3. HeldIsIn /\ HeldIsIn'
    BY TypeShape, Holding, PTL DEF IInv
  <1>4. \A p \in Objects \ {c} : kind'[p] = kind[p] /\ body'[p] = body[p]
    <2>1. Shape
      BY TypeShape DEF IInv
    <2> QED BY <1>1, <2>1 DEF Become, Shape
  <1>5. ASSUME NEW o \in Objects
        PROVE  all[o] + new[o] + Cardinality(Names(o)) + Cardinality(Elements(o)) =
                 Cardinality(Names(o)') + Cardinality(Elements(o)') + old[o] + Bag(ts)[o]
    <2>1. Cardinality(Elements(o)') = Cardinality(Elements(o)) - Cardinality(In(o, c)) + Cardinality(In(o, c)')
      BY <1>4, TypeShape, ElementsStep DEF IInv
    <2>2. Cardinality(Elements(o)') = Cardinality(Elements(o)) - Held(c)[o] + Held(c)'[o]
      BY <1>3, <2>1 DEF HeldIsIn
    <2>3. Names(o)' = Names(o)
      BY <1>1 DEF Names
    <2>4. Held(c)[o] \in Nat /\ Held(c)'[o] \in Nat
      BY <1>3 DEF HeldIsIn
    <2>5. Cardinality(Names(o)) \in Nat /\ Cardinality(Elements(o)) \in Nat
      BY CountIs
    <2>6. /\ copies[o] \in Nat /\ old[o] \in Nat /\ new[o] \in Nat /\ Bag(ts)[o] \in Nat
          /\ all[o] = Bag(ts)[o] + copies[o]
          /\ copies[o] + new[o] + Held(c)[o] = Held(c)'[o] + old[o]
      BY <1>2 DEF Moves
    <2> HIDE DEF all
    <2> QED BY <2>2, <2>3, <2>4, <2>5, <2>6
  <1>6. ASSUME NEW o \in Objects
        PROVE  /\ Live(o)' <=> Live(o) \/ all[o] > 0
               /\ new[o] > 0 => /\ new[o] = 1 /\ Bag(ts)[o] > 0
                                /\ \E d \in Objects : Bag(ts)[d] > 0 /\ In(o, d)' # {}
    <2>1. Live(o)' <=> Live(o)
      BY <1>1 DEF Live
    <2>2. all[o] = Bag(ts)[o] + copies[o] /\ Bag(ts)[o] \in Nat /\ copies[o] \in Nat
      BY <1>2
    <2>3. Bag(ts)[o] > 0 \/ copies[o] > 0 => Live(o)
      BY DEF Present
    <2>4. all[o] > 0 => Live(o)
      <3> HIDE DEF all
      <3> QED BY <2>2, <2>3
    <2>5. new[o] > 0 => new[o] = 1 /\ Bag(ts)[o] > 0 /\ In(o, c)' # {}
      BY <1>3 DEF HeldIsIn, Stands
    <2> HIDE DEF all
    <2> QED BY <2>1, <2>4, <2>5
  <1> HIDE DEF all
  <1>7. Begin(st, all, old, new, Bag(ts)) /\ all \in [Objects -> Nat]
    BY <1>1, <1>2
  <1>8. Balances(all, old, new, Bag(ts))
    BY <1>5 DEF Balances
  <1>9. Copies(all) /\ Places(new, Bag(ts))
    BY <1>6 DEF Copies, Places
  <1> QED BY <1>7, <1>8, <1>9, BeginInv

Keeps(kept) == \A o \in Objects : kept[o] + Cardinality(Elements(o)) = Cardinality(Elements(o)')

\* A statement that assigns v to x; kept is what a new node holds.
LEMMA ResultInv ==
  ASSUME IInv, Shape', NEW st, NEW x \in Vars, NEW v,
         NEW kept \in [Objects -> Nat], NEW others \in [Objects -> Nat],
         Result(st, x, v, kept, others),
         Copies([o \in Objects |-> kept[o] + others[o] + Is(v, o)]), Keeps(kept)
  PROVE  IInv'
  <1> DEFINE copies == Plus(Plus(kept, others), Bag(<<v>>))
             old == Plus(others, Bag(<<env[x]>>))
             now == Bag(<<v>>)
  <1>0. Shape
    BY TypeShape DEF IInv
  <1>1. env' = [env EXCEPT ![x] = v] /\ Begin(st, copies, old, now, now)
    BY DEF Result
  <1>2. /\ copies \in [Objects -> Nat] /\ old \in [Objects -> Nat] /\ now \in [Objects -> Nat]
        /\ \A o \in Objects :
             /\ copies[o] = kept[o] + others[o] + Is(v, o)
             /\ old[o] = others[o] + Is(env[x], o)
             /\ now[o] = Is(v, o)
    <2>1. Bag(<<v>>) \in [Objects -> Nat] /\ \A o \in Objects : Bag(<<v>>)[o] = Is(v, o)
      BY BagOne
    <2>2. Bag(<<env[x]>>) \in [Objects -> Nat] /\ \A o \in Objects : Bag(<<env[x]>>)[o] = Is(env[x], o)
      BY BagOne
    <2>3. Plus(kept, others) \in [Objects -> Nat] /\ \A o \in Objects : Plus(kept, others)[o] = kept[o] + others[o]
      BY PlusType
    <2>4. copies \in [Objects -> Nat] /\ \A o \in Objects : copies[o] = Plus(kept, others)[o] + Bag(<<v>>)[o]
      BY <2>1, <2>3, PlusType
    <2>5. old \in [Objects -> Nat] /\ \A o \in Objects : old[o] = others[o] + Bag(<<env[x]>>)[o]
      BY <2>2, PlusType
    <2> HIDE DEF copies, old
    <2> QED BY <2>1, <2>2, <2>3, <2>4, <2>5
  <1>3. ASSUME NEW o \in Objects
        PROVE  copies[o] + now[o] + Cardinality(Names(o)) + Cardinality(Elements(o)) =
                 Cardinality(Names(o)') + Cardinality(Elements(o)') + old[o] + now[o]
    <2>1. Cardinality(Names(o)') = Cardinality(Names(o)) - Is(env[x], o) + Is(v, o)
      BY <1>0, <1>1, NamesStep
    <2>2. kept[o] + Cardinality(Elements(o)) = Cardinality(Elements(o)')
      BY DEF Keeps
    <2>3. Cardinality(Names(o)) \in Nat /\ Cardinality(Elements(o)) \in Nat
      BY CountIs
    <2>4. /\ kept[o] \in Nat /\ others[o] \in Nat
          /\ copies[o] = kept[o] + others[o] + Is(v, o)
          /\ old[o] = others[o] + Is(env[x], o)
          /\ now[o] = Is(v, o)
      BY <1>2
    <2>5. Is(v, o) \in Nat /\ Is(env[x], o) \in Nat
      BY DEF Has, Is
    <2> HIDE DEF copies, old, now
    <2> QED BY <2>1, <2>2, <2>3, <2>4, <2>5
  <1>4. ASSUME NEW o \in Objects
        PROVE  /\ Live(o)' <=> Live(o) \/ copies[o] > 0
               /\ now[o] > 0 => now[o] = 1 /\ \E y \in Vars : env'[y] = o
    <2>1. Live(o)' <=> Live(o) \/ copies[o] > 0
      BY <1>2 DEF Copies
    <2>2. now[o] > 0 => now[o] = 1 /\ v = o
      BY <1>2 DEF Has, Is
    <2>3. env'[x] = v
      BY <1>1, TypeShape DEF IInv, Shape
    <2> QED BY <2>1, <2>2, <2>3
  <1> HIDE DEF copies, old, now
  <1>5. Balances(copies, old, now, now)
    BY <1>3 DEF Balances
  <1>6. Copies(copies) /\ Places(now, now)
    BY <1>4 DEF Copies, Places
  <1>7. /\ Begin(st, copies, old, now, now)
        /\ copies \in [Objects -> Nat] /\ old \in [Objects -> Nat] /\ now \in [Objects -> Nat]
    BY <1>1, <1>2
  <1> QED BY <1>5, <1>6, <1>7, BeginInv
-----------------------------------------------------------------------------
(***************************************************************************)
(* The operations on one node.                                             *)
(***************************************************************************)

Place(f, e, o) == IF e \in DOMAIN f /\ f[e] = o THEN 1 ELSE 0

\* Functions that differ in e at most.
LEMMA OccursStep ==
  ASSUME NEW f, NEW g, IsFiniteSet(DOMAIN f), NEW e, NEW o,
         DOMAIN g \ {e} = DOMAIN f \ {e},
         \A i \in DOMAIN f \ {e} : g[i] = f[i]
  PROVE  /\ IsFiniteSet(DOMAIN g)
         /\ Occurrences(o, f) \in Nat /\ Occurrences(o, g) \in Nat
         /\ Occurrences(o, g) = Occurrences(o, f) - Place(f, e, o) + Place(g, e, o)
         /\ Occurrences(o, f) >= Place(f, e, o) /\ Occurrences(o, g) >= Place(g, e, o)
  <1> DEFINE S == {i \in DOMAIN f : f[i] = o}
             T == {i \in DOMAIN g : g[i] = o}
  <1>1. IsFiniteSet(S) /\ S \ {e} = T \ {e}
    <2>1. S \ {e} = T \ {e}
      OBVIOUS
    <2> QED BY <2>1, FS_Subset
  <1>2. Has(S, e) = Place(f, e, o) /\ Has(T, e) = Place(g, e, o)
    BY DEF Has, Place
  <1>3. IsFiniteSet(DOMAIN g)
    BY CardStep
  <1>4. Occurrences(o, f) = Cardinality(S) /\ Occurrences(o, g) = Cardinality(T)
    BY DEF Occurrences
  <1>5. (e \in S => S # {}) /\ (e \in T => T # {})
    OBVIOUS
  <1> HIDE DEF S, T
  <1>6. /\ IsFiniteSet(T) /\ Cardinality(T) \in Nat /\ Cardinality(S) \in Nat
        /\ Cardinality(T) = Cardinality(S) - Has(S, e) + Has(T, e)
    BY <1>1, CardStep
  <1>7. (Cardinality(S) = 0 => S = {}) /\ (Cardinality(T) = 0 => T = {})
    BY <1>1, <1>6, FS_EmptySet
  <1>8. Cardinality(S) >= Has(S, e) /\ Cardinality(T) >= Has(T, e)
    BY <1>5, <1>6, <1>7 DEF Has
  <1> QED BY <1>2, <1>3, <1>4, <1>6, <1>8

\* A value that a statement may use.
Ready(v) == v \in Values /\ (v \in Objects => Live(v))

LEMMA OperandReady ==
  ASSUME IInv, NEW v \in Operands \cup {None}
  PROVE  Ready(v)
  <1>1. v \in Values
    BY TypeShape DEF IInv, Shape, Operands, Values
  <1>2. ASSUME v \in Objects PROVE Live(v)
    <2>1. v \notin Numbers /\ v # None
      BY <1>2, ValueAssumption
    <2>2. PICK x \in Vars : env[x] = v
      BY <2>1 DEF Operands
    <2>3. Names(v) # {}
      BY <2>2 DEF Names
    <2> QED BY <1>2, <2>3, HeldLive
  <1> QED BY <1>1, <1>2 DEF Ready

LEMMA ContainerReady ==
  ASSUME IInv, NEW c \in Containers
  PROVE  c \in Objects /\ Ready(c) /\ Live(c)
  <1>1. c \in Objects /\ \E x \in Vars : env[x] = c
    BY DEF Containers
  <1>2. Names(c) # {}
    BY <1>1 DEF Names
  <1>3. Live(c)
    BY <1>1, <1>2, HeldLive
  <1> QED BY <1>1, <1>3 DEF Ready, Values

LEMMA SlotReady ==
  ASSUME IInv, NEW c \in Objects, NEW s \in DOMAIN Slots(kind[c], body[c])
  PROVE  Ready(Slots(kind[c], body[c])[s])
  <1> DEFINE v == Slots(kind[c], body[c])[s]
  <1>1. v \in Values
    BY TypeShape, SlotsType DEF IInv, Shape
  <1>2. v \in Objects => In(v, c) # {}
    BY DEF In
  <1> HIDE DEF v
  <1>3. v \in Objects => Live(v)
    BY <1>2, HeldLive
  <1>4. Ready(v)
    BY <1>1, <1>3 DEF Ready
  <1> QED BY <1>4 DEF v

LEMMA BagReady ==
  ASSUME NEW f, IsFiniteSet(DOMAIN f), \A i \in DOMAIN f : Ready(f[i])
  PROVE  Bag(f) \in [Objects -> Nat] /\ Present(Bag(f))
  <1>1. ASSUME NEW o \in Objects, Bag(f)[o] > 0 PROVE Live(o)
    <2>1. PICK i \in DOMAIN f : f[i] = o
      BY <1>1, BagType
    <2> QED BY <2>1 DEF Ready
  <1> QED BY <1>1, BagType DEF Present

LEMMA BagsReady ==
  ASSUME NEW u, NEW v, NEW w, Ready(u), Ready(v), Ready(w)
  PROVE  /\ Bag(<<u>>) \in [Objects -> Nat] /\ Present(Bag(<<u>>))
         /\ Bag(<<u, v>>) \in [Objects -> Nat] /\ Present(Bag(<<u, v>>))
         /\ Bag(<<u, v, w>>) \in [Objects -> Nat] /\ Present(Bag(<<u, v, w>>))
  <1>1. /\ Bag(<<u>>) \in [Objects -> Nat] /\ Bag(<<u, v>>) \in [Objects -> Nat]
        /\ Bag(<<u, v, w>>) \in [Objects -> Nat]
    BY BagOne, BagTwo, BagThree
  <1>2. ASSUME NEW o \in Objects
        PROVE  /\ Bag(<<u>>)[o] > 0 => o = u
               /\ Bag(<<u, v>>)[o] > 0 => o = u \/ o = v
               /\ Bag(<<u, v, w>>)[o] > 0 => o = u \/ o = v \/ o = w
    <2>1. Bag(<<u>>)[o] = Is(u, o) /\ Bag(<<u, v>>)[o] = Is(u, o) + Is(v, o)
      BY BagOne, BagTwo
    <2>2. Bag(<<u, v, w>>)[o] > 0 <=> o \in {u, v, w}
      BY BagThree
    <2> QED BY <2>1, <2>2 DEF Is
  <1>3. ASSUME NEW o \in Objects, o = u \/ o = v \/ o = w PROVE Live(o)
    BY <1>3 DEF Ready
  <1> QED BY <1>1, <1>2, <1>3 DEF Present

LEMMA OperandCounted ==
  ASSUME NEW u \in Objects, NEW v, NEW w
  PROVE  Bag(<<u>>)[u] > 0 /\ Bag(<<u, v>>)[u] > 0 /\ Bag(<<u, v, w>>)[u] > 0
  <1>1. Bag(<<u>>)[u] = Is(u, u) /\ Bag(<<u, v>>)[u] = Is(u, u) + Is(v, u)
    BY BagOne, BagTwo
  <1>2. Bag(<<u, v, w>>)[u] > 0 <=> u \in {u, v, w}
    BY BagThree
  <1> QED BY <1>1, <1>2 DEF Is

LEMMA ZeroReady == Zero \in [Objects -> Nat] /\ Present(Zero)
  BY ZeroType DEF Present

LEMMA PlusReady ==
  ASSUME NEW a \in [Objects -> Nat], NEW b \in [Objects -> Nat], Present(a), Present(b)
  PROVE  Plus(a, b) \in [Objects -> Nat] /\ Present(Plus(a, b))
  <1>1. ASSUME NEW o \in Objects, Plus(a, b)[o] > 0 PROVE Live(o)
    <2>1. Plus(a, b)[o] = a[o] + b[o] /\ a[o] \in Nat /\ b[o] \in Nat
      BY PlusType
    <2>2. a[o] > 0 \/ b[o] > 0
      BY <1>1, <2>1
    <2> QED BY <2>2 DEF Present
  <1> QED BY <1>1, PlusType DEF Present

\* What the node c holds before and after it is written.
LEMMA HeldAfter ==
  ASSUME IInv, NEW c \in Objects, NEW b, Become(c, b), UNCHANGED <<env, kind>>, BodyOK(kind[c], b)
  PROVE  /\ Shape'
         /\ Held(c) = Bag(Slots(kind[c], body[c])) /\ Held(c)' = Bag(Slots(kind[c], b))
         /\ IsFiniteSet(DOMAIN Slots(kind[c], body[c]))
  <1>1. Shape
    BY TypeShape DEF IInv
  <1>2. body' = [o \in Objects |-> IF o = c THEN b ELSE body[o]]
    BY <1>1 DEF Become, Shape
  <1>3. Shape'
    BY <1>1, <1>2 DEF Shape
  <1>4. body'[c] = b
    BY <1>2
  <1>5. IsFiniteSet(DOMAIN Slots(kind[c], body[c]))
    BY <1>1, SlotsType DEF Shape
  <1> QED BY <1>3, <1>4, <1>5 DEF Held

\* The kinds one by one.
LEMMA ListIs ==
  ASSUME NEW b
  PROVE  /\ Slots("list", b) = b /\ (BodyOK("list", b) <=> b \in Seq(Values))
         /\ Slots("tuple", b) = b /\ (BodyOK("tuple", b) <=> b \in Seq(Values))
  BY DEF Slots, BodyOK

LEMMA SetIs ==
  ASSUME NEW b
  PROVE  Slots("set", b) = [v \in b |-> v] /\ (BodyOK("set", b) <=> b \subseteq Values /\ IsFiniteSet(b))
  BY DEF Slots, BodyOK

LEMMA DictIs ==
  ASSUME NEW b
  PROVE  /\ Slots("dict", b) = [s \in {"key", "value"} \X DOMAIN b |-> IF s[1] = "key" THEN s[2] ELSE b[s[2]]]
         /\ BodyOK("dict", b) <=> IsFiniteSet(DOMAIN b) /\ DOMAIN b \subseteq Values /\ b \in [DOMAIN b -> Values]
  BY DEF Slots, BodyOK

LEMMA FreeIs ==
  ASSUME NEW b
  PROVE  Slots("free", b) = <<>> /\ (BodyOK("free", b) <=> b = Nothing)
  BY DEF Slots, BodyOK

LEMMA WriteInv ==
  ASSUME IInv, NEW st, NEW c \in Objects, NEW b, NEW ts,
         NEW copies \in [Objects -> Nat], NEW old \in [Objects -> Nat], NEW new \in [Objects -> Nat],
         Bag(ts) \in [Objects -> Nat],
         Become(c, b), BodyOK(kind[c], b), Effect(st, ts, copies, old, new),
         Bag(ts)[c] > 0, Present(Bag(ts)), Present(copies),
         \A o \in Objects :
           copies[o] + new[o] + Occurrences(o, Slots(kind[c], body[c])) =
             Occurrences(o, Slots(kind[c], b)) + old[o],
         \A o \in Objects : new[o] > 0 =>
           new[o] = 1 /\ Bag(ts)[o] > 0 /\ Occurrences(o, Slots(kind[c], b)) > 0
  PROVE  IInv'
  <1>1. UNCHANGED <<env, kind>>
    BY DEF Effect
  <1>2. /\ Shape'
        /\ Held(c) = Bag(Slots(kind[c], body[c])) /\ Held(c)' = Bag(Slots(kind[c], b))
    BY <1>1, HeldAfter
  <1>3. \A o \in Objects : /\ Held(c)[o] = Occurrences(o, Slots(kind[c], body[c]))
                           /\ Held(c)'[o] = Occurrences(o, Slots(kind[c], b))
    BY <1>2 DEF Bag
  <1>4. Moves(c, copies, old, new) /\ Stands(c, new, Bag(ts))
    BY <1>3 DEF Moves, Stands
  <1> QED BY <1>2, <1>4, EffectInv

LEMMA PushBackInv ==
  ASSUME IInv, NEW st, NEW c \in Objects, kind[c] = "list", NEW v, Ready(c), Ready(v),
         PushBack(st, c, v)
  PROVE  IInv'
  <1> DEFINE f == body[c]
             g == Append(body[c], v)
             e == Len(body[c]) + 1
  <1>0. BodyOK("list", body[c])
    BY TypeShape DEF IInv, Shape
  <1>1. f \in Seq(Values) /\ v \in Values
    BY <1>0, ListIs DEF Ready
  <1>2. /\ g \in Seq(Values) /\ DOMAIN f = 1..Len(f) /\ DOMAIN g = 1..e /\ g[e] = v /\ e \in Nat
        /\ \A i \in DOMAIN f : g[i] = f[i]
    BY <1>1
  <1>3. IsFiniteSet(DOMAIN f)
    BY <1>2, FS_Interval
  <1>4. Slots(kind[c], body[c]) = f /\ Slots(kind[c], g) = g /\ BodyOK(kind[c], g)
    <2>1. Slots("list", f) = f /\ Slots("list", g) = g /\ BodyOK("list", g)
      BY <1>2, ListIs
    <2> QED BY <2>1
  <1>5. DOMAIN f \ {e} = DOMAIN g \ {e} /\ e \notin DOMAIN f /\ e \in DOMAIN g
    BY <1>1, <1>2
  <1>6. Become(c, g) /\ Effect(st, <<c, v>>, Bag(<<v>>), Zero, Zero)
    BY DEF PushBack
  <1>7. /\ Bag(<<v>>) \in [Objects -> Nat] /\ Present(Bag(<<v>>))
        /\ Bag(<<c, v>>) \in [Objects -> Nat] /\ Present(Bag(<<c, v>>))
        /\ Bag(<<c, v>>)[c] > 0
    BY BagsReady, OperandCounted
  <1> HIDE DEF f, g, e
  <1>8. ASSUME NEW o \in Objects
        PROVE  Bag(<<v>>)[o] + Zero[o] + Occurrences(o, f) = Occurrences(o, g) + Zero[o]
    <2>1. /\ Occurrences(o, f) \in Nat
          /\ Occurrences(o, g) = Occurrences(o, f) - Place(f, e, o) + Place(g, e, o)
      BY <1>2, <1>3, <1>5, OccursStep
    <2>2. Place(f, e, o) = 0 /\ Place(g, e, o) = Is(v, o)
      BY <1>2, <1>5 DEF Place, Is
    <2>3. Bag(<<v>>)[o] = Is(v, o) /\ Zero[o] = 0
      BY BagOne, ZeroType
    <2> QED BY <2>1, <2>2, <2>3 DEF Is
  <1>9. \A o \in Objects : Zero[o] = 0
    BY ZeroType
  <1> QED BY <1>4, <1>6, <1>7, <1>8, <1>9, ZeroType, WriteInv

LEMMA SetInsertInv ==
  ASSUME IInv, NEW st, NEW c \in Objects, kind[c] = "set", NEW v, Ready(c), Ready(v),
         SetInsert(st, c, v)
  PROVE  IInv'
  <1> DEFINE f == [w \in body[c] |-> w]
             b == body[c] \cup {v}
             g == [w \in b |-> w]
             copies == IF v \in body[c] THEN Zero ELSE Bag(<<v>>)
  <1>0. BodyOK("set", body[c])
    BY TypeShape DEF IInv, Shape
  <1>1. body[c] \subseteq Values /\ IsFiniteSet(body[c]) /\ v \in Values
    BY <1>0, SetIs DEF Ready
  <1>2. b \subseteq Values /\ IsFiniteSet(b)
    BY <1>1, FS_AddElement
  <1>3. Slots(kind[c], body[c]) = f /\ Slots(kind[c], b) = g /\ BodyOK(kind[c], b)
    <2>1. Slots("set", body[c]) = f
      BY SetIs
    <2>2. Slots("set", b) = g /\ (BodyOK("set", b) <=> b \subseteq Values /\ IsFiniteSet(b))
      BY SetIs
    <2> QED BY <1>2, <2>1, <2>2
  <1>4. /\ IsFiniteSet(DOMAIN f) /\ DOMAIN g \ {v} = DOMAIN f \ {v}
        /\ \A i \in DOMAIN f \ {v} : g[i] = f[i]
    BY <1>1
  <1>5. ASSUME NEW o \in Objects
        PROVE  Place(g, v, o) = Is(v, o) /\ Place(f, v, o) = IF v \in body[c] THEN Is(v, o) ELSE 0
    BY DEF Place, Is
  <1>6. Become(c, b) /\ Effect(st, <<c, v>>, copies, Zero, Zero)
    BY DEF SetInsert
  <1>7. /\ copies \in [Objects -> Nat] /\ Present(copies)
        /\ Bag(<<c, v>>) \in [Objects -> Nat] /\ Present(Bag(<<c, v>>))
        /\ Bag(<<c, v>>)[c] > 0
    BY BagsReady, OperandCounted, ZeroReady
  <1>8. \A o \in Objects : copies[o] = IF v \in body[c] THEN 0 ELSE Is(v, o)
    BY BagOne, ZeroType
  <1> HIDE DEF f, g, b, copies
  <1>9. ASSUME NEW o \in Objects
        PROVE  copies[o] + Zero[o] + Occurrences(o, f) = Occurrences(o, g) + Zero[o]
    <2>1. /\ Occurrences(o, f) \in Nat
          /\ Occurrences(o, g) = Occurrences(o, f) - Place(f, v, o) + Place(g, v, o)
      BY <1>4, OccursStep
    <2>2. Zero[o] = 0 /\ copies[o] = IF v \in body[c] THEN 0 ELSE Is(v, o)
      BY <1>8, ZeroType
    <2>3. Place(g, v, o) = Is(v, o) /\ Place(f, v, o) = IF v \in body[c] THEN Is(v, o) ELSE 0
      BY <1>5
    <2> QED BY <2>1, <2>2, <2>3 DEF Is
  <1>10. \A o \in Objects : Zero[o] = 0
    BY ZeroType
  <1> QED BY <1>3, <1>6, <1>7, <1>9, <1>10, ZeroType, WriteInv

LEMMA SetEraseInv ==
  ASSUME IInv, NEW st, NEW c \in Objects, kind[c] = "set", NEW v, Ready(c), Ready(v),
         SetErase(st, c, v)
  PROVE  IInv'
  <1> DEFINE f == [w \in body[c] |-> w]
             b == body[c] \ {v}
             g == [w \in b |-> w]
             old == IF v \in body[c] THEN Bag(<<v>>) ELSE Zero
  <1>0. BodyOK("set", body[c])
    BY TypeShape DEF IInv, Shape
  <1>1. body[c] \subseteq Values /\ IsFiniteSet(body[c]) /\ v \in Values
    BY <1>0, SetIs DEF Ready
  <1>2. b \subseteq Values /\ IsFiniteSet(b)
    BY <1>1, FS_Subset
  <1>3. Slots(kind[c], body[c]) = f /\ Slots(kind[c], b) = g /\ BodyOK(kind[c], b)
    <2>1. Slots("set", body[c]) = f
      BY SetIs
    <2>2. Slots("set", b) = g /\ (BodyOK("set", b) <=> b \subseteq Values /\ IsFiniteSet(b))
      BY SetIs
    <2> QED BY <1>2, <2>1, <2>2
  <1>4. /\ IsFiniteSet(DOMAIN f) /\ DOMAIN g \ {v} = DOMAIN f \ {v}
        /\ \A i \in DOMAIN f \ {v} : g[i] = f[i]
    BY <1>1
  <1>5. ASSUME NEW o \in Objects
        PROVE  Place(g, v, o) = 0 /\ Place(f, v, o) = IF v \in body[c] THEN Is(v, o) ELSE 0
    BY DEF Place, Is
  <1>6. Become(c, b) /\ Effect(st, <<c, v>>, Zero, old, Zero)
    BY DEF SetErase
  <1>7. /\ old \in [Objects -> Nat]
        /\ Bag(<<c, v>>) \in [Objects -> Nat] /\ Present(Bag(<<c, v>>))
        /\ Bag(<<c, v>>)[c] > 0
    BY BagsReady, OperandCounted, ZeroReady
  <1>8. \A o \in Objects : old[o] = IF v \in body[c] THEN Is(v, o) ELSE 0
    BY BagOne, ZeroType
  <1> HIDE DEF f, g, b, old
  <1>9. ASSUME NEW o \in Objects
        PROVE  Zero[o] + Zero[o] + Occurrences(o, f) = Occurrences(o, g) + old[o]
    <2>1. /\ Occurrences(o, f) \in Nat
          /\ Occurrences(o, g) = Occurrences(o, f) - Place(f, v, o) + Place(g, v, o)
      BY <1>4, OccursStep
    <2>2. Zero[o] = 0 /\ old[o] = IF v \in body[c] THEN Is(v, o) ELSE 0
      BY <1>8, ZeroType
    <2>3. Place(g, v, o) = 0 /\ Place(f, v, o) = IF v \in body[c] THEN Is(v, o) ELSE 0
      BY <1>5
    <2> QED BY <2>1, <2>2, <2>3 DEF Is
  <1>10. \A o \in Objects : Zero[o] = 0
    BY ZeroType
  <1> QED BY <1>3, <1>6, <1>7, <1>9, <1>10, ZeroReady, WriteInv

\* One value of a list or a dictionary is replaced.
LEMMA ReplacedIs ==
  ASSUME NEW k \in {"list", "dict"}, NEW a, BodyOK(k, a), NEW i \in DOMAIN a, NEW v \in Values
  PROVE  LET b == [a EXCEPT ![i] = v]
             e == IF k = "list" THEN i ELSE <<"value", i>>
         IN  /\ BodyOK(k, b)
             /\ DOMAIN Slots(k, b) = DOMAIN Slots(k, a) /\ e \in DOMAIN Slots(k, a)
             /\ Slots(k, a)[e] = a[i] /\ Slots(k, b)[e] = v
             /\ \A s \in DOMAIN Slots(k, a) \ {e} : Slots(k, b)[s] = Slots(k, a)[s]
  <1> DEFINE b == [a EXCEPT ![i] = v]
  <1>1. CASE k = "list"
    <2>1. Slots("list", a) = a /\ Slots("list", b) = b
      BY ListIs
    <2>2. a \in Seq(Values) /\ (b \in Seq(Values) => BodyOK("list", b))
      BY <1>1, ListIs
    <2>3. b \in Seq(Values) /\ DOMAIN b = DOMAIN a /\ b[i] = v /\ \A s \in DOMAIN a \ {i} : b[s] = a[s]
      BY <2>2
    <2> HIDE DEF b
    <2>4. BodyOK(k, b)
      BY <1>1, <2>2, <2>3
    <2> QED BY <1>1, <2>1, <2>3, <2>4 DEF b
  <1>2. CASE k = "dict"
    <2>1. /\ Slots("dict", a) = [s \in {"key", "value"} \X DOMAIN a |-> IF s[1] = "key" THEN s[2] ELSE a[s[2]]]
          /\ Slots("dict", b) = [s \in {"key", "value"} \X DOMAIN b |-> IF s[1] = "key" THEN s[2] ELSE b[s[2]]]
      BY DictIs
    <2>2. IsFiniteSet(DOMAIN a) /\ DOMAIN a \subseteq Values /\ a \in [DOMAIN a -> Values]
      BY <1>2, DictIs
    <2>3. b \in [DOMAIN b -> Values] /\ DOMAIN b = DOMAIN a /\ b[i] = v /\ \A s \in DOMAIN a \ {i} : b[s] = a[s]
      BY <2>2
    <2>4. BodyOK("dict", b)
      <3> HIDE DEF b
      <3> QED BY <2>2, <2>3, DictIs
    <2> HIDE DEF b
    <2>5. /\ DOMAIN Slots("dict", b) = DOMAIN Slots("dict", a) /\ <<"value", i>> \in DOMAIN Slots("dict", a)
          /\ Slots("dict", a)[<<"value", i>>] = a[i] /\ Slots("dict", b)[<<"value", i>>] = v
      BY <2>1, <2>3
    <2>6. ASSUME NEW s \in DOMAIN Slots("dict", a) \ {<<"value", i>>}
          PROVE  Slots("dict", b)[s] = Slots("dict", a)[s]
      <3>1. s[1] = "key" \/ s[2] \in DOMAIN a \ {i}
        BY <2>1
      <3> QED BY <2>1, <2>3, <3>1
    <2> QED BY <1>2, <2>4, <2>5, <2>6 DEF b
  <1> QED BY <1>1, <1>2

LEMMA AssignInv ==
  ASSUME IInv, NEW st, NEW c \in Objects, kind[c] \in {"list", "dict"}, NEW i \in DOMAIN body[c],
         NEW k, NEW v, Ready(c), Ready(k), Ready(v), Assign(st, c, k, i, v)
  PROVE  IInv'
  <1> DEFINE b == [body[c] EXCEPT ![i] = v]
             f == Slots(kind[c], body[c])
             g == Slots(kind[c], b)
             e == IF kind[c] = "list" THEN i ELSE <<"value", i>>
  <1>0. BodyOK(kind[c], body[c]) /\ v \in Values
    BY TypeShape DEF IInv, Shape, Ready
  <1>1. /\ BodyOK(kind[c], b) /\ DOMAIN g = DOMAIN f /\ e \in DOMAIN f
        /\ f[e] = body[c][i] /\ g[e] = v /\ \A s \in DOMAIN f \ {e} : g[s] = f[s]
    BY <1>0, ReplacedIs
  <1>2. IsFiniteSet(DOMAIN f)
    BY <1>0, TypeShape, SlotsType DEF IInv, Shape
  <1>3. Become(c, b) /\ Effect(st, <<c, k, v>>, Zero, Bag(<<body[c][i]>>), Bag(<<v>>))
    BY DEF Assign
  <1>4. /\ Bag(<<v>>) \in [Objects -> Nat] /\ Bag(<<body[c][i]>>) \in [Objects -> Nat]
        /\ Bag(<<c, k, v>>) \in [Objects -> Nat] /\ Present(Bag(<<c, k, v>>))
        /\ Bag(<<c, k, v>>)[c] > 0
    BY BagsReady, BagOne, OperandCounted
  <1> HIDE DEF b, f, g, e
  <1>5. ASSUME NEW o \in Objects
        PROVE  /\ Zero[o] + Bag(<<v>>)[o] + Occurrences(o, f) = Occurrences(o, g) + Bag(<<body[c][i]>>)[o]
               /\ Bag(<<v>>)[o] > 0 => /\ Bag(<<v>>)[o] = 1 /\ Bag(<<c, k, v>>)[o] > 0
                                       /\ Occurrences(o, g) > 0
    <2>1. /\ Occurrences(o, f) \in Nat /\ Occurrences(o, g) \in Nat
          /\ Occurrences(o, g) = Occurrences(o, f) - Place(f, e, o) + Place(g, e, o)
          /\ Occurrences(o, g) >= Place(g, e, o)
      BY <1>1, <1>2, OccursStep
    <2>2. Place(f, e, o) = Is(body[c][i], o) /\ Place(g, e, o) = Is(v, o)
      BY <1>1 DEF Place, Is
    <2>3. Bag(<<v>>)[o] = Is(v, o) /\ Bag(<<body[c][i]>>)[o] = Is(body[c][i], o) /\ Zero[o] = 0
      BY BagOne, ZeroType
    <2>4. v = o => Bag(<<c, k, v>>)[o] > 0
      BY BagThree
    <2> QED BY <2>1, <2>2, <2>3, <2>4 DEF Is
  <1>6. Become(c, b) /\ BodyOK(kind[c], b)
    BY <1>1, <1>3
  <1> QED BY <1>3, <1>4, <1>5, <1>6, ZeroReady, WriteInv DEF f, g

LEMMA DictInsertInv ==
  ASSUME IInv, NEW st, NEW c \in Objects, kind[c] = "dict", NEW k, NEW v,
         Ready(c), Ready(k), Ready(v), DictInsert(st, c, k, v)
  PROVE  IInv'
  <1>1. CASE k \in DOMAIN body[c]
    BY <1>1, AssignInv DEF DictInsert
  <1>2. CASE k \notin DOMAIN body[c]
    <2> DEFINE a == body[c]
               b == Extended(a, k, v)
               f == Slots("dict", a)
               g == Slots("dict", b)
               dk == <<"key", k>>
               dv == <<"value", k>>
               h == [s \in DOMAIN f \cup {dk} |-> IF s = dk THEN k ELSE f[s]]
    <2>0. BodyOK("dict", a) /\ k \in Values /\ v \in Values
      BY TypeShape DEF IInv, Shape, Ready
    <2>1. IsFiniteSet(DOMAIN a) /\ DOMAIN a \subseteq Values /\ a \in [DOMAIN a -> Values]
      BY <2>0, DictIs
    <2>2. /\ DOMAIN b = DOMAIN a \cup {k} /\ b \in [DOMAIN b -> Values] /\ b[k] = v
          /\ \A j \in DOMAIN a : b[j] = a[j]
      BY <1>2, <2>0, <2>1 DEF Extended
    <2>3. BodyOK("dict", b)
      <3>1. IsFiniteSet(DOMAIN b) /\ DOMAIN b \subseteq Values
        BY <2>0, <2>1, <2>2, FS_AddElement
      <3> HIDE DEF b
      <3> QED BY <2>2, <3>1, DictIs
    <2>4. /\ f = [s \in {"key", "value"} \X DOMAIN a |-> IF s[1] = "key" THEN s[2] ELSE a[s[2]]]
          /\ g = [s \in {"key", "value"} \X DOMAIN b |-> IF s[1] = "key" THEN s[2] ELSE b[s[2]]]
      BY DictIs
    <2>5. IsFiniteSet(DOMAIN f)
      BY <2>0, SlotsType DEF ContainerKinds
    <2> HIDE DEF a, b
    <2>6. /\ dk \notin DOMAIN f /\ dv \notin DOMAIN f /\ dk # dv
          /\ DOMAIN g = DOMAIN f \cup {dk, dv} /\ g[dk] = k /\ g[dv] = v
          /\ \A s \in DOMAIN f : g[s] = f[s]
      <3>1. k \notin DOMAIN a
        BY <1>2 DEF a
      <3> HIDE DEF f, g
      <3>2. dk \notin DOMAIN f /\ dv \notin DOMAIN f /\ dk # dv /\ DOMAIN g = DOMAIN f \cup {dk, dv}
        BY <2>2, <2>4, <3>1
      <3>3. g[dk] = k /\ g[dv] = v
        BY <2>2, <2>4
      <3>4. ASSUME NEW s \in DOMAIN f PROVE g[s] = f[s]
        <4>1. s[1] = "key" \/ s[2] \in DOMAIN a
          BY <2>4
        <4>2. s[1] \in {"key", "value"} /\ s[2] \in DOMAIN a
          BY <2>4
        <4>3. s \in DOMAIN g
          BY <3>2
        <4> QED BY <2>2, <2>4, <4>2, <4>3
      <3> QED BY <3>2, <3>3, <3>4
    <2> HIDE DEF f, g, dk, dv
    <2>7. /\ DOMAIN h = DOMAIN f \cup {dk} /\ h[dk] = k
          /\ \A s \in DOMAIN f : h[s] = f[s]
      BY <2>6
    <2> HIDE DEF h
    <2>8. ASSUME NEW o \in Objects
          PROVE  /\ Occurrences(o, f) \in Nat
                 /\ Occurrences(o, g) = Occurrences(o, f) + Is(k, o) + Is(v, o)
      <3>1. /\ IsFiniteSet(DOMAIN h) /\ Occurrences(o, f) \in Nat
            /\ Occurrences(o, h) = Occurrences(o, f) - Place(f, dk, o) + Place(h, dk, o)
        <4>1. DOMAIN h \ {dk} = DOMAIN f \ {dk} /\ \A s \in DOMAIN f \ {dk} : h[s] = f[s]
          BY <2>7
        <4> QED BY <2>5, <4>1, OccursStep
      <3>2. Occurrences(o, g) = Occurrences(o, h) - Place(h, dv, o) + Place(g, dv, o)
        <4>1. DOMAIN g \ {dv} = DOMAIN h \ {dv} /\ \A s \in DOMAIN h \ {dv} : g[s] = h[s]
          BY <2>6, <2>7
        <4> QED BY <3>1, <4>1, OccursStep
      <3>3. /\ Place(f, dk, o) = 0 /\ Place(h, dk, o) = Is(k, o)
            /\ Place(h, dv, o) = 0 /\ Place(g, dv, o) = Is(v, o)
        BY <2>6, <2>7 DEF Place, Is
      <3> QED BY <3>1, <3>2, <3>3 DEF Is
    <2>9. Become(c, b) /\ Effect(st, <<c, k, v>>, Bag(<<k, v>>), Zero, Zero)
      BY <1>2 DEF DictInsert, a, b
    <2>10. /\ Bag(<<k, v>>) \in [Objects -> Nat] /\ Present(Bag(<<k, v>>))
           /\ Bag(<<c, k, v>>) \in [Objects -> Nat] /\ Present(Bag(<<c, k, v>>))
           /\ Bag(<<c, k, v>>)[c] > 0
      BY BagsReady, OperandCounted
    <2>11. ASSUME NEW o \in Objects
           PROVE  Bag(<<k, v>>)[o] + Zero[o] + Occurrences(o, f) = Occurrences(o, g) + Zero[o]
      <3>1. Bag(<<k, v>>)[o] = Is(k, o) + Is(v, o) /\ Zero[o] = 0
        BY BagTwo, ZeroType
      <3>2. /\ Occurrences(o, f) \in Nat
            /\ Occurrences(o, g) = Occurrences(o, f) + Is(k, o) + Is(v, o)
        BY <2>8
      <3> QED BY <3>1, <3>2 DEF Is
    <2>12. Slots(kind[c], body[c]) = f /\ Slots(kind[c], b) = g /\ BodyOK(kind[c], b)
      BY <2>3 DEF f, g, a
    <2>13. \A o \in Objects : Zero[o] = 0
      BY ZeroType
    <2> QED BY <2>9, <2>10, <2>11, <2>12, <2>13, ZeroReady, WriteInv
  <1> QED BY <1>1, <1>2

LEMMA ClearNodeInv ==
  ASSUME IInv, NEW st, NEW c \in Objects, Ready(c), NEW b,
         BodyOK(kind[c], b), DOMAIN Slots(kind[c], b) = {}, ClearNode(st, c, b)
  PROVE  IInv'
  <1>1. Become(c, b) /\ Effect(st, <<c>>, Zero, Held(c), Zero) /\ UNCHANGED <<env, kind>>
    BY DEF ClearNode, Effect
  <1>2. /\ Held(c) = Bag(Slots(kind[c], body[c]))
        /\ IsFiniteSet(DOMAIN Slots(kind[c], body[c]))
    BY <1>1, HeldAfter
  <1>3. Held(c) \in [Objects -> Nat]
    BY <1>2, BagType
  <1>4. ASSUME NEW o \in Objects
        PROVE  /\ Zero[o] = 0
               /\ Zero[o] + Zero[o] + Occurrences(o, Slots(kind[c], body[c])) =
                    Occurrences(o, Slots(kind[c], b)) + Held(c)[o]
    <2>1. Occurrences(o, Slots(kind[c], b)) = 0
      <3>1. {s \in DOMAIN Slots(kind[c], b) : Slots(kind[c], b)[s] = o} = {}
        OBVIOUS
      <3> QED BY <3>1, FS_EmptySet DEF Occurrences
    <2>2. Held(c)[o] = Occurrences(o, Slots(kind[c], body[c])) /\ Held(c)[o] \in Nat
      BY <1>2, <1>3 DEF Bag
    <2>3. Zero[o] = 0
      BY ZeroType
    <2> QED BY <2>1, <2>2, <2>3
  <1>5. Bag(<<c>>) \in [Objects -> Nat] /\ Present(Bag(<<c>>)) /\ Bag(<<c>>)[c] > 0
    BY BagsReady, OperandCounted
  <1>6. /\ \A o \in Objects : Zero[o] + Zero[o] + Occurrences(o, Slots(kind[c], body[c])) =
                                 Occurrences(o, Slots(kind[c], b)) + Held(c)[o]
        /\ \A o \in Objects : Zero[o] > 0 =>
             Zero[o] = 1 /\ Bag(<<c>>)[o] > 0 /\ Occurrences(o, Slots(kind[c], b)) > 0
    BY <1>4
  <1> DEFINE h == Held(c)
  <1>7. /\ Effect(st, <<c>>, Zero, h, Zero) /\ h \in [Objects -> Nat]
        /\ \A o \in Objects : Zero[o] + Zero[o] + Occurrences(o, Slots(kind[c], body[c])) =
                               Occurrences(o, Slots(kind[c], b)) + h[o]
    BY <1>1, <1>3, <1>6
  <1> HIDE DEF h
  <1> QED BY <1>1, <1>5, <1>6, <1>7, ZeroReady, WriteInv

-----------------------------------------------------------------------------
(***************************************************************************)
(* The statements that assign to a variable.                               *)
(***************************************************************************)

LEMMA FetchInv ==
  ASSUME IInv, NEW st, NEW x \in Vars, NEW v, Ready(v), NEW ts,
         Bag(ts) \in [Objects -> Nat], Present(Bag(ts)), Fetch(st, x, v, ts)
  PROVE  IInv'
  <1>1. UNCHANGED <<kind, body>> /\ Result(st, x, v, Zero, Bag(ts))
    BY DEF Fetch
  <1>2. Shape'
    <2>1. env' \in [Vars -> Values]
      BY <1>1, TypeShape DEF IInv, Shape, Result, Ready
    <2> QED BY <1>1, <2>1, TypeShape DEF IInv, Shape
  <1>3. Copies([o \in Objects |-> Zero[o] + Bag(ts)[o] + Is(v, o)])
    <2>1. ASSUME NEW o \in Objects
          PROVE  Live(o)' <=> Live(o) \/ Zero[o] + Bag(ts)[o] + Is(v, o) > 0
      <3>1. Live(o)' <=> Live(o)
        BY <1>1 DEF Live
      <3>2. (Bag(ts)[o] > 0 => Live(o)) /\ (v = o => Live(o))
        BY DEF Present, Ready
      <3>3. Zero[o] = 0 /\ Bag(ts)[o] \in Nat
        BY ZeroType
      <3> QED BY <3>1, <3>2, <3>3 DEF Is
    <2> QED BY <2>1 DEF Copies
  <1>4. Keeps(Zero)
    <2>1. ASSUME NEW o \in Objects
          PROVE  Zero[o] + Cardinality(Elements(o)) = Cardinality(Elements(o)')
      <3>1. Elements(o)' = Elements(o)
        BY <1>1 DEF Elements
      <3>2. Zero[o] = 0 /\ Cardinality(Elements(o)) \in Nat
        BY ZeroType, CountIs
      <3> QED BY <3>1, <3>2
    <2> QED BY <2>1 DEF Keeps
  <1> QED BY <1>1, <1>2, <1>3, <1>4, ZeroType, ResultInv

LEMMA CreateInv ==
  ASSUME IInv, NEW st, NEW x \in Vars, NEW k \in ContainerKinds, NEW b, BodyOK(k, b),
         \A s \in DOMAIN Slots(k, b) : Ready(Slots(k, b)[s]),
         NEW others \in [Objects -> Nat], Present(others), Create(st, x, k, b, others)
  PROVE  IInv'
  <1> DEFINE kept == Bag(Slots(k, b))
  <1>1. PICK p \in Objects :
          /\ kind[p] = "free"
          /\ kind' = [kind EXCEPT ![p] = k]
          /\ body' = [body EXCEPT ![p] = b]
          /\ Result(st, x, p, kept, others)
    BY DEF Create
  <1>2. kept \in [Objects -> Nat] /\ Present(kept)
    <2>1. IsFiniteSet(DOMAIN Slots(k, b))
      BY SlotsType
    <2> QED BY <2>1, BagReady
  <1>3. Shape /\ k # "free"
    BY TypeShape DEF IInv, ContainerKinds
  <1>4. /\ kind' = [o \in Objects |-> IF o = p THEN k ELSE kind[o]]
        /\ body' = [o \in Objects |-> IF o = p THEN b ELSE body[o]]
    BY <1>1, <1>3 DEF Shape
  <1>5. Shape'
    <2>1. env' \in [Vars -> Values]
      BY <1>1, <1>3 DEF Shape, Result, Values
    <2> QED BY <1>3, <1>4, <2>1 DEF Shape
  <1>6. HeldIsIn /\ HeldIsIn'
    BY <1>3, <1>5, Holding, PTL
  <1>7. Held(p)' = kept
    BY <1>4 DEF Held
  <1>8. \A o \in Objects : Held(p)[o] = 0
    <2>1. Slots(kind[p], body[p]) = <<>>
      BY <1>1, FreeIs
    <2>2. ASSUME NEW o \in Objects PROVE Occurrences(o, <<>>) = 0
      <3>1. {i \in DOMAIN <<>> : <<>>[i] = o} = {}
        OBVIOUS
      <3> QED BY <3>1, FS_EmptySet DEF Occurrences
    <2> QED BY <2>1, <2>2 DEF Held, Bag
  <1> HIDE DEF kept
  <1>9. Keeps(kept)
    <2>1. ASSUME NEW o \in Objects
          PROVE  kept[o] + Cardinality(Elements(o)) = Cardinality(Elements(o)')
      <3>1. Cardinality(Elements(o)') =
              Cardinality(Elements(o)) - Cardinality(In(o, p)) + Cardinality(In(o, p)')
        BY <1>3, <1>4, <1>5, ElementsStep
      <3>2. Cardinality(In(o, p)) = 0 /\ Cardinality(In(o, p)') = kept[o]
        BY <1>6, <1>7, <1>8 DEF HeldIsIn
      <3>3. Cardinality(Elements(o)) \in Nat /\ kept[o] \in Nat
        BY <1>2, CountIs
      <3> QED BY <3>1, <3>2, <3>3
    <2> QED BY <2>1 DEF Keeps
  <1>10. Copies([o \in Objects |-> kept[o] + others[o] + Is(p, o)])
    <2>1. ASSUME NEW o \in Objects
          PROVE  Live(o)' <=> Live(o) \/ kept[o] + others[o] + Is(p, o) > 0
      <3>1. Live(o)' <=> Live(o) \/ p = o
        BY <1>3, <1>4 DEF Live
      <3>2. (kept[o] > 0 => Live(o)) /\ (others[o] > 0 => Live(o))
        BY <1>2 DEF Present
      <3>3. kept[o] \in Nat /\ others[o] \in Nat
        BY <1>2
      <3> QED BY <3>1, <3>2, <3>3 DEF Is
    <2> QED BY <2>1 DEF Copies
  <1>11. Result(st, x, p, kept, others)
    BY <1>1
  <1> QED BY <1>2, <1>5, <1>9, <1>10, <1>11, ResultInv

-----------------------------------------------------------------------------
(***************************************************************************)
(* What happens between two statements.                                    *)
(***************************************************************************)

LEMMA CleanInv ==
  ASSUME IInv, NEW q \in Objects, Clean(q)
  PROVE  IInv'
  <1>0. /\ Shape /\ ~stale
        /\ count \in [Objects -> Nat] /\ due \in [Objects -> Nat]
        /\ gain \in [Objects -> Nat] /\ temps \in [Objects -> Nat]
    BY TypeShape DEF IInv, TypeOK, CountMatches
  <1>1. /\ due[q] > 0
        /\ count' = [count EXCEPT ![q] = @ - 1]
        /\ stale' = (stale \/ kind[q] = "free")
        /\ UNCHANGED <<line, env, gain, temps>>
    BY DEF Clean
  <1>2. /\ count[q] \in Nat /\ due[q] \in Nat /\ temps[q] \in Nat /\ gain[q] \in Nat
        /\ Cardinality(Names(q)) \in Nat /\ Cardinality(Elements(q)) \in Nat
        /\ count[q] >= due[q] + temps[q]
        /\ count[q] >= Cardinality(Names(q)) + Cardinality(Elements(q)) + due[q]
        /\ Live(q) <=> count[q] > 0
    BY CountIs
  <1>3. count[q] > 0 /\ (count[q] = 1 => temps[q] = 0) /\ ~stale'
    <2>1. due[q] > 0
      BY <1>1
    <2>2. count[q] > 0 /\ (count[q] = 1 => temps[q] = 0)
      BY <1>2, <2>1
    <2>3. Live(q)
      BY <1>2, <2>2
    <2> QED BY <1>0, <1>1, <2>2, <2>3 DEF Live
  <1>4. /\ count' \in [Objects -> Nat]
        /\ \A o \in Objects : count'[o] = count[o] - Is(q, o)
    <2>1. count[q] - 1 \in Nat
      BY <1>2, <1>3
    <2> QED BY <1>0, <1>1, <2>1 DEF Is
  <1>5. [due EXCEPT ![q] = @ - 1] \in [Objects -> Nat]
    <2>1. due[q] - 1 \in Nat
      BY <1>1, <1>2
    <2> QED BY <1>0, <2>1
  <1> DEFINE less == [due EXCEPT ![q] = @ - 1]
  <1>6. \A o \in Objects : less[o] = due[o] - Is(q, o)
    BY <1>0 DEF Is
  <1>7. ASSUME NEW o \in Objects PROVE Cardinality(Names(o)') = Cardinality(Names(o))
    BY <1>1 DEF Names
  <1>8. CASE count[q] # 1
    <2>1. due' = less /\ UNCHANGED <<kind, body>>
      BY <1>8 DEF Clean
    <2> HIDE DEF less
    <2>2. TypeOK'
      BY <1>0, <1>1, <1>3, <1>4, <1>5, <2>1 DEF TypeOK, Shape, less
    <2>3. ASSUME NEW o \in Objects
          PROVE  /\ count'[o] + gain'[o] =
                      Cardinality(Names(o)') + Cardinality(Elements(o)') + due'[o] + temps'[o]
                 /\ Live(o)' <=> count'[o] > 0
      <3>1. /\ Cardinality(Names(o)) \in Nat /\ Cardinality(Elements(o)) \in Nat
            /\ count[o] \in Nat /\ due[o] \in Nat /\ gain[o] \in Nat /\ temps[o] \in Nat
            /\ count[o] + gain[o] = Cardinality(Names(o)) + Cardinality(Elements(o)) + due[o] + temps[o]
            /\ Live(o) <=> count[o] > 0
        BY CountIs
      <3>2. Elements(o)' = Elements(o) /\ (Live(o)' <=> Live(o))
        BY <2>1 DEF Elements, Live
      <3>3. count'[o] = count[o] - Is(q, o) /\ due'[o] = due[o] - Is(q, o)
        BY <1>4, <1>6, <2>1
      <3>4. gain'[o] = gain[o] /\ temps'[o] = temps[o] /\ Cardinality(Names(o)') = Cardinality(Names(o))
        BY <1>1, <1>7
      <3>5. count[o] - Is(q, o) > 0 <=> count[o] > 0
        BY <1>3, <1>8, <3>1 DEF Is
      <3>6. Is(q, o) \in Int
        BY DEF Is
      <3> QED BY <3>1, <3>2, <3>3, <3>4, <3>5, <3>6
    <2>4. GainPlaced'
      BY <1>1, <2>1 DEF IInv, GainPlaced, In
    <2> QED BY <1>3, <2>2, <2>3, <2>4 DEF IInv, CountMatches, LiveIsCounted
  <1>9. CASE count[q] = 1
    <2>1. /\ due' = Plus(less, Held(q))
          /\ kind' = [kind EXCEPT ![q] = "free"] /\ body' = [body EXCEPT ![q] = Nothing]
      BY <1>9 DEF Clean
    <2>2. HeldIsIn
      BY <1>0, Holding
    <2> HIDE DEF less
    <2>3. due' \in [Objects -> Nat] /\ \A o \in Objects : due'[o] = less[o] + Held(q)[o]
      BY <1>5, <2>1, <2>2, PlusType DEF HeldIsIn, less
    <2>4. /\ kind' = [o \in Objects |-> IF o = q THEN "free" ELSE kind[o]]
          /\ body' = [o \in Objects |-> IF o = q THEN Nothing ELSE body[o]]
      BY <1>0, <2>1 DEF Shape
    <2>5. Shape'
      <3>1. BodyOK("free", Nothing)
        BY FreeIs
      <3> QED BY <1>0, <1>1, <2>4, <3>1 DEF Shape
    <2>6. TypeOK'
      BY <1>0, <1>1, <1>3, <1>4, <2>3, <2>5 DEF TypeOK, Shape
    <2>7. \A o : In(o, q)' = {}
      <3>1. Slots(kind'[q], body'[q]) = <<>>
        BY <2>4, FreeIs
      <3> QED BY <3>1 DEF In
    <2>8. ASSUME NEW o \in Objects
          PROVE  /\ count'[o] + gain'[o] =
                      Cardinality(Names(o)') + Cardinality(Elements(o)') + due'[o] + temps'[o]
                 /\ Live(o)' <=> count'[o] > 0
      <3>1. /\ Cardinality(Names(o)) \in Nat /\ Cardinality(Elements(o)) \in Nat
            /\ count[o] \in Nat /\ due[o] \in Nat /\ gain[o] \in Nat /\ temps[o] \in Nat
            /\ count[o] + gain[o] = Cardinality(Names(o)) + Cardinality(Elements(o)) + due[o] + temps[o]
            /\ Live(o) <=> count[o] > 0
        BY CountIs
      <3>2. Cardinality(Elements(o)') =
              Cardinality(Elements(o)) - Cardinality(In(o, q)) + Cardinality(In(o, q)')
        BY <1>0, <2>4, <2>5, ElementsStep
      <3>3. Cardinality(In(o, q)) = Held(q)[o] /\ Held(q)[o] \in Nat /\ Cardinality(In(o, q)') = 0
        BY <2>2, <2>7, FS_EmptySet DEF HeldIsIn
      <3>4. count'[o] = count[o] - Is(q, o) /\ due'[o] = due[o] - Is(q, o) + Held(q)[o]
        BY <1>4, <1>6, <2>3
      <3>5. gain'[o] = gain[o] /\ temps'[o] = temps[o] /\ Cardinality(Names(o)') = Cardinality(Names(o))
        BY <1>1, <1>7
      <3>6. Live(o)' <=> Live(o) /\ o # q
        BY <1>0, <2>4 DEF Live, Shape
      <3>7. count[o] - Is(q, o) > 0 <=> count[o] > 0 /\ o # q
        BY <1>9, <3>1 DEF Is
      <3>8. Is(q, o) \in Int
        BY DEF Is
      <3>9. Live(o)' <=> count'[o] > 0
        BY <3>1, <3>4, <3>6, <3>7
      <3>10. count'[o] + gain'[o] =
               Cardinality(Names(o)') + Cardinality(Elements(o)') + due'[o] + temps'[o]
        BY <3>1, <3>2, <3>3, <3>4, <3>5, <3>8
      <3> QED BY <3>9, <3>10
    <2>9. GainPlaced'
      <3>1. temps[q] = 0
        BY <1>3, <1>9
      <3>2. \A o, c \in Objects : temps[c] > 0 => c # q /\ In(o, c)' = In(o, c)
        BY <2>4, <3>1 DEF In
      <3> QED BY <1>1, <3>2 DEF IInv, GainPlaced
    <2> QED BY <1>3, <2>6, <2>8, <2>9 DEF IInv, CountMatches, LiveIsCounted
  <1> QED BY <1>8, <1>9

LEMMA CountedInv ==
  ASSUME IInv, Counted
  PROVE  IInv'
  <1>1. /\ due = Zero /\ count' = Plus(count, gain)
        /\ stale' = (stale \/ \E o \in Objects : gain[o] > 0 /\ kind[o] = "free")
        /\ due' = temps /\ gain' = Zero /\ temps' = Zero
        /\ UNCHANGED <<line, env, kind, body>>
    BY DEF Counted
  <1>2. /\ Shape /\ ~stale
        /\ count \in [Objects -> Nat] /\ gain \in [Objects -> Nat] /\ temps \in [Objects -> Nat]
    BY TypeShape DEF IInv, TypeOK, CountMatches
  <1>3. count' \in [Objects -> Nat] /\ \A o \in Objects : count'[o] = count[o] + gain[o]
    BY <1>1, <1>2, PlusType
  <1>4. ASSUME NEW o \in Objects
        PROVE  /\ count'[o] + gain'[o] =
                    Cardinality(Names(o)') + Cardinality(Elements(o)') + due'[o] + temps'[o]
               /\ Live(o)' <=> count'[o] > 0
               /\ gain[o] > 0 => Live(o)
               /\ gain'[o] = 0
    <2>1. /\ Cardinality(Names(o)) \in Nat /\ Cardinality(Elements(o)) \in Nat
          /\ count[o] \in Nat /\ due[o] \in Nat /\ gain[o] \in Nat /\ temps[o] \in Nat
          /\ count[o] + gain[o] = Cardinality(Names(o)) + Cardinality(Elements(o)) + due[o] + temps[o]
          /\ count[o] >= due[o] + temps[o]
          /\ Live(o) <=> count[o] > 0
      BY CountIs
    <2>2. Names(o)' = Names(o) /\ Elements(o)' = Elements(o) /\ (Live(o)' <=> Live(o))
      BY <1>1 DEF Names, Elements, Live
    <2>3. due[o] = 0 /\ gain'[o] = 0 /\ temps'[o] = 0 /\ due'[o] = temps[o]
      BY <1>1, ZeroType
    <2>4. count'[o] = count[o] + gain[o]
      BY <1>3
    <2>5. gain[o] > 0 => temps[o] > 0
      BY DEF IInv, GainPlaced
    <2> QED BY <2>1, <2>2, <2>3, <2>4, <2>5
  <1>5. ~stale'
    BY <1>1, <1>2, <1>4 DEF Live
  <1>6. TypeOK'
    BY <1>1, <1>2, <1>3, <1>5, ZeroType DEF TypeOK, Shape
  <1>7. GainPlaced'
    <2>1. \A o \in Objects : ~(gain'[o] > 0)
      BY <1>4
    <2> QED BY <2>1 DEF GainPlaced
  <1> QED BY <1>4, <1>5, <1>6, <1>7 DEF IInv, CountMatches, LiveIsCounted

LEMMA InitInv == Init => IInv
  <1> SUFFICES ASSUME Init PROVE IInv
    OBVIOUS
  <1>1. /\ env = [x \in Vars |-> None]
        /\ kind = [o \in Objects |-> "free"] /\ body = [o \in Objects |-> Nothing]
        /\ count = Zero /\ due = Zero /\ gain = Zero /\ temps = Zero /\ stale = FALSE
    BY DEF Init
  <1>2. Zero \in [Objects -> Nat] /\ \A o \in Objects : Zero[o] = 0
    BY ZeroType
  <1>3. TypeOK
    <2>1. BodyOK("free", Nothing)
      BY FreeIs
    <2>2. env \in [Vars -> Values]
      BY <1>1 DEF Values
    <2>3. kind \in [Objects -> ContainerKinds \cup {"free"}]
      BY <1>1
    <2>4. /\ body = [o \in Objects |-> body[o]]
          /\ \A o \in Objects : BodyOK(kind[o], body[o])
      BY <1>1, <2>1
    <2> QED BY <1>1, <1>2, <2>2, <2>3, <2>4 DEF TypeOK
  <1>4. ASSUME NEW o \in Objects
        PROVE  Cardinality(Names(o)) = 0 /\ Cardinality(Elements(o)) = 0
    <2>1. Names(o) = {}
      BY <1>1, ValueAssumption DEF Names
    <2>2. ASSUME NEW p \in Objects PROVE Slots(kind[p], body[p]) = <<>>
      BY <1>1, FreeIs
    <2>3. Elements(o) = {}
      BY <2>2 DEF Elements
    <2> QED BY <2>1, <2>3, FS_EmptySet
  <1>5. CountMatches
    BY <1>1, <1>2, <1>4 DEF CountMatches
  <1>6. LiveIsCounted
    BY <1>1, <1>2 DEF LiveIsCounted, Live
  <1>7. GainPlaced
    BY <1>1, <1>2 DEF GainPlaced
  <1> QED BY <1>3, <1>5, <1>6, <1>7 DEF IInv

-----------------------------------------------------------------------------
(***************************************************************************)
(* The statements.                                                         *)
(***************************************************************************)

\* The operands of a literal.
LEMMA ListsAre ==
  ASSUME IInv, NEW vs \in Lists
  PROVE  /\ \E n \in 0..2 : DOMAIN vs = 1..n /\ Len(vs) = n
         /\ vs \in Seq(Values) /\ IsFiniteSet(DOMAIN vs)
         /\ \A i \in DOMAIN vs : Ready(vs[i])
         /\ Bag(vs) \in [Objects -> Nat] /\ Present(Bag(vs))
  <1>1. PICK n \in 0..2 : vs \in [1..n -> Operands]
    BY DEF Lists
  <1>2. vs \in Seq(Operands) /\ Len(vs) = n /\ DOMAIN vs = 1..n
    BY <1>1
  <1>3. IsFiniteSet(DOMAIN vs)
    BY <1>2, FS_Interval
  <1>4. \A i \in DOMAIN vs : Ready(vs[i])
    BY <1>1, OperandReady
  <1>5. vs \in Seq(Values)
    <2>1. \A i \in 1..n : vs[i] \in Values
      BY <1>2, <1>4 DEF Ready
    <2> QED BY <1>1, <1>2, <2>1
  <1> QED BY <1>2, <1>3, <1>4, <1>5, BagReady

LEMMA ListLiteralInv ==
  ASSUME IInv, NEW x \in Vars, NEW vs \in Lists, ListLiteral(x, vs)
  PROVE  IInv'
  <1>1. Create(<<"list", x, vs>>, x, "list", vs, Bag(vs))
    BY DEF ListLiteral
  <1>2. vs \in Seq(Values) /\ Slots("list", vs) = vs /\ BodyOK("list", vs)
    BY ListsAre, ListIs
  <1> QED BY <1>1, <1>2, ListsAre, CreateInv DEF ContainerKinds

LEMMA MakeTupleInv ==
  ASSUME IInv, NEW x \in Vars, NEW vs \in Lists, MakeTuple(x, vs)
  PROVE  IInv'
  <1>1. Create(<<"tuple", x, vs>>, x, "tuple", vs, Plus(Bag(vs), Bag(vs)))
    BY DEF MakeTuple
  <1>2. vs \in Seq(Values) /\ Slots("tuple", vs) = vs /\ BodyOK("tuple", vs)
    BY ListsAre, ListIs
  <1>3. Plus(Bag(vs), Bag(vs)) \in [Objects -> Nat] /\ Present(Plus(Bag(vs), Bag(vs)))
    BY ListsAre, PlusReady
  <1> QED BY <1>1, <1>2, <1>3, ListsAre, CreateInv DEF ContainerKinds

LEMMA SetLiteralInv ==
  ASSUME IInv, NEW x \in Vars, NEW vs \in Lists, SetLiteral(x, vs)
  PROVE  IInv'
  <1> DEFINE b == {vs[i] : i \in DOMAIN vs}
  <1>1. Create(<<"set", x, vs>>, x, "set", b, Bag(vs))
    BY DEF SetLiteral
  <1>2. b \subseteq Values /\ \A v \in b : Ready(v)
    BY ListsAre DEF Ready
  <1>3. IsFiniteSet(b)
    <2>1. IsFiniteSet(DOMAIN vs)
      BY ListsAre
    <2>2. [i \in DOMAIN vs |-> vs[i]] \in Surjection(DOMAIN vs, b)
      BY DEF Surjection
    <2> QED BY <2>1, <2>2, FS_Surjection
  <1> HIDE DEF b
  <1>4. Slots("set", b) = [v \in b |-> v] /\ BodyOK("set", b)
    BY <1>2, <1>3, SetIs
  <1>5. \A s \in DOMAIN Slots("set", b) : Ready(Slots("set", b)[s])
    BY <1>2, <1>4
  <1> QED BY <1>1, <1>4, <1>5, ListsAre, CreateInv DEF ContainerKinds

LEMMA DictLiteralInv ==
  ASSUME IInv, NEW x \in Vars, NEW k \in Operands, NEW vs \in Lists \ {<<>>}, DictLiteral(x, k, vs)
  PROVE  IInv'
  <1> DEFINE n == Len(vs)
             b == [j \in {k} |-> vs[n]]
             ks == [i \in 1..n |-> k]
             early == [i \in 1..(n - 1) |-> vs[i]]
             others == Plus(Plus(Bag(ks), Bag(vs)), Bag(early))
             st == <<"dict", x, [i \in 1..n |-> <<k, vs[i]>>]>>
  <1>1. Create(st, x, "dict", b, others)
    BY DEF DictLiteral
  <1>2. /\ n \in 1..2 /\ DOMAIN vs = 1..n
        /\ \A i \in 1..n : Ready(vs[i])
        /\ Ready(k)
    <2>1. PICK m \in 0..2 : DOMAIN vs = 1..m /\ Len(vs) = m
      BY ListsAre
    <2>2. m # 0
      <3>1. vs \in Seq(Values) /\ vs # <<>>
        BY ListsAre
      <3> QED BY <2>1, <3>1
    <2> QED BY <2>1, <2>2, ListsAre, OperandReady
  <1> HIDE DEF n
  <1>3. /\ IsFiniteSet(DOMAIN ks) /\ \A i \in DOMAIN ks : Ready(ks[i])
        /\ IsFiniteSet(DOMAIN early) /\ \A i \in DOMAIN early : Ready(early[i])
    <2>1. IsFiniteSet(1..n) /\ IsFiniteSet(1..(n - 1))
      BY <1>2, FS_Interval
    <2> QED BY <1>2, <2>1
  <1>4. others \in [Objects -> Nat] /\ Present(others)
    <2> HIDE DEF ks, early
    <2>1. /\ Bag(ks) \in [Objects -> Nat] /\ Present(Bag(ks))
          /\ Bag(early) \in [Objects -> Nat] /\ Present(Bag(early))
          /\ Bag(vs) \in [Objects -> Nat] /\ Present(Bag(vs))
      BY <1>3, BagReady, ListsAre
    <2>2. Plus(Bag(ks), Bag(vs)) \in [Objects -> Nat] /\ Present(Plus(Bag(ks), Bag(vs)))
      BY <2>1, PlusReady
    <2> QED BY <2>1, <2>2, PlusReady
  <1>5. /\ b \in [DOMAIN b -> Values] /\ DOMAIN b = {k} /\ b[k] = vs[n]
        /\ DOMAIN b \subseteq Values /\ IsFiniteSet(DOMAIN b) /\ Ready(b[k])
    <2>1. n \in 1..n
      BY <1>2
    <2>2. Ready(vs[n]) /\ vs[n] \in Values /\ k \in Values
      BY <1>2, <2>1 DEF Ready
    <2>3. DOMAIN b = {k} /\ b[k] = vs[n]
      OBVIOUS
    <2>4. b \in [DOMAIN b -> Values]
      BY <2>2
    <2> QED BY <2>2, <2>3, <2>4, FS_Singleton
  <1> HIDE DEF b, others, st
  <1>6. /\ Slots("dict", b) = [s \in {"key", "value"} \X DOMAIN b |-> IF s[1] = "key" THEN s[2] ELSE b[s[2]]]
        /\ BodyOK("dict", b)
    BY <1>5, DictIs
  <1>7. \A s \in DOMAIN Slots("dict", b) : Ready(Slots("dict", b)[s])
    <2>1. ASSUME NEW s \in DOMAIN Slots("dict", b) PROVE Slots("dict", b)[s] \in {k, b[k]}
      BY <1>5, <1>6
    <2> QED BY <1>2, <1>5, <2>1
  <1> QED BY <1>1, <1>4, <1>6, <1>7, CreateInv DEF ContainerKinds

\* The values that an expression reads are in the container.
LEMMA ElementReady ==
  ASSUME IInv, NEW c \in Objects
  PROVE  /\ kind[c] \in {"list", "tuple"} => \A i \in DOMAIN body[c] : Ready(body[c][i])
         /\ kind[c] = "dict" => \A k \in DOMAIN body[c] : Ready(body[c][k])
  <1>1. ASSUME kind[c] \in {"list", "tuple"}, NEW i \in DOMAIN body[c] PROVE Ready(body[c][i])
    <2>1. Slots(kind[c], body[c]) = body[c]
      BY <1>1, ListIs
    <2> QED BY <2>1, SlotReady
  <1>2. ASSUME kind[c] = "dict", NEW k \in DOMAIN body[c] PROVE Ready(body[c][k])
    <2>1. Slots("dict", body[c]) = [s \in {"key", "value"} \X DOMAIN body[c] |->
                                     IF s[1] = "key" THEN s[2] ELSE body[c][s[2]]]
      BY DictIs
    <2>2. /\ <<"value", k>> \in DOMAIN Slots(kind[c], body[c])
          /\ Slots(kind[c], body[c])[<<"value", k>>] = body[c][k]
      BY <1>2, <2>1
    <2> QED BY <2>2, SlotReady
  <1> QED BY <1>1, <1>2

LEMMA GetItemInv ==
  ASSUME IInv, NEW x \in Vars, NEW c \in Containers, NEW k \in Operands, GetItem(x, c, k)
  PROVE  IInv'
  <1>1. c \in Objects /\ Ready(c) /\ Ready(k)
    BY ContainerReady, OperandReady
  <1>2. Bag(<<c, k>>) \in [Objects -> Nat] /\ Present(Bag(<<c, k>>))
    BY <1>1, BagsReady
  <1>3. CASE kind[c] = "list" /\ \E i \in At(body[c], k) :
               Fetch(<<"item", x, c, k>>, x, body[c][i], <<c, k>>)
    <2>1. PICK i \in DOMAIN body[c] : Fetch(<<"item", x, c, k>>, x, body[c][i], <<c, k>>)
      BY <1>3 DEF At
    <2>2. Ready(body[c][i])
      BY <1>1, <1>3, ElementReady
    <2> QED BY <1>2, <2>1, <2>2, FetchInv
  <1>4. CASE kind[c] = "dict" /\ k \in DOMAIN body[c] /\
               Fetch(<<"item", x, c, k>>, x, body[c][k], <<c, k>>)
    <2>1. Ready(body[c][k])
      BY <1>1, <1>4, ElementReady
    <2> QED BY <1>2, <1>4, <2>1, FetchInv
  <1> QED BY <1>3, <1>4 DEF GetItem

LEMMA DictGetInv ==
  ASSUME IInv, NEW x \in Vars, NEW c \in Containers, NEW k \in Operands, NEW d \in Operands \cup {None},
         DictGet(x, c, k, d)
  PROVE  IInv'
  <1> DEFINE v == IF k \in DOMAIN body[c] THEN body[c][k] ELSE d
  <1>1. kind[c] = "dict" /\ Fetch(<<"get", x, c, k, d>>, x, v, <<c, k, d>>)
    BY DEF DictGet
  <1>2. c \in Objects /\ Ready(c) /\ Ready(k) /\ Ready(d)
    BY ContainerReady, OperandReady
  <1>3. Bag(<<c, k, d>>) \in [Objects -> Nat] /\ Present(Bag(<<c, k, d>>))
    BY <1>2, BagsReady
  <1>4. Ready(v)
    BY <1>1, <1>2, ElementReady
  <1> HIDE DEF v
  <1> QED BY <1>1, <1>3, <1>4, FetchInv

LEMMA GetTupleFieldInv ==
  ASSUME IInv, NEW x \in Vars, NEW c \in Containers, NEW i \in Numbers, GetTupleField(x, c, i)
  PROVE  IInv'
  <1>1. /\ kind[c] = "tuple" /\ i + 1 \in DOMAIN body[c]
        /\ Fetch(<<"item", x, c, i>>, x, body[c][i + 1], <<c>>)
    BY DEF GetTupleField
  <1>2. c \in Objects /\ Ready(c)
    BY ContainerReady
  <1>3. Bag(<<c>>) \in [Objects -> Nat] /\ Present(Bag(<<c>>))
    BY <1>2, BagsReady
  <1>4. Ready(body[c][i + 1])
    BY <1>1, <1>2, ElementReady
  <1> QED BY <1>1, <1>3, <1>4, FetchInv

LEMMA SetItemInv ==
  ASSUME IInv, NEW c \in Containers, NEW k \in Operands, NEW v \in Operands, SetItem(c, k, v)
  PROVE  IInv'
  <1>1. c \in Objects /\ Ready(c) /\ Ready(k) /\ Ready(v)
    BY ContainerReady, OperandReady
  <1>2. CASE kind[c] = "list" /\ \E i \in At(body[c], k) : Assign(<<"put", c, k, v>>, c, k, i, v)
    <2>1. PICK i \in DOMAIN body[c] : Assign(<<"put", c, k, v>>, c, k, i, v)
      BY <1>2 DEF At
    <2> QED BY <1>1, <1>2, <2>1, AssignInv
  <1>3. CASE kind[c] = "dict" /\ DictInsert(<<"put", c, k, v>>, c, k, v)
    BY <1>1, <1>3, DictInsertInv
  <1> QED BY <1>2, <1>3 DEF SetItem

\* c.clear() of the three classes
LEMMA ClearInv ==
  ASSUME IInv, NEW c \in Containers, ListClear(c) \/ SetClear(c) \/ DictClear(c)
  PROVE  IInv'
  <1>1. c \in Objects /\ Ready(c)
    BY ContainerReady
  <1>2. DOMAIN <<>> = {} /\ <<>> \in Seq(Values)
    OBVIOUS
  <1>3. CASE ListClear(c)
    <2>1. kind[c] = "list" /\ ClearNode(<<"clear", c>>, c, <<>>)
      BY <1>3 DEF ListClear
    <2>2. BodyOK("list", <<>>) /\ Slots("list", <<>>) = <<>>
      BY <1>2, ListIs
    <2> QED BY <1>1, <1>2, <2>1, <2>2, ClearNodeInv
  <1>4. CASE SetClear(c)
    <2>1. kind[c] = "set" /\ ClearNode(<<"clear", c>>, c, {})
      BY <1>4 DEF SetClear
    <2>2. BodyOK("set", {}) /\ Slots("set", {}) = [v \in {} |-> v]
      BY FS_EmptySet, SetIs
    <2>3. DOMAIN Slots("set", {}) = {}
      BY <2>2
    <2> QED BY <1>1, <2>1, <2>2, <2>3, ClearNodeInv
  <1>5. CASE DictClear(c)
    <2>1. kind[c] = "dict" /\ ClearNode(<<"clear", c>>, c, <<>>)
      BY <1>5 DEF DictClear
    <2>2. /\ Slots("dict", <<>>) = [s \in {"key", "value"} \X DOMAIN <<>> |->
                                     IF s[1] = "key" THEN s[2] ELSE <<>>[s[2]]]
          /\ BodyOK("dict", <<>>) <=> /\ IsFiniteSet(DOMAIN <<>>) /\ DOMAIN <<>> \subseteq Values
                                      /\ <<>> \in [DOMAIN <<>> -> Values]
      BY DictIs
    <2>3. IsFiniteSet(DOMAIN <<>>)
      BY <1>2, FS_EmptySet
    <2>4. <<>> \in [DOMAIN <<>> -> Values]
      OBVIOUS
    <2>5. BodyOK("dict", <<>>) /\ DOMAIN Slots("dict", <<>>) = {}
      BY <1>2, <2>2, <2>3, <2>4
    <2> QED BY <1>1, <2>1, <2>5, ClearNodeInv
  <1> QED BY <1>3, <1>4, <1>5

LEMMA NodeInv ==
  ASSUME IInv, NEW c \in Containers, NEW v \in Operands,
         ListAppend(c, v) \/ SetAdd(c, v) \/ SetDiscard(c, v)
  PROVE  IInv'
  <1>1. c \in Objects /\ Ready(c) /\ Ready(v)
    BY ContainerReady, OperandReady
  <1>2. CASE ListAppend(c, v)
    BY <1>1, <1>2, PushBackInv DEF ListAppend
  <1>3. CASE SetAdd(c, v)
    BY <1>1, <1>3, SetInsertInv DEF SetAdd
  <1>4. CASE SetDiscard(c, v)
    BY <1>1, <1>4, SetEraseInv DEF SetDiscard
  <1> QED BY <1>2, <1>3, <1>4

LEMMA StatementInv ==
  ASSUME IInv, Statement
  PROVE  IInv'
  <1>1. ASSUME NEW x \in Vars, NEW v \in Operands, Bind(x, v) PROVE IInv'
    <2>1. Ready(v) /\ Fetch(<<"bind", x, v>>, x, v, <<>>)
      BY <1>1, OperandReady DEF Bind
    <2>2. Bag(<<>>) \in [Objects -> Nat] /\ Present(Bag(<<>>))
      <3>1. DOMAIN <<>> = {}
        OBVIOUS
      <3> QED BY <3>1, FS_EmptySet, BagReady
    <2> QED BY <2>1, <2>2, FetchInv
  <1>2. ASSUME NEW x \in Vars, NEW vs \in Lists,
               ListLiteral(x, vs) \/ SetLiteral(x, vs) \/ MakeTuple(x, vs)
        PROVE  IInv'
    BY <1>2, ListLiteralInv, SetLiteralInv, MakeTupleInv
  <1>3. ASSUME NEW x \in Vars, NEW k \in Operands, NEW vs \in Lists \ {<<>>}, DictLiteral(x, k, vs)
        PROVE  IInv'
    BY <1>3, DictLiteralInv
  <1>4. ASSUME NEW x \in Vars, NEW c \in Containers, NEW k \in Operands,
               GetItem(x, c, k) \/ (\E d \in Operands \cup {None} : DictGet(x, c, k, d))
                 \/ (k \in Numbers /\ GetTupleField(x, c, k))
        PROVE  IInv'
    BY <1>4, GetItemInv, DictGetInv, GetTupleFieldInv
  <1>5. ASSUME NEW c \in Containers, ListClear(c) \/ SetClear(c) \/ DictClear(c) PROVE IInv'
    BY <1>5, ClearInv
  <1>6. ASSUME NEW c \in Containers, NEW v \in Operands, ListAppend(c, v) \/ SetAdd(c, v) \/ SetDiscard(c, v)
        PROVE  IInv'
    BY <1>6, NodeInv
  <1>7. ASSUME NEW c \in Containers, NEW k \in Operands, NEW v \in Operands, SetItem(c, k, v) PROVE IInv'
    BY <1>7, SetItemInv
  <1> QED BY <1>1, <1>2, <1>3, <1>4, <1>5, <1>6, <1>7 DEF Statement

LEMMA StutterInv ==
  ASSUME IInv, UNCHANGED vars
  PROVE  IInv'
  <1>1. /\ UNCHANGED <<line, env, kind, body, count, due, gain, temps, stale>>
    BY DEF vars
  <1>2. TypeOK'
    BY <1>1 DEF IInv, TypeOK
  <1>3. CountMatches'
    <2>1. \A o \in Objects : Names(o)' = Names(o) /\ Elements(o)' = Elements(o)
      BY <1>1 DEF Names, Elements
    <2> QED BY <1>1, <2>1 DEF IInv, CountMatches
  <1>4. LiveIsCounted' /\ GainPlaced'
    BY <1>1 DEF IInv, LiveIsCounted, GainPlaced, Live, In
  <1> QED BY <1>2, <1>3, <1>4 DEF IInv

LEMMA NextInv == IInv /\ [Next]_vars => IInv'
  BY StatementInv, CleanInv, CountedInv, StutterInv DEF Next

-----------------------------------------------------------------------------
(***************************************************************************)
(* The theorems.                                                           *)
(***************************************************************************)

\* The counters are right in every state, and what is not counted yet stands
\* where its temporary keeps it alive.
THEOREM Invariant == Spec => []IInv
  <1>1. Init => IInv
    BY InitInv
  <1>2. IInv /\ [Next]_vars => IInv'
    BY NextInv
  <1> QED BY <1>1, <1>2, PTL DEF Spec

\* Every node has the contents of its class, nothing is in a free place, and no
\* counter is ever negative.
THEOREM TypeCorrect == Spec => []TypeOK
  <1>1. IInv => TypeOK
    BY DEF IInv
  <1> QED BY <1>1, Invariant, PTL

\* Whatever scripts do, with containers in containers or in themselves, a counter
\* is the number of references to its node, and no deleted node is touched.
THEOREM CountersMatch == Spec => []CountMatches
  <1>1. IInv => CountMatches
    BY DEF IInv
  <1> QED BY <1>1, Invariant, PTL

-----------------------------------------------------------------------------
(***************************************************************************)
(* What is reachable is the least closed set.                              *)
(***************************************************************************)

LEMMA ReachableIs ==
  ASSUME NEW from, from \subseteq Objects
  PROVE  /\ Reachable(from) \subseteq Objects
         /\ from \subseteq Reachable(from)
         /\ Closed(Reachable(from))
  <1>1. Reachable(from) \subseteq Objects /\ from \subseteq Reachable(from)
    BY DEF Reachable
  <1>2. ASSUME NEW o \in Reachable(from), NEW i \in Inside(o) PROVE i \in Reachable(from)
    <2>1. i \in Objects
      BY DEF Inside
    <2>2. ASSUME NEW S \in SUBSET Objects, from \subseteq S, Closed(S) PROVE i \in S
      <3>1. o \in S
        BY <2>2 DEF Reachable
      <3> QED BY <2>2, <3>1 DEF Closed
    <2> QED BY <2>1, <2>2 DEF Reachable
  <1>3. Closed(Reachable(from))
    BY <1>2 DEF Closed
  <1> QED BY <1>1, <1>3

LEMMA ReachableLeast ==
  ASSUME NEW from, NEW S \in SUBSET Objects, from \subseteq S, Closed(S)
  PROVE  Reachable(from) \subseteq S
  BY DEF Reachable

\* From what can be reached nothing else can be.
LEMMA ReachableMore ==
  ASSUME NEW from, from \subseteq Objects, NEW more, more \subseteq Reachable(from)
  PROVE  Reachable(more) \subseteq Reachable(from)
  BY ReachableIs, ReachableLeast

LEMMA InUseIs == /\ InUse \subseteq Objects /\ Containers \subseteq InUse
                 /\ \A o \in InUse : Inside(o) \subseteq InUse
  <1>1. Containers \subseteq Objects
    BY DEF Containers
  <1> QED BY <1>1, ReachableIs DEF InUse, Closed

\* The least of some numbers.
LEMMA Least ==
  ASSUME NEW T \in SUBSET Nat, T # {}
  PROVE  \E x \in T : \A y \in T : ~ (y < x)
  <1> DEFINE R == {ss \in Nat \X Nat : ss[1] < ss[2]}
  <1>1. IsWellFoundedOn(R, Nat)
    BY NatLessThanWellFounded, Zenon DEF OpToRel
  <1> HIDE DEF R
  <1>2. \E x \in T : \A y \in T : ~ (<<y, x>> \in R)
    BY <1>1, WFMin
  <1> QED BY <1>2 DEF R

\* If each of some nodes is inside another of them, one can be reached from what
\* is inside it: the one that the fewest lead to.
LEMMA CycleAmong ==
  ASSUME NEW D \in SUBSET Objects, D # {},
         \A p \in D : \E h \in D : p \in Inside(h)
  PROVE  \E p \in D : p \in Reachable(Inside(p))
  <1> DEFINE To(p) == {q \in D : p \in Reachable({q})}
             T == {Cardinality(To(p)) : p \in D}
  <1>1. \A p \in D : IsFiniteSet(To(p)) /\ Cardinality(To(p)) \in Nat
    <2>1. IsFiniteSet(D)
      BY FiniteAssumption, FS_Subset
    <2>2. ASSUME NEW p \in D PROVE IsFiniteSet(To(p))
      BY <2>1, FS_Subset
    <2> HIDE DEF To
    <2> QED BY <2>2, FS_CardinalityType
  <1>2. PICK p \in D : \A q \in D : ~ (Cardinality(To(q)) < Cardinality(To(p)))
    <2> HIDE DEF To
    <2>1. T \in SUBSET Nat /\ T # {}
      BY <1>1
    <2>2. \E x \in T : \A y \in T : ~ (y < x)
      <3> HIDE DEF T
      <3> QED BY <2>1, Least
    <2> QED BY <2>2
  <1>3. PICK h \in D : p \in Inside(h)
    OBVIOUS
  <1>4. p \in Objects /\ h \in Objects /\ Inside(h) \subseteq Objects
    BY DEF Inside
  <1>5. p \in Reachable({h}) /\ p \in Reachable({p}) /\ h \in Reachable({h})
    BY <1>3, <1>4, ReachableIs DEF Closed
  <1>6. To(h) \subseteq To(p)
    <2>1. ASSUME NEW q \in To(h) PROVE p \in Reachable({q})
      <3>1. h \in Reachable({q}) /\ {q} \subseteq Objects
        OBVIOUS
      <3> QED BY <1>3, <3>1, ReachableIs DEF Closed
    <2> QED BY <2>1
  <1>7. To(h) = To(p)
    <2>1. IsFiniteSet(To(p)) /\ Cardinality(To(p)) \in Nat /\ Cardinality(To(h)) \in Nat
      BY <1>1
    <2>2. ~ (Cardinality(To(h)) < Cardinality(To(p)))
      BY <1>2
    <2> HIDE DEF To
    <2>3. Cardinality(To(h)) <= Cardinality(To(p)) /\ (Cardinality(To(h)) = Cardinality(To(p)) => To(h) = To(p))
      BY <1>6, <2>1, FS_Subset
    <2> QED BY <2>1, <2>2, <2>3
  <1>8. h \in Reachable({p})
    <2>1. p \in To(h)
      BY <1>5, <1>7
    <2> QED BY <2>1
  <1>9. Reachable({p}) \subseteq Reachable(Inside(h))
    <2>1. {p} \subseteq Reachable(Inside(h))
      BY <1>3, <1>4, ReachableIs
    <2> QED BY <1>4, <2>1, ReachableMore
  <1> QED BY <1>8, <1>9

\* A node that is there but not in use is inside another such node.
LEMMA LostIsHeld ==
  ASSUME IInv, Between, NEW o \in Objects \ InUse, Live(o)
  PROVE  \E h \in Objects \ InUse : Live(h) /\ o \in Inside(h)
  <1>1. Names(o) = {}
    <2>1. ASSUME NEW x \in Vars, env[x] = o PROVE FALSE
      <3>1. o \in Containers
        BY <2>1 DEF Containers
      <3> QED BY <3>1, InUseIs
    <2> QED BY <2>1 DEF Names
  <1>2. Elements(o) # {}
    <2>1. due[o] = 0 /\ temps[o] = 0 /\ gain[o] = 0
      BY ZeroType DEF Between
    <2>2. /\ count[o] + gain[o] = Cardinality(Names(o)) + Cardinality(Elements(o)) + due[o] + temps[o]
          /\ count[o] > 0 /\ count[o] \in Nat
      BY CountIs
    <2>3. Cardinality(Names(o)) = 0
      BY <1>1, FS_EmptySet
    <2>4. Cardinality(Elements(o)) # 0
      BY <2>1, <2>2, <2>3
    <2> QED BY <2>4, FS_EmptySet
  <1>3. PICK h \in Objects : In(o, h) # {}
    BY <1>2 DEF Elements, In
  <1>4. o \in Inside(h)
    BY <1>3 DEF In, Inside
  <1>5. h \notin InUse
    BY <1>4, InUseIs
  <1>6. Live(h)
    <2>1. ASSUME kind[h] = "free" PROVE FALSE
      <3>1. Slots(kind[h], body[h]) = <<>>
        BY <2>1, FreeIs
      <3> QED BY <1>3, <3>1 DEF In
    <2> QED BY <2>1 DEF Live
  <1> QED BY <1>4, <1>5, <1>6

\* Between statements a node that no variable leads to, and that is not deleted,
\* is held by a cycle: counting loses memory in no other way.
THEOREM OnlyCyclesAreLost == Spec => []LeaksAreCycles
  <1>1. ASSUME IInv PROVE LeaksAreCycles
    <2> SUFFICES ASSUME Between, NEW o \in Objects \ InUse, kind[o] # "free"
                 PROVE  \E p \in Objects \ InUse : p \in Reachable(Inside(p)) /\ o \in Reachable({p})
      BY DEF LeaksAreCycles
    <2> DEFINE D == {p \in Objects \ InUse : Live(p) /\ o \in Reachable({p})}
    <2>1. o \in D
      BY ReachableIs DEF Live
    <2>2. ASSUME NEW p \in D PROVE \E h \in D : p \in Inside(h)
      <3>1. PICK h \in Objects \ InUse : Live(h) /\ p \in Inside(h)
        BY <1>1, LostIsHeld
      <3>2. {p} \subseteq Reachable({h})
        BY <3>1, ReachableIs DEF Closed
      <3>3. Reachable({p}) \subseteq Reachable({h})
        BY <3>2, ReachableMore
      <3>4. h \in D
        BY <3>1, <3>3
      <3> QED BY <3>1, <3>4
    <2>3. PICK p \in D : p \in Reachable(Inside(p))
      <3>1. D \in SUBSET Objects /\ D # {}
        BY <2>1
      <3> HIDE DEF D
      <3> QED BY <2>2, <3>1, CycleAmong
    <2> QED BY <2>3
  <1> QED BY <1>1, Invariant, PTL

-----------------------------------------------------------------------------
(***************************************************************************)
(* The refinement of PyHeap.                                               *)
(***************************************************************************)

\* What a container holds is the same in both.
LEMMA HeldIsInside ==
  ASSUME NEW k \in ContainerKinds, NEW b
  PROVE  Python!Held([kind |-> k, body |-> b]) = {Slots(k, b)[s] : s \in DOMAIN Slots(k, b)}
  <1>1. CASE k \in {"list", "tuple"}
    <2>1. Slots(k, b) = b
      BY <1>1, ListIs
    <2>2. Python!Held([kind |-> k, body |-> b]) = {b[s] : s \in DOMAIN b}
      BY <1>1 DEF Python!Held, Python!ToSet
    <2> QED BY <2>1, <2>2
  <1>2. CASE k = "set"
    <2>1. Slots(k, b) = [v \in b |-> v]
      BY <1>2, SetIs
    <2>2. Python!Held([kind |-> k, body |-> b]) = b
      BY <1>2 DEF Python!Held
    <2> QED BY <2>1, <2>2
  <1>3. CASE k = "dict"
    <2>1. Slots(k, b) = [s \in {"key", "value"} \X DOMAIN b |-> IF s[1] = "key" THEN s[2] ELSE b[s[2]]]
      BY <1>3, DictIs
    <2>2. Python!Held([kind |-> k, body |-> b]) = DOMAIN b \cup {b[j] : j \in DOMAIN b}
      BY <1>3 DEF Python!Held
    <2>3. {Slots(k, b)[s] : s \in DOMAIN Slots(k, b)} = DOMAIN b \cup {b[j] : j \in DOMAIN b}
      <3>1. ASSUME NEW s \in DOMAIN Slots(k, b)
            PROVE  Slots(k, b)[s] \in DOMAIN b \cup {b[j] : j \in DOMAIN b}
        BY <2>1
      <3>2. ASSUME NEW j \in DOMAIN b
            PROVE  /\ <<"key", j>> \in DOMAIN Slots(k, b) /\ Slots(k, b)[<<"key", j>>] = j
                   /\ <<"value", j>> \in DOMAIN Slots(k, b) /\ Slots(k, b)[<<"value", j>>] = b[j]
        BY <2>1
      <3>3. ASSUME NEW j \in DOMAIN b
            PROVE  /\ j \in {Slots(k, b)[s] : s \in DOMAIN Slots(k, b)}
                   /\ b[j] \in {Slots(k, b)[s] : s \in DOMAIN Slots(k, b)}
        BY <3>2
      <3> QED BY <3>1, <3>3
    <2> QED BY <2>2, <2>3
  <1> QED BY <1>1, <1>2, <1>3 DEF ContainerKinds

\* What can be reached in a part of the memory that has all that is inside it is
\* what can be reached at all.
LEMMA SameReach ==
  ASSUME NEW D \in SUBSET Objects, NEW from, from \subseteq D, NEW c, DOMAIN c = D,
         \A p \in D : Python!Held(c[p]) \cap Objects = Inside(p) /\ Inside(p) \subseteq D
  PROVE  Python!Reach(from, c) = Reachable(from)
  <1>1. ASSUME NEW o \in Python!Reach(from, c) PROVE o \in Reachable(from)
    <2>1. o \in Objects
      BY DEF Python!Reach
    <2>2. ASSUME NEW S \in SUBSET Objects, from \subseteq S, Closed(S) PROVE o \in S
      <3>1. \A p \in (S \cap D) \cap DOMAIN c : Python!Held(c[p]) \cap Objects \subseteq S \cap D
        BY <2>2 DEF Closed
      <3>2. S \cap D \in SUBSET Objects /\ from \subseteq S \cap D
        BY <2>2
      <3> QED BY <3>1, <3>2 DEF Python!Reach
    <2> QED BY <2>1, <2>2 DEF Reachable
  <1>2. ASSUME NEW o \in Reachable(from) PROVE o \in Python!Reach(from, c)
    <2>1. o \in Objects
      BY DEF Reachable
    <2>2. ASSUME NEW S \in SUBSET Objects, from \subseteq S,
                 \A p \in S \cap DOMAIN c : Python!Held(c[p]) \cap Objects \subseteq S
          PROVE  o \in S
      <3>1. Closed(S \cap D)
        BY <2>2 DEF Closed
      <3>2. S \cap D \in SUBSET Objects /\ from \subseteq S \cap D
        BY <2>2
      <3> QED BY <3>1, <3>2 DEF Reachable
    <2> QED BY <2>1, <2>2 DEF Python!Reach
  <1> QED BY <1>1, <1>2

\* The same, of all that is in use and maybe more.
SeesAll(D) ==
  /\ D \subseteq Objects /\ Containers \subseteq D
  /\ \A p \in D : Live(p) /\ Inside(p) \subseteq D

LEMMA SightIs ==
  ASSUME Shape, NEW D, SeesAll(D)
  PROVE  Sight = [o \in Python!Reach({env[x] : x \in Vars} \cap Objects, [p \in D |-> Seen(p)]) |->
                    [p \in D |-> Seen(p)][o]]
  <1> DEFINE c == [p \in D |-> Seen(p)]
             from == {env[x] : x \in Vars} \cap Objects
  <1>1. from = Containers /\ from \subseteq D /\ D \in SUBSET Objects /\ DOMAIN c = D
    BY DEF SeesAll, Containers
  <1>2. ASSUME NEW p \in D PROVE Python!Held(c[p]) \cap Objects = Inside(p) /\ Inside(p) \subseteq D
    <2>1. kind[p] \in ContainerKinds /\ Inside(p) \subseteq D
      BY DEF SeesAll, Shape, Live
    <2>2. c[p] = [kind |-> kind[p], body |-> body[p]]
      BY DEF Seen
    <2> QED BY <2>1, <2>2, HeldIsInside DEF Inside
  <1> HIDE DEF c, from
  <1>3. Python!Reach(from, c) = Reachable(from)
    BY <1>1, <1>2, SameReach
  <1>4. Python!Reach(from, c) = InUse
    BY <1>1, <1>3 DEF InUse
  <1>5. InUse \subseteq D
    <2>1. Closed(D)
      BY DEF SeesAll, Closed
    <2> QED BY <1>1, <2>1, ReachableLeast DEF InUse
  <1>6. \A o \in InUse : c[o] = Seen(o)
    BY <1>5 DEF c
  <1>7. Sight = [o \in Python!Reach(from, c) |-> c[o]]
    BY <1>4, <1>6 DEF Sight
  <1> QED BY <1>7 DEF c, from

\* What a variable or a container in use has is in use, and is there.
LEMMA InUseSees ==
  ASSUME IInv
  PROVE  SeesAll(InUse)
  <1>1. ASSUME NEW p \in InUse PROVE Live(p)
    <2>1. Closed({o \in Objects : Live(o)})
      <3>1. ASSUME NEW o \in Objects, NEW i \in Inside(o) PROVE i \in Objects /\ Live(i)
        <4>1. i \in Objects /\ In(i, o) # {}
          BY DEF Inside, In
        <4> QED BY <4>1, HeldLive
      <3> QED BY <3>1 DEF Closed
    <2>2. Containers \subseteq {o \in Objects : Live(o)}
      BY ContainerReady
    <2> QED BY <2>1, <2>2, ReachableLeast DEF InUse
  <1> QED BY <1>1, InUseIs DEF SeesAll

\* The same after a step: what a script sees is a part of the memory, settled.
SightSettles ==
  \A D : Shape /\ SeesAll(D) =>
    Sight = [o \in Python!Reach({env[x] : x \in Vars} \cap Objects, [p \in D |-> Seen(p)]) |->
              [p \in D |-> Seen(p)][o]]

LEMMA SightAlways == SightSettles
  BY SightIs DEF SightSettles

LEMMA Settles ==
  ASSUME IInv', NEW D, SeesAll(D)', NEW c, c = [p \in D |-> Seen(p)'], NEW e, env' = e
  PROVE  Python!Settle(e, c)
  <1>1. SightSettles'
    BY SightAlways, PTL
  <1>2. Shape'
    BY TypeShape, PTL DEF IInv
  <1>3. Sight' = [o \in Python!Reach({env'[x] : x \in Vars} \cap Objects, c) |-> c[o]]
    BY <1>1, <1>2 DEF SightSettles
  <1> QED BY <1>3 DEF Python!Settle

\* A value that leads a script to nothing new.
Usable(v) == v \in Objects => v \in InUse

LEMMA OperandUsable ==
  ASSUME NEW v \in Operands \cup {None}
  PROVE  Usable(v)
  <1> SUFFICES ASSUME v \in Objects PROVE v \in Containers
    BY InUseIs DEF Usable
  <1>1. v \notin Numbers /\ v # None
    BY ValueAssumption
  <1> QED BY <1>1 DEF Operands, Containers

LEMMA SlotUsable ==
  ASSUME NEW c \in InUse, NEW s \in DOMAIN Slots(kind[c], body[c])
  PROVE  Usable(Slots(kind[c], body[c])[s])
  BY InUseIs DEF Usable, Inside

\* A step that assigns to a variable.
LEMMA BindStep ==
  ASSUME IInv, IInv', NEW x \in Vars, NEW v, Usable(v),
         env' = [env EXCEPT ![x] = v], UNCHANGED <<kind, body>>
  PROVE  Python!Bind(x, v)
  <1>1. PICK D : D = InUse
    OBVIOUS
  <1>2. SeesAll(D)
    BY <1>1, InUseSees
  <1>3. \A p : Inside(p)' = Inside(p) /\ Live(p)' = Live(p) /\ Seen(p)' = Seen(p)
    BY DEF Inside, Live, Seen
  <1>4. Containers' \subseteq D
    <2>1. \A y \in Vars : env'[y] = v \/ env'[y] = env[y]
      BY TypeShape DEF IInv, Shape
    <2>2. Containers' \subseteq Containers \cup ({v} \cap Objects)
      BY <2>1 DEF Containers
    <2> QED BY <1>1, <1>2, <2>2 DEF Usable, SeesAll
  <1>5. SeesAll(D)'
    BY <1>2, <1>3, <1>4 DEF SeesAll
  <1>6. Sight = [p \in D |-> Seen(p)']
    BY <1>1, <1>3 DEF Sight
  <1>7. PICK c : c = Sight
    OBVIOUS
  <1>8. Python!Settle([env EXCEPT ![x] = v], c)
    BY <1>5, <1>6, <1>7, Settles
  <1> QED BY <1>7, <1>8 DEF Python!Bind

\* A step that writes the container at c.
LEMMA ChangeStep ==
  ASSUME IInv, IInv', NEW c \in InUse, NEW b, Become(c, b), UNCHANGED <<env, kind>>,
         \A s \in DOMAIN Slots(kind[c], b) : Usable(Slots(kind[c], b)[s])
  PROVE  /\ Seen(c) \in Python!At(c)
         /\ Python!Change(c, [kind |-> kind[c], body |-> b])
  <1>1. PICK D : D = InUse
    OBVIOUS
  <1>2. SeesAll(D)
    BY <1>1, InUseSees
  <1>3. /\ c \in Objects
        /\ body' = [o \in Objects |-> IF o = c THEN b ELSE body[o]]
    BY <1>1, <1>2, TypeShape DEF SeesAll, Become, IInv, Shape
  <1>4. \A p \in Objects \ {c} : Inside(p)' = Inside(p) /\ Seen(p)' = Seen(p)
    BY <1>3 DEF Inside, Seen
  <1>5. Inside(c)' \subseteq D /\ Seen(c)' = [kind |-> kind[c], body |-> b]
    <2>1. body'[c] = b /\ kind'[c] = kind[c]
      BY <1>3
    <2>2. Inside(c)' = {Slots(kind[c], b)[s] : s \in DOMAIN Slots(kind[c], b)} \cap Objects
      BY <2>1 DEF Inside
    <2> QED BY <1>1, <2>1, <2>2 DEF Usable, Seen
  <1>6. SeesAll(D)'
    <2>1. Containers' = Containers /\ \A p : Live(p)' = Live(p)
      BY DEF Containers, Live
    <2> QED BY <1>2, <1>4, <1>5, <2>1 DEF SeesAll
  <1>7. Python!With(Sight, c, [kind |-> kind[c], body |-> b]) = [p \in D |-> Seen(p)']
    <2>1. DOMAIN Sight \cup {c} = D
      BY <1>1 DEF Sight
    <2>2. \A p \in D : (IF p = c THEN [kind |-> kind[c], body |-> b] ELSE Sight[p]) = Seen(p)'
      BY <1>1, <1>2, <1>4, <1>5 DEF Sight, SeesAll
    <2> QED BY <2>1, <2>2 DEF Python!With
  <1>8. PICK w : w = Python!With(Sight, c, [kind |-> kind[c], body |-> b])
    OBVIOUS
  <1>9. Python!Settle(env, w)
    BY <1>6, <1>7, <1>8, Settles
  <1>10. Python!Change(c, [kind |-> kind[c], body |-> b])
    BY <1>8, <1>9 DEF Python!Change
  <1>11. Seen(c) \in Python!At(c)
    BY DEF Python!At, Sight
  <1> QED BY <1>10, <1>11

\* A step that makes a container.
LEMMA NewStep ==
  ASSUME IInv, IInv', NEW x \in Vars, NEW k \in ContainerKinds, NEW b,
         \A s \in DOMAIN Slots(k, b) : Usable(Slots(k, b)[s]),
         NEW q \in Objects, kind[q] = "free",
         kind' = [kind EXCEPT ![q] = k], body' = [body EXCEPT ![q] = b],
         env' = [env EXCEPT ![x] = q]
  PROVE  Python!New(x, [kind |-> k, body |-> b])
  <1>1. PICK D : D = InUse \cup {q}
    OBVIOUS
  <1>2. SeesAll(InUse) /\ q \notin InUse
    BY InUseSees DEF SeesAll, Live
  <1>3. /\ kind' = [o \in Objects |-> IF o = q THEN k ELSE kind[o]]
        /\ body' = [o \in Objects |-> IF o = q THEN b ELSE body[o]]
    BY TypeShape DEF IInv, Shape
  <1>4. \A p \in Objects \ {q} : Inside(p)' = Inside(p) /\ Seen(p)' = Seen(p) /\ Live(p)' = Live(p)
    BY <1>3 DEF Inside, Seen, Live
  <1>5. Inside(q)' \subseteq D /\ Seen(q)' = [kind |-> k, body |-> b] /\ Live(q)'
    <2>1. body'[q] = b /\ kind'[q] = k /\ k # "free"
      BY <1>3 DEF ContainerKinds
    <2>2. Inside(q)' = {Slots(k, b)[s] : s \in DOMAIN Slots(k, b)} \cap Objects
      BY <2>1 DEF Inside
    <2> QED BY <1>1, <2>1, <2>2 DEF Usable, Seen, Live
  <1>6. SeesAll(D)'
    <2>1. Containers' \subseteq Containers \cup {q}
      <3>1. \A y \in Vars : env'[y] = q \/ env'[y] = env[y]
        BY TypeShape DEF IInv, Shape
      <3> QED BY <3>1 DEF Containers
    <2> QED BY <1>1, <1>2, <1>4, <1>5, <2>1 DEF SeesAll
  <1>7. Python!With(Sight, q, [kind |-> k, body |-> b]) = [p \in D |-> Seen(p)']
    <2>1. DOMAIN Sight \cup {q} = D
      BY <1>1 DEF Sight
    <2>2. \A p \in D : (IF p = q THEN [kind |-> k, body |-> b] ELSE Sight[p]) = Seen(p)'
      BY <1>1, <1>2, <1>4, <1>5 DEF Sight, SeesAll
    <2> QED BY <2>1, <2>2 DEF Python!With
  <1>8. PICK w : w = Python!With(Sight, q, [kind |-> k, body |-> b])
    OBVIOUS
  <1>9. Python!Settle([env EXCEPT ![x] = q], w)
    BY <1>6, <1>7, <1>8, Settles
  <1>10. q \in Objects \ DOMAIN Sight
    BY <1>2 DEF Sight
  <1> QED BY <1>8, <1>9, <1>10 DEF Python!New

-----------------------------------------------------------------------------
(* The statements. *)

LEMMA FetchGives ==
  ASSUME NEW st, NEW x, NEW v, NEW ts, Fetch(st, x, v, ts)
  PROVE  line' = st /\ env' = [env EXCEPT ![x] = v] /\ UNCHANGED <<kind, body>>
  BY DEF Fetch, Result, Begin

LEMMA EffectGives ==
  ASSUME NEW st, NEW ts, NEW copies, NEW old, NEW new, Effect(st, ts, copies, old, new)
  PROVE  line' = st /\ UNCHANGED <<env, kind>>
  BY DEF Effect, Begin

LEMMA CreateSees ==
  ASSUME IInv, IInv', NEW st, NEW x \in Vars, NEW k \in ContainerKinds, NEW b, NEW others,
         \A s \in DOMAIN Slots(k, b) : Usable(Slots(k, b)[s]),
         Create(st, x, k, b, others)
  PROVE  line' = st /\ Python!New(x, [kind |-> k, body |-> b])
  <1>1. PICK q \in Objects :
          /\ kind[q] = "free"
          /\ kind' = [kind EXCEPT ![q] = k]
          /\ body' = [body EXCEPT ![q] = b]
          /\ env' = [env EXCEPT ![x] = q]
          /\ line' = st
    BY DEF Create, Result, Begin
  <1> QED BY <1>1, NewStep

\* What is in a container in use, by its class.
LEMMA ContentsUsable ==
  ASSUME NEW c \in InUse
  PROVE  /\ kind[c] \in {"list", "tuple"} => \A i \in DOMAIN body[c] : Usable(body[c][i])
         /\ kind[c] = "set" => \A v \in body[c] : Usable(v)
         /\ kind[c] = "dict" => \A k \in DOMAIN body[c] : Usable(k) /\ Usable(body[c][k])
  <1>1. ASSUME kind[c] \in {"list", "tuple"}, NEW i \in DOMAIN body[c] PROVE Usable(body[c][i])
    <2>1. Slots(kind[c], body[c]) = body[c]
      BY <1>1, ListIs
    <2> QED BY <2>1, SlotUsable
  <1>2. ASSUME kind[c] = "set", NEW v \in body[c] PROVE Usable(v)
    <2>1. Slots(kind[c], body[c]) = [w \in body[c] |-> w]
      BY <1>2, SetIs
    <2>2. v \in DOMAIN Slots(kind[c], body[c]) /\ Slots(kind[c], body[c])[v] = v
      BY <2>1
    <2> QED BY <2>2, SlotUsable
  <1>3. ASSUME kind[c] = "dict", NEW k \in DOMAIN body[c] PROVE Usable(k) /\ Usable(body[c][k])
    <2>1. Slots("dict", body[c]) = [s \in {"key", "value"} \X DOMAIN body[c] |->
                                     IF s[1] = "key" THEN s[2] ELSE body[c][s[2]]]
      BY DictIs
    <2>2. /\ <<"value", k>> \in DOMAIN Slots(kind[c], body[c])
          /\ Slots(kind[c], body[c])[<<"value", k>>] = body[c][k]
          /\ <<"key", k>> \in DOMAIN Slots(kind[c], body[c])
          /\ Slots(kind[c], body[c])[<<"key", k>>] = k
      BY <1>3, <2>1
    <2> QED BY <2>2, SlotUsable
  <1> QED BY <1>1, <1>2, <1>3

\* A dictionary with keys and values that are known.
LEMMA DictUsable ==
  ASSUME NEW b, \A k \in DOMAIN b : Usable(k) /\ Usable(b[k])
  PROVE  \A s \in DOMAIN Slots("dict", b) : Usable(Slots("dict", b)[s])
  <1>1. Slots("dict", b) = [s \in {"key", "value"} \X DOMAIN b |-> IF s[1] = "key" THEN s[2] ELSE b[s[2]]]
    BY DictIs
  <1>2. ASSUME NEW s \in DOMAIN Slots("dict", b)
        PROVE  \E k \in DOMAIN b : Slots("dict", b)[s] = k \/ Slots("dict", b)[s] = b[k]
    BY <1>1
  <1> QED BY <1>2

LEMMA ListsUsable ==
  ASSUME NEW vs \in Lists
  PROVE  \A i \in DOMAIN vs : Usable(vs[i])
  <1>1. \A i \in DOMAIN vs : vs[i] \in Operands
    BY DEF Lists
  <1> QED BY <1>1, OperandUsable

LEMMA ContainerInUse ==
  ASSUME IInv, NEW c \in Containers
  PROVE  c \in Objects /\ c \in InUse /\ BodyOK(kind[c], body[c]) /\ Seen(c) \in Python!At(c)
  <1>1. c \in Objects /\ c \in InUse
    BY InUseIs DEF Containers
  <1>2. BodyOK(kind[c], body[c])
    BY <1>1, TypeShape DEF IInv, Shape
  <1>3. Seen(c) \in Python!At(c)
    BY <1>1 DEF Python!At, Sight
  <1> QED BY <1>1, <1>2, <1>3

LEMMA LiteralSteps ==
  ASSUME IInv, IInv', NEW x \in Vars, NEW vs \in Lists,
         ListLiteral(x, vs) \/ SetLiteral(x, vs) \/ MakeTuple(x, vs)
  PROVE  Python!Step
  <1>1. \A i \in DOMAIN vs : Usable(vs[i])
    BY ListsUsable
  <1>2. CASE ListLiteral(x, vs)
    <2>1. Create(<<"list", x, vs>>, x, "list", vs, Bag(vs)) /\ Slots("list", vs) = vs
      BY <1>2, ListIs DEF ListLiteral
    <2>2. line' = <<"list", x, vs>> /\ Python!New(x, [kind |-> "list", body |-> vs])
      BY <1>1, <2>1, CreateSees DEF ContainerKinds
    <2> QED BY <2>2 DEF Python!Step, Python!List
  <1>3. CASE SetLiteral(x, vs)
    <2> DEFINE b == {vs[i] : i \in DOMAIN vs}
    <2>1. Create(<<"set", x, vs>>, x, "set", b, Bag(vs)) /\ Slots("set", b) = [v \in b |-> v]
      BY <1>3, SetIs DEF SetLiteral
    <2>2. \A s \in DOMAIN Slots("set", b) : Usable(Slots("set", b)[s])
      BY <1>1, <2>1
    <2>3. b = Python!ToSet(vs)
      BY DEF Python!ToSet
    <2> HIDE DEF b
    <2>4. line' = <<"set", x, vs>> /\ Python!New(x, [kind |-> "set", body |-> b])
      BY <2>1, <2>2, CreateSees DEF ContainerKinds
    <2> QED BY <2>3, <2>4 DEF Python!Step, Python!Set
  <1>4. CASE MakeTuple(x, vs)
    <2>1. /\ Create(<<"tuple", x, vs>>, x, "tuple", vs, Plus(Bag(vs), Bag(vs)))
          /\ Slots("tuple", vs) = vs
      BY <1>4, ListIs DEF MakeTuple
    <2>2. line' = <<"tuple", x, vs>> /\ Python!New(x, [kind |-> "tuple", body |-> vs])
      BY <1>1, <2>1, CreateSees DEF ContainerKinds
    <2> QED BY <2>2 DEF Python!Step, Python!Tuple
  <1> QED BY <1>2, <1>3, <1>4

LEMMA DictLiteralStep ==
  ASSUME IInv, IInv', NEW x \in Vars, NEW k \in Operands, NEW vs \in Lists \ {<<>>}, DictLiteral(x, k, vs)
  PROVE  Python!Step
  <1> DEFINE n == Len(vs)
             b == [j \in {k} |-> vs[n]]
             pairs == [i \in 1..n |-> <<k, vs[i]>>]
             others == Plus(Plus(Bag([i \in 1..n |-> k]), Bag(vs)), Bag([i \in 1..(n - 1) |-> vs[i]]))
  <1>1. Create(<<"dict", x, pairs>>, x, "dict", b, others)
    BY DEF DictLiteral
  <1>2. n \in 1..2 /\ DOMAIN vs = 1..n
    <2>1. PICK m \in 0..2 : DOMAIN vs = 1..m /\ Len(vs) = m
      BY ListsAre
    <2>2. m # 0
      <3>1. vs \in Seq(Values) /\ vs # <<>>
        BY ListsAre
      <3> QED BY <2>1, <3>1
    <2> QED BY <2>1, <2>2
  <1>3. Usable(k) /\ Usable(vs[n])
    <2>1. n \in DOMAIN vs
      BY <1>2
    <2> QED BY <2>1, ListsUsable, OperandUsable
  <1> HIDE DEF n, others
  <1>4. \A s \in DOMAIN Slots("dict", b) : Usable(Slots("dict", b)[s])
    BY <1>3, DictUsable
  <1>5. line' = <<"dict", x, pairs>> /\ Python!New(x, [kind |-> "dict", body |-> b])
    <2> HIDE DEF b, pairs
    <2> QED BY <1>1, <1>4, CreateSees DEF ContainerKinds
  <1>6. Python!Display(pairs) = [kind |-> "dict", body |-> b]
    <2>1. DOMAIN pairs = 1..n /\ Len(pairs) = n /\ \A i \in 1..n : pairs[i] = <<k, vs[i]>>
      BY <1>2
    <2>2. {p[1] : p \in Python!ToSet(pairs)} = {k}
      <3>1. Python!ToSet(pairs) = {pairs[i] : i \in DOMAIN pairs}
        BY DEF Python!ToSet
      <3>2. 1 \in DOMAIN pairs
        BY <1>2, <2>1
      <3>3. \A p \in Python!ToSet(pairs) : p[1] = k
        BY <2>1, <3>1
      <3>4. pairs[1] \in Python!ToSet(pairs)
        BY <3>1, <3>2
      <3> QED BY <3>3, <3>4
    <2> DEFINE Last(i) == pairs[i][1] = k /\ \A j \in (i + 1)..Len(pairs) : pairs[j][1] # k
    <2>3. \A i \in DOMAIN pairs : Last(i) <=> i = n
      <3>1. ASSUME NEW i \in DOMAIN pairs, Last(i) PROVE i = n
        <4>1. i \in 1..n /\ n \in 1..2
          BY <1>2, <2>1
        <4>2. i # n => n \in (i + 1)..n /\ n \in 1..n
          BY <4>1
        <4>3. pairs[n][1] = k
          BY <1>2, <2>1
        <4> QED BY <2>1, <3>1, <4>2, <4>3
      <3>2. Last(n)
        <4>1. (n + 1)..n = {} /\ n \in 1..n
          BY <1>2
        <4> QED BY <2>1, <4>1
      <3> QED BY <3>1, <3>2
    <2>4. n \in DOMAIN pairs
      BY <1>2, <2>1
    <2> HIDE DEF Last
    <2>5. (CHOOSE i \in DOMAIN pairs : Last(i)) = n
      BY <2>3, <2>4
    <2>6. pairs[n][2] = vs[n]
      BY <2>1, <2>4
    <2>7. Python!Display(pairs) =
            [kind |-> "dict",
             body |-> [kk \in {p[1] : p \in Python!ToSet(pairs)} |->
                        pairs[CHOOSE i \in DOMAIN pairs :
                                pairs[i][1] = kk /\ \A j \in (i + 1)..Len(pairs) : pairs[j][1] # kk][2]]]
      BY DEF Python!Display, Python!Dict
    <2> DEFINE Of(kk) == CHOOSE i \in DOMAIN pairs :
                           pairs[i][1] = kk /\ \A j \in (i + 1)..Len(pairs) : pairs[j][1] # kk
    <2>8. Of(k) = n
      BY <2>5 DEF Last
    <2>9. Python!Display(pairs) = [kind |-> "dict", body |-> [kk \in {k} |-> pairs[Of(kk)][2]]]
      BY <2>2, <2>7
    <2> HIDE DEF Of, pairs, Last
    <2>10. [kk \in {k} |-> pairs[Of(kk)][2]] = b
      BY <2>6, <2>8 DEF b
    <2> QED BY <2>9, <2>10
  <1> QED BY <1>5, <1>6 DEF Python!Step

LEMMA GetSteps ==
  ASSUME IInv, IInv', NEW x \in Vars, NEW c \in Containers, NEW k \in Operands,
         \/ GetItem(x, c, k)
         \/ k \in Numbers /\ GetTupleField(x, c, k)
  PROVE  Python!Step
  <1> DEFINE con == Seen(c)
  <1>1. c \in InUse /\ BodyOK(kind[c], body[c]) /\ con \in Python!At(c)
    BY ContainerInUse
  <1>2. con.kind = kind[c] /\ con.body = body[c]
    BY DEF Seen
  <1> HIDE DEF con
  <1>3. ASSUME NEW i \in DOMAIN body[c], kind[c] \in {"list", "tuple", "dict"}, Python!Place(con, k) = i,
               NEW ts, Fetch(<<"item", x, c, k>>, x, body[c][i], ts)
        PROVE  Python!Step
    <2>1. Usable(body[c][i])
      BY <1>1, <1>3, ContentsUsable
    <2>2. line' = <<"item", x, c, k>> /\ Python!Bind(x, body[c][i])
      BY <1>3, <2>1, FetchGives, BindStep
    <2>3. Python!Get(x, c, k)
      BY <1>1, <1>2, <1>3, <2>2 DEF Python!Get
    <2> QED BY <2>2, <2>3 DEF Python!Step
  <1>4. CASE kind[c] = "list" /\ k \in Numbers /\
               \E i \in At(body[c], k) : Fetch(<<"item", x, c, k>>, x, body[c][i], <<c, k>>)
    <2>1. PICK i \in DOMAIN body[c] :
            /\ i = IF k < 0 THEN k + Len(body[c]) + 1 ELSE k + 1
            /\ Fetch(<<"item", x, c, k>>, x, body[c][i], <<c, k>>)
      BY <1>4 DEF At
    <2>2. Python!Place(con, k) = i
      BY <1>2, <1>4, <2>1 DEF Python!Place
    <2> QED BY <1>3, <1>4, <2>1, <2>2
  <1>5. CASE kind[c] = "dict" /\ k \in DOMAIN body[c] /\
               Fetch(<<"item", x, c, k>>, x, body[c][k], <<c, k>>)
    <2>1. Python!Place(con, k) = k
      BY <1>2, <1>5 DEF Python!Place
    <2> QED BY <1>3, <1>5, <2>1
  <1>6. CASE kind[c] = "tuple" /\ k + 1 \in DOMAIN body[c] /\
               Fetch(<<"item", x, c, k>>, x, body[c][k + 1], <<c>>)
    <2>1. Python!Place(con, k) = k + 1
      BY <1>2, <1>6 DEF Python!Place
    <2> QED BY <1>3, <1>6, <2>1
  <1> QED BY <1>4, <1>5, <1>6 DEF GetItem, GetTupleField

LEMMA DictGetStep ==
  ASSUME IInv, IInv', NEW x \in Vars, NEW c \in Containers, NEW k \in Operands,
         NEW d \in Operands \cup {None}, DictGet(x, c, k, d)
  PROVE  Python!Step
  <1> DEFINE con == Seen(c)
             v == IF k \in DOMAIN body[c] THEN body[c][k] ELSE d
  <1>1. c \in InUse /\ con \in Python!At(c)
    BY ContainerInUse
  <1>2. con.kind = kind[c] /\ con.body = body[c]
    BY DEF Seen
  <1>3. kind[c] = "dict" /\ Fetch(<<"get", x, c, k, d>>, x, v, <<c, k, d>>)
    BY DEF DictGet
  <1>4. Usable(v)
    BY <1>1, <1>3, ContentsUsable, OperandUsable
  <1> HIDE DEF con, v
  <1>5. line' = <<"get", x, c, k, d>> /\ Python!Bind(x, v)
    BY <1>3, <1>4, FetchGives, BindStep
  <1>6. Python!GetOr(x, c, k, d)
    BY <1>1, <1>2, <1>3, <1>5 DEF Python!GetOr, v
  <1> QED BY <1>5, <1>6 DEF Python!Step

\* Writing at a place of the list or dictionary c.
LEMMA PutStep ==
  ASSUME IInv, IInv', NEW c \in Containers, NEW k, NEW v, NEW i, NEW b,
         line' = <<"put", c, k, v>>, Become(c, b), UNCHANGED <<env, kind>>,
         kind[c] \in {"list", "dict"}, kind[c] = "dict" \/ i \in DOMAIN body[c],
         Python!Place(Seen(c), k) = i, b = Python!With(body[c], i, v),
         \A s \in DOMAIN Slots(kind[c], b) : Usable(Slots(kind[c], b)[s])
  PROVE  Python!Step
  <1> DEFINE con == Seen(c)
  <1>1. c \in InUse /\ con \in Python!At(c)
    BY ContainerInUse
  <1>2. con.kind = kind[c] /\ con.body = body[c]
    BY DEF Seen
  <1>3. Python!Change(c, [kind |-> kind[c], body |-> b])
    BY <1>1, ChangeStep
  <1> HIDE DEF con
  <1>4. Python!Change(c, [kind |-> con.kind, body |-> Python!With(con.body, Python!Place(con, k), v)])
    BY <1>2, <1>3 DEF con
  <1>5. con.kind = "dict" \/ Python!Place(con, k) \in DOMAIN con.body
    BY <1>2 DEF con
  <1>6. Python!Put(c, k, v)
    BY <1>1, <1>4, <1>5 DEF Python!Put
  <1> QED BY <1>6 DEF Python!Step

LEMMA AssignStep ==
  ASSUME IInv, IInv', NEW c \in Containers, NEW k, NEW v \in Operands,
         kind[c] \in {"list", "dict"}, NEW i \in DOMAIN body[c],
         Python!Place(Seen(c), k) = i, Assign(<<"put", c, k, v>>, c, k, i, v)
  PROVE  Python!Step
  <1> DEFINE b == [body[c] EXCEPT ![i] = v]
             e == IF kind[c] = "list" THEN i ELSE <<"value", i>>
  <1>1. Become(c, b) /\ Effect(<<"put", c, k, v>>, <<c, k, v>>, Zero, Bag(<<body[c][i]>>), Bag(<<v>>))
    BY DEF Assign
  <1>2. line' = <<"put", c, k, v>> /\ UNCHANGED <<env, kind>>
    BY <1>1, EffectGives
  <1>3. c \in InUse /\ BodyOK(kind[c], body[c]) /\ Usable(v) /\ v \in Values
    BY ContainerInUse, OperandUsable, OperandReady DEF Ready
  <1>4. body[c] = [j \in DOMAIN body[c] |-> body[c][j]]
    <2>1. CASE kind[c] = "list"
      <3>1. body[c] \in Seq(Values)
        BY <1>3, <2>1, ListIs
      <3> QED BY <3>1
    <2>2. CASE kind[c] = "dict"
      <3>1. body[c] \in [DOMAIN body[c] -> Values]
        BY <1>3, <2>2, DictIs
      <3> QED BY <3>1
    <2> QED BY <2>1, <2>2
  <1>5. b = Python!With(body[c], i, v)
    BY <1>4 DEF Python!With
  <1>6. /\ DOMAIN Slots(kind[c], b) = DOMAIN Slots(kind[c], body[c])
        /\ Slots(kind[c], b)[e] = v
        /\ \A s \in DOMAIN Slots(kind[c], body[c]) \ {e} : Slots(kind[c], b)[s] = Slots(kind[c], body[c])[s]
    BY <1>3, ReplacedIs
  <1> HIDE DEF b, e
  <1>7. \A s \in DOMAIN Slots(kind[c], b) : Usable(Slots(kind[c], b)[s])
    <2> SUFFICES ASSUME NEW s \in DOMAIN Slots(kind[c], b) PROVE Usable(Slots(kind[c], b)[s])
      OBVIOUS
    <2>1. CASE s = e
      BY <1>3, <1>6, <2>1
    <2>2. CASE s # e
      <3>1. s \in DOMAIN Slots(kind[c], body[c]) /\ Slots(kind[c], b)[s] = Slots(kind[c], body[c])[s]
        BY <1>6, <2>2
      <3>2. Usable(Slots(kind[c], body[c])[s])
        BY <1>3, <3>1, SlotUsable
      <3> QED BY <3>1, <3>2
    <2> QED BY <2>1, <2>2
  <1> QED BY <1>1, <1>2, <1>5, <1>7, PutStep

LEMMA SetItemStep ==
  ASSUME IInv, IInv', NEW c \in Containers, NEW k \in Operands, NEW v \in Operands, SetItem(c, k, v)
  PROVE  Python!Step
  <1>1. CASE kind[c] = "list" /\ k \in Numbers /\
               \E i \in At(body[c], k) : Assign(<<"put", c, k, v>>, c, k, i, v)
    <2>1. PICK i \in DOMAIN body[c] :
            /\ i = IF k < 0 THEN k + Len(body[c]) + 1 ELSE k + 1
            /\ Assign(<<"put", c, k, v>>, c, k, i, v)
      BY <1>1 DEF At
    <2>2. Python!Place(Seen(c), k) = i
      BY <1>1, <2>1 DEF Python!Place, Seen
    <2> QED BY <1>1, <2>1, <2>2, AssignStep
  <1>2. CASE kind[c] = "dict" /\ DictInsert(<<"put", c, k, v>>, c, k, v)
    <2>1. Python!Place(Seen(c), k) = k
      BY <1>2 DEF Python!Place, Seen
    <2>2. CASE k \in DOMAIN body[c]
      BY <1>2, <2>1, <2>2, AssignStep DEF DictInsert
    <2>3. CASE k \notin DOMAIN body[c]
      <3> DEFINE b == Extended(body[c], k, v)
      <3>1. Become(c, b) /\ Effect(<<"put", c, k, v>>, <<c, k, v>>, Bag(<<k, v>>), Zero, Zero)
        BY <1>2, <2>3 DEF DictInsert
      <3>2. line' = <<"put", c, k, v>> /\ UNCHANGED <<env, kind>>
        BY <3>1, EffectGives
      <3>3. b = Python!With(body[c], k, v)
        BY DEF Extended, Python!With
      <3>4. c \in InUse /\ Usable(k) /\ Usable(v)
        BY ContainerInUse, OperandUsable
      <3>5. \A j \in DOMAIN b : Usable(j) /\ Usable(b[j])
        <4>1. DOMAIN b = DOMAIN body[c] \cup {k} /\ \A j \in DOMAIN b : b[j] = IF j = k THEN v ELSE body[c][j]
          BY DEF Extended
        <4>2. \A j \in DOMAIN body[c] : Usable(j) /\ Usable(body[c][j])
          BY <1>2, <3>4, ContentsUsable
        <4> HIDE DEF b
        <4> QED BY <3>4, <4>1, <4>2
      <3> HIDE DEF b
      <3>6. \A s \in DOMAIN Slots(kind[c], b) : Usable(Slots(kind[c], b)[s])
        BY <1>2, <3>5, DictUsable
      <3> QED BY <1>2, <2>1, <3>1, <3>2, <3>3, <3>6, PutStep
    <2> QED BY <2>2, <2>3
  <1> QED BY <1>1, <1>2 DEF SetItem

LEMMA NodeSteps ==
  ASSUME IInv, IInv', NEW c \in Containers, NEW v \in Operands,
         ListAppend(c, v) \/ SetAdd(c, v) \/ SetDiscard(c, v)
  PROVE  Python!Step
  <1> DEFINE con == Seen(c)
  <1>1. c \in InUse /\ con \in Python!At(c) /\ Usable(v) /\ BodyOK(kind[c], body[c])
    BY ContainerInUse, OperandUsable
  <1>2. con.kind = kind[c] /\ con.body = body[c]
    BY DEF Seen
  <1> HIDE DEF con
  <1>3. CASE ListAppend(c, v)
    <2> DEFINE b == Append(body[c], v)
    <2>1. /\ kind[c] = "list" /\ Become(c, b)
          /\ Effect(<<"append", c, v>>, <<c, v>>, Bag(<<v>>), Zero, Zero)
      BY <1>3 DEF ListAppend, PushBack
    <2>2. line' = <<"append", c, v>> /\ UNCHANGED <<env, kind>>
      BY <2>1, EffectGives
    <2>3. \A s \in DOMAIN Slots(kind[c], b) : Usable(Slots(kind[c], b)[s])
      <3>1. body[c] \in Seq(Values) /\ Slots(kind[c], b) = b
        BY <1>1, <2>1, ListIs
      <3>2. \A s \in DOMAIN b : b[s] = v \/ (s \in DOMAIN body[c] /\ b[s] = body[c][s])
        BY <3>1
      <3> QED BY <1>1, <2>1, <3>1, <3>2, ContentsUsable
    <2> HIDE DEF b
    <2>4. Python!Change(c, [kind |-> "list", body |-> b])
      BY <1>1, <2>1, <2>2, <2>3, ChangeStep
    <2>5. Python!AppendTo(c, v)
      BY <1>1, <1>2, <2>1, <2>4 DEF Python!AppendTo, Python!List, b
    <2> QED BY <2>2, <2>5 DEF Python!Step
  <1>4. CASE SetAdd(c, v)
    <2> DEFINE b == body[c] \cup {v}
    <2>1. /\ kind[c] = "set" /\ Become(c, b)
          /\ Effect(<<"add", c, v>>, <<c, v>>, IF v \in body[c] THEN Zero ELSE Bag(<<v>>), Zero, Zero)
      BY <1>4 DEF SetAdd, SetInsert
    <2>2. line' = <<"add", c, v>> /\ UNCHANGED <<env, kind>>
      BY <2>1, EffectGives
    <2>3. \A s \in DOMAIN Slots(kind[c], b) : Usable(Slots(kind[c], b)[s])
      <3>1. Slots("set", b) = [w \in b |-> w]
        BY SetIs
      <3>2. \A w \in b : Usable(w)
        BY <1>1, <2>1, ContentsUsable
      <3> HIDE DEF b
      <3> QED BY <2>1, <3>1, <3>2
    <2> HIDE DEF b
    <2>4. Python!Change(c, [kind |-> "set", body |-> b])
      BY <1>1, <2>1, <2>2, <2>3, ChangeStep
    <2>5. Python!AddTo(c, v)
      BY <1>1, <1>2, <2>1, <2>4 DEF Python!AddTo, Python!Set, b
    <2> QED BY <2>2, <2>5 DEF Python!Step
  <1>5. CASE SetDiscard(c, v)
    <2> DEFINE b == body[c] \ {v}
    <2>1. /\ kind[c] = "set" /\ Become(c, b)
          /\ Effect(<<"discard", c, v>>, <<c, v>>, Zero, IF v \in body[c] THEN Bag(<<v>>) ELSE Zero, Zero)
      BY <1>5 DEF SetDiscard, SetErase
    <2>2. line' = <<"discard", c, v>> /\ UNCHANGED <<env, kind>>
      BY <2>1, EffectGives
    <2>3. \A s \in DOMAIN Slots(kind[c], b) : Usable(Slots(kind[c], b)[s])
      <3>1. Slots("set", b) = [w \in b |-> w]
        BY SetIs
      <3>2. \A w \in b : Usable(w)
        BY <1>1, <2>1, ContentsUsable
      <3> HIDE DEF b
      <3> QED BY <2>1, <3>1, <3>2
    <2> HIDE DEF b
    <2>4. Python!Change(c, [kind |-> "set", body |-> b])
      BY <1>1, <2>1, <2>2, <2>3, ChangeStep
    <2>5. Python!DiscardFrom(c, v)
      BY <1>1, <1>2, <2>1, <2>4 DEF Python!DiscardFrom, Python!Set, b
    <2> QED BY <2>2, <2>5 DEF Python!Step
  <1> QED BY <1>3, <1>4, <1>5

LEMMA ClearStep ==
  ASSUME IInv, IInv', NEW c \in Containers, ListClear(c) \/ SetClear(c) \/ DictClear(c)
  PROVE  Python!Step
  <1> DEFINE con == Seen(c)
             b == IF kind[c] = "set" THEN {} ELSE <<>>
  <1>1. c \in InUse /\ con \in Python!At(c)
    BY ContainerInUse
  <1>2. con.kind = kind[c] /\ con.body = body[c]
    BY DEF Seen
  <1>3. kind[c] \in {"list", "set", "dict"} /\ ClearNode(<<"clear", c>>, c, b)
    BY DEF ListClear, SetClear, DictClear
  <1>4. Become(c, b) /\ Effect(<<"clear", c>>, <<c>>, Zero, Held(c), Zero)
    BY <1>3 DEF ClearNode
  <1>5. line' = <<"clear", c>> /\ UNCHANGED <<env, kind>>
    BY <1>4 DEF Effect, Begin
  <1>6. DOMAIN Slots(kind[c], b) = {}
    <2>1. DOMAIN <<>> = {}
      OBVIOUS
    <2>2. CASE kind[c] = "list"
      BY <2>1, <2>2, ListIs
    <2>3. CASE kind[c] = "set"
      <3>1. Slots("set", {}) = [v \in {} |-> v]
        BY SetIs
      <3> QED BY <2>3, <3>1
    <2>4. CASE kind[c] = "dict"
      <3>1. Slots("dict", <<>>) = [s \in {"key", "value"} \X DOMAIN <<>> |->
                                     IF s[1] = "key" THEN s[2] ELSE <<>>[s[2]]]
        BY DictIs
      <3>2. DOMAIN Slots("dict", <<>>) = {}
        BY <2>1, <3>1
      <3> QED BY <2>4, <3>2
    <2> QED BY <1>3, <2>2, <2>3, <2>4
  <1> HIDE DEF con, b
  <1>7. Python!Change(c, [kind |-> kind[c], body |-> b])
    BY <1>1, <1>4, <1>5, <1>6, ChangeStep
  <1>8. Python!ClearAll(c)
    BY <1>1, <1>2, <1>7 DEF Python!ClearAll, b
  <1> QED BY <1>5, <1>8 DEF Python!Step

LEMMA StatementStep ==
  ASSUME IInv, IInv', Statement
  PROVE  Python!Step
  <1>1. ASSUME NEW x \in Vars, NEW v \in Operands, Bind(x, v) PROVE Python!Step
    <2>1. Fetch(<<"bind", x, v>>, x, v, <<>>) /\ Usable(v)
      BY <1>1, OperandUsable DEF Bind
    <2>2. line' = <<"bind", x, v>> /\ Python!Bind(x, v)
      BY <2>1, FetchGives, BindStep
    <2> QED BY <2>2 DEF Python!Step
  <1>2. ASSUME NEW x \in Vars, NEW vs \in Lists,
               ListLiteral(x, vs) \/ SetLiteral(x, vs) \/ MakeTuple(x, vs)
        PROVE  Python!Step
    BY <1>2, LiteralSteps
  <1>3. ASSUME NEW x \in Vars, NEW k \in Operands, NEW vs \in Lists \ {<<>>}, DictLiteral(x, k, vs)
        PROVE  Python!Step
    BY <1>3, DictLiteralStep
  <1>4. ASSUME NEW x \in Vars, NEW c \in Containers, NEW k \in Operands,
               GetItem(x, c, k) \/ (\E d \in Operands \cup {None} : DictGet(x, c, k, d))
                 \/ (k \in Numbers /\ GetTupleField(x, c, k))
        PROVE  Python!Step
    BY <1>4, GetSteps, DictGetStep
  <1>5. ASSUME NEW c \in Containers, ListClear(c) \/ SetClear(c) \/ DictClear(c) PROVE Python!Step
    BY <1>5, ClearStep
  <1>6. ASSUME NEW c \in Containers, NEW v \in Operands, ListAppend(c, v) \/ SetAdd(c, v) \/ SetDiscard(c, v)
        PROVE  Python!Step
    BY <1>6, NodeSteps
  <1>7. ASSUME NEW c \in Containers, NEW k \in Operands, NEW v \in Operands, SetItem(c, k, v)
        PROVE  Python!Step
    BY <1>7, SetItemStep
  <1> QED BY <1>1, <1>2, <1>3, <1>4, <1>5, <1>6, <1>7 DEF Statement

-----------------------------------------------------------------------------
(* What is done between statements is not seen. *)

LEMMA Unseen ==
  ASSUME IInv, IInv', env' = env, \A p \in InUse : kind'[p] = kind[p] /\ body'[p] = body[p]
  PROVE  Sight' = Sight
  <1>1. PICK D : D = InUse
    OBVIOUS
  <1>2. SeesAll(D)
    BY <1>1, InUseSees
  <1>3. \A p \in D : Inside(p)' = Inside(p) /\ Live(p)' = Live(p) /\ Seen(p)' = Seen(p)
    BY <1>1 DEF Inside, Live, Seen
  <1>4. SeesAll(D)'
    BY <1>2, <1>3 DEF SeesAll, Containers
  <1>5. PICK c : c = [p \in D |-> Seen(p)]
    OBVIOUS
  <1>6. c = [p \in D |-> Seen(p)']
    BY <1>3, <1>5
  <1>7. Python!Settle(env, c)
    BY <1>4, <1>6, Settles
  <1>8. Sight' = [o \in Python!Reach({env[x] : x \in Vars} \cap Objects, c) |-> c[o]]
    BY <1>7 DEF Python!Settle
  <1>9. Sight = [o \in Python!Reach({env[x] : x \in Vars} \cap Objects, c) |-> c[o]]
    BY <1>2, <1>5, TypeShape, SightIs DEF IInv
  <1> QED BY <1>8, <1>9

LEMMA CleanUnseen ==
  ASSUME IInv, IInv', NEW q \in Objects, Clean(q)
  PROVE  line' = line /\ env' = env /\ Sight' = Sight
  <1>1. due[q] > 0 /\ line' = line /\ env' = env
    BY DEF Clean
  <1>2. CASE count[q] # 1
    <2>1. UNCHANGED <<kind, body>>
      BY <1>2 DEF Clean
    <2> QED BY <1>1, <2>1, Unseen
  <1>3. CASE count[q] = 1
    <2>1. /\ Cardinality(Names(q)) \in Nat /\ Cardinality(Elements(q)) \in Nat /\ due[q] \in Nat
          /\ count[q] >= Cardinality(Names(q)) + Cardinality(Elements(q)) + due[q]
      BY CountIs
    <2>2. Cardinality(Names(q)) = 0 /\ Cardinality(Elements(q)) = 0
      <3>1. due[q] > 0
        BY <1>1
      <3> QED BY <1>3, <2>1, <3>1
    <2>3. Names(q) = {} /\ Elements(q) = {}
      BY <2>2, TypeShape, ReferringFinite, FS_EmptySet DEF IInv
    <2>4. q \notin InUse
      <3>1. Closed(Objects \ {q})
        <4>1. ASSUME NEW p \in Objects, q \in Inside(p) PROVE FALSE
          <5>1. In(q, p) # {}
            BY <4>1 DEF In, Inside
          <5> QED BY <2>3, <5>1, ElementsOf
        <4> QED BY <4>1 DEF Closed, Inside
      <3>2. Containers \subseteq Objects \ {q}
        BY <2>3 DEF Containers, Names
      <3> QED BY <3>1, <3>2, ReachableLeast DEF InUse
    <2>5. \A p \in Objects \ {q} : kind'[p] = kind[p] /\ body'[p] = body[p]
      <3>1. kind' = [kind EXCEPT ![q] = "free"] /\ body' = [body EXCEPT ![q] = Nothing]
        BY <1>3 DEF Clean
      <3> QED BY <3>1, TypeShape DEF IInv, Shape
    <2> QED BY <1>1, <2>4, <2>5, InUseIs, Unseen
  <1> QED BY <1>2, <1>3

LEMMA NextStep ==
  ASSUME IInv, IInv', [Next]_vars
  PROVE  Python!Step \/ (line' = line /\ env' = env /\ Sight' = Sight)
  <1>1. CASE Between /\ Statement
    BY <1>1, StatementStep
  <1>2. ASSUME NEW o \in Objects, Clean(o)
        PROVE  line' = line /\ env' = env /\ Sight' = Sight
    BY <1>2, CleanUnseen
  <1>3. CASE Counted
    <2>1. UNCHANGED <<line, env, kind, body>>
      BY <1>3 DEF Counted
    <2> QED BY <2>1, Unseen
  <1>4. CASE UNCHANGED vars
    <2>1. UNCHANGED <<line, env, kind, body>>
      BY <1>4 DEF vars
    <2> QED BY <2>1, Unseen
  <1> QED BY <1>1, <1>2, <1>3, <1>4 DEF Next

LEMMA InitStep ==
  ASSUME Init
  PROVE  Python!Init
  <1>1. /\ line = <<"begin">> /\ env = [x \in Vars |-> None]
    BY DEF Init
  <1>2. Containers = {}
    BY <1>1, ValueAssumption DEF Containers
  <1>3. InUse = {}
    <2>1. Closed({}) /\ {} \in SUBSET Objects
      BY DEF Closed
    <2> QED BY <1>2, <2>1, ReachableLeast DEF InUse
  <1>4. Sight = [o \in {} |-> Python!List(<<>>)]
    BY <1>3 DEF Sight
  <1> QED BY <1>1, <1>4 DEF Python!Init

\* Whatever a script does with containers, it sees what Python promises: no
\* counter, and no node that is deleted, ever shows.
THEOREM CountingIsUnseen == Spec => ActsLikePython
  <1>1. Init => Python!Init
    BY InitStep
  <1>2. IInv /\ IInv' /\ [Next]_vars => [Python!Step]_(Python!vars)
    BY NextStep DEF Python!vars
  <1>3. Spec => Init /\ []IInv /\ [][Next]_vars
    BY Invariant, PTL DEF Spec
  <1>4. Spec => Python!Spec
    BY <1>1, <1>2, <1>3, PTL DEF Python!Spec
  <1> QED BY <1>4 DEF ActsLikePython
=============================================================================
