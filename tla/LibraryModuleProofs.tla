------------------------- MODULE LibraryModuleProofs -------------------------
(***************************************************************************)
(* Proofs about LibraryModule, for any libraries on disk, modules, handles *)
(* and names compiled into a library.                                      *)
(*                                                                         *)
(* OpenBalanced counts modules and loaders; a step moves at most one       *)
(* library from the one to the other, in or out.  That a destroyed module  *)
(* had a library to close is ModuleHeld, and that the code of a module is  *)
(* mapped follows from both.  Then names: what is read out of the string a *)
(* library carries, which entries the table gets, and what is found.  Last *)
(* types, which need that a module has a handle that refers to it.         *)
(***************************************************************************)
EXTENDS LibraryModule, FiniteSetTheorems, SequenceTheorems, WellFoundedInduction, NaturalsInduction, TLAPS

\* The modules, and the loaders, that keep f open.
ModulesOf(f) == {m \in Modules : file[m] = f}
LoadersOf(f) == {h \in Handles : hold[h] = Library(f)}

Referring == {"made", "module", "function"}

\* What a handle may hold, its index left open.
Holds(c) ==
  \/ c = Nothing
  \/ \E f \in Files : c = Library(f)
  \/ c.kind \in Referring /\ c.module \in Modules

Shape ==
  /\ loads \in [Files -> Int]
  /\ file \in [Modules -> Registered \cup {None}]
  /\ hold = [h \in Handles |-> hold[h]]
  /\ \A h \in Handles : Holds(hold[h])

\* A module that is referred to has not been destroyed.
ModuleHeld == \A h \in Handles, m \in Modules : RefersTo(h, m) => file[m] # None

Balanced ==
  \A f \in Files : loads[f] = Cardinality(ModulesOf(f)) + Cardinality(LoadersOf(f))

IInv == Shape /\ ModuleHeld /\ Balanced

-----------------------------------------------------------------------------
\* A library being loaded is no module, and both are more than nothing.
LEMMA KindsDiffer ==
  /\ Nothing.kind \notin Referring /\ Nothing.kind # "library"
  /\ \A f : Library(f).kind = "library" /\ Library(f).file = f /\ Library(f) # Nothing
  /\ \A m : /\ Made(m).kind = "made" /\ Made(m).module = m
            /\ Module(m).kind = "module" /\ Module(m).module = m
  /\ \A m, i : Function(m, i).kind = "function" /\ Function(m, i).module = m
  PROOF
  BY DEF Nothing, Library, Made, Module, Function, Referring

\* Modules and loaders are finitely many.
LEMMA Counting ==
  ASSUME NEW f
  PROVE  /\ IsFiniteSet(ModulesOf(f)) /\ Cardinality(ModulesOf(f)) \in Nat
         /\ IsFiniteSet(LoadersOf(f)) /\ Cardinality(LoadersOf(f)) \in Nat
  PROOF
  <1>1. ModulesOf(f) \subseteq Modules /\ LoadersOf(f) \subseteq Handles
    BY DEF ModulesOf, LoadersOf
  <1>2. IsFiniteSet(ModulesOf(f)) /\ IsFiniteSet(LoadersOf(f))
    BY <1>1, ExportAssumption, FS_Subset
  <1> QED BY <1>2, FS_CardinalityType

\* One element more, one element less.
LEMMA AddOne ==
  ASSUME NEW S, NEW T, NEW x, IsFiniteSet(S), x \notin S, T = S \cup {x}
  PROVE  Cardinality(T) = Cardinality(S) + 1
  PROOF
  BY FS_AddElement

LEMMA TakeOne ==
  ASSUME NEW S, NEW T, NEW x, IsFiniteSet(S), x \in S, T = S \ {x}
  PROVE  Cardinality(T) = Cardinality(S) - 1
  PROOF
  BY FS_RemoveElement

\* What a handle that changes alone does to the loaders.
LEMMA LoadersKept ==
  ASSUME Shape, NEW h \in Handles, NEW c, hold' = [hold EXCEPT ![h] = c], NEW f,
         hold[h] # Library(f), c # Library(f)
  PROVE  LoadersOf(f)' = LoadersOf(f)
  PROOF
  BY DEF LoadersOf, Shape

LEMMA LoaderGone ==
  ASSUME Shape, NEW h \in Handles, NEW c, hold' = [hold EXCEPT ![h] = c], NEW f,
         hold[h] = Library(f), c # Library(f)
  PROVE  Cardinality(LoadersOf(f)') = Cardinality(LoadersOf(f)) - 1
  PROOF
  <1>1. h \in LoadersOf(f) /\ LoadersOf(f)' = LoadersOf(f) \ {h}
    BY DEF LoadersOf, Shape
  <1> QED BY <1>1, Counting, TakeOne

-----------------------------------------------------------------------------
\* The invariant holds at first.
LEMMA InitInvariant == Init => IInv
  PROOF
  <1> SUFFICES ASSUME Init PROVE IInv
    OBVIOUS
  <1>1. Shape
    BY DEF Init, Shape, Holds
  <1>2. ModuleHeld
    BY KindsDiffer DEF Init, ModuleHeld, RefersTo, Referring
  <1>3. Balanced
    <2> SUFFICES ASSUME NEW f \in Files
                 PROVE  loads[f] = Cardinality(ModulesOf(f)) + Cardinality(LoadersOf(f))
      BY DEF Balanced
    <2>1. ModulesOf(f) = {} /\ LoadersOf(f) = {}
      BY KindsDiffer, ExportAssumption DEF Init, ModulesOf, LoadersOf
    <2> QED BY <2>1, FS_EmptySet DEF Init
  <1> QED BY <1>1, <1>2, <1>3 DEF IInv

\* dlopen: one more loader.
LEMMA OpenInvariant ==
  ASSUME IInv, NEW h \in Handles, NEW f \in Files, Open(h, f)
  PROVE  IInv'
  PROOF
  <1> USE DEF IInv, Open
  <1>1. Shape'
    BY DEF Shape, Holds
  <1>2. ModuleHeld'
    BY KindsDiffer DEF Shape, ModuleHeld, RefersTo, Referring
  <1>3. Balanced'
    <2> SUFFICES ASSUME NEW g \in Files
                 PROVE  loads'[g] = Cardinality(ModulesOf(g)') + Cardinality(LoadersOf(g)')
      BY DEF Balanced
    <2>1. ModulesOf(g)' = ModulesOf(g)
      BY DEF ModulesOf
    <2>2. CASE g = f
      <3>1. h \notin LoadersOf(f) /\ LoadersOf(f)' = LoadersOf(f) \cup {h}
        BY KindsDiffer DEF LoadersOf, Shape
      <3>2. Cardinality(LoadersOf(f)') = Cardinality(LoadersOf(f)) + 1
        BY <3>1, Counting, AddOne
      <3> QED BY <2>1, <2>2, <3>2, Counting DEF Balanced, Shape
    <2>3. CASE g # f
      <3>1. Nothing # Library(g) /\ Library(f) # Library(g)
        BY <2>3, KindsDiffer
      <3>2. LoadersOf(g)' = LoadersOf(g)
        BY <3>1, LoadersKept
      <3> QED BY <2>1, <2>3, <3>2 DEF Balanced, Shape
    <2> QED BY <2>2, <2>3
  <1> QED BY <1>1, <1>2, <1>3

\* A loader becomes a module, or is closed when there is no registry.
LEMMA ConstructInvariant ==
  ASSUME IInv, NEW h \in Handles, NEW m \in Modules, Construct(h, m)
  PROVE  IInv'
  PROOF
  <1> USE DEF IInv
  <1>1. PICK f \in Files : hold[h] = Library(f) /\ hold[h].file = f
    BY KindsDiffer DEF Construct, Shape, Holds, Referring
  <1>2. None \notin Files
    BY ExportAssumption
  <1>3. CASE f \in Registered
    <2>1. /\ file' = [file EXCEPT ![m] = f] /\ hold' = [hold EXCEPT ![h] = Made(m)]
          /\ loads' = loads /\ file[m] = None
      BY <1>1, <1>3 DEF Construct
    <2>2. Shape'
      BY <1>3, <2>1, KindsDiffer DEF Shape, Holds, Referring
    <2>3. ModuleHeld'
      BY <1>1, <1>2, <2>1, KindsDiffer DEF Shape, ModuleHeld, RefersTo
    <2>4. Balanced'
      <3> SUFFICES ASSUME NEW g \in Files
                   PROVE  loads'[g] = Cardinality(ModulesOf(g)') + Cardinality(LoadersOf(g)')
        BY DEF Balanced
      <3>1. Made(m) # Library(g)
        BY KindsDiffer
      <3>2. CASE g = f
        <4>1. m \notin ModulesOf(f) /\ ModulesOf(f)' = ModulesOf(f) \cup {m}
          BY <1>1, <1>2, <2>1 DEF ModulesOf, Shape
        <4>2. Cardinality(ModulesOf(f)') = Cardinality(ModulesOf(f)) + 1
          BY <4>1, Counting, AddOne
        <4>3. Cardinality(LoadersOf(f)') = Cardinality(LoadersOf(f)) - 1
          BY <1>1, <2>1, <3>1, <3>2, LoaderGone
        <4> QED BY <2>1, <3>2, <4>2, <4>3, Counting DEF Balanced
      <3>3. CASE g # f
        <4>1. ModulesOf(g)' = ModulesOf(g)
          BY <1>2, <2>1, <3>3 DEF ModulesOf, Shape
        <4>2. hold[h] # Library(g)
          BY <1>1, <3>3, KindsDiffer
        <4>3. LoadersOf(g)' = LoadersOf(g)
          BY <2>1, <3>1, <4>2, LoadersKept
        <4> QED BY <2>1, <4>1, <4>3 DEF Balanced
      <3> QED BY <3>2, <3>3
    <2> QED BY <2>2, <2>3, <2>4
  <1>4. CASE f \notin Registered
    <2>1. /\ hold' = [hold EXCEPT ![h] = Nothing] /\ file' = file
          /\ loads' = [loads EXCEPT ![f] = @ - 1]
      BY <1>1, <1>4 DEF Construct, Close
    <2>2. Shape'
      BY <1>1, <2>1 DEF Shape, Holds
    <2>3. ModuleHeld'
      BY <2>1, KindsDiffer DEF Shape, ModuleHeld, RefersTo, Referring
    <2>4. Balanced'
      <3> SUFFICES ASSUME NEW g \in Files
                   PROVE  loads'[g] = Cardinality(ModulesOf(g)') + Cardinality(LoadersOf(g)')
        BY DEF Balanced
      <3>1. ModulesOf(g)' = ModulesOf(g) /\ Nothing # Library(g)
        BY <2>1, KindsDiffer DEF ModulesOf
      <3>2. CASE g = f
        <4>1. Cardinality(LoadersOf(f)') = Cardinality(LoadersOf(f)) - 1
          BY <1>1, <2>1, <3>1, <3>2, LoaderGone
        <4> QED BY <1>1, <2>1, <3>1, <3>2, <4>1, Counting DEF Balanced, Shape
      <3>3. CASE g # f
        <4>1. hold[h] # Library(g)
          BY <1>1, <3>3, KindsDiffer
        <4>2. LoadersOf(g)' = LoadersOf(g)
          BY <2>1, <3>1, <4>1, LoadersKept
        <4> QED BY <2>1, <3>1, <3>3, <4>2 DEF Balanced, Shape
      <3> QED BY <3>2, <3>3
    <2> QED BY <2>2, <2>3, <2>4
  <1> QED BY <1>3, <1>4

\* A handle takes over a reference to a module that exists: libraries stay.
LEMMA HandleInvariant ==
  ASSUME IInv, NEW g \in Handles, NEW c, hold' = [hold EXCEPT ![g] = c],
         c.kind \in Referring, c.module \in Modules, file[c.module] # None,
         \A f : hold[g] # Library(f), UNCHANGED <<loads, file>>
  PROVE  IInv'
  PROOF
  <1> USE DEF IInv
  <1>1. Shape'
    BY DEF Shape, Holds
  <1>2. ModuleHeld'
    BY DEF Shape, ModuleHeld, RefersTo
  <1>3. Balanced'
    <2> SUFFICES ASSUME NEW f \in Files
                 PROVE  loads'[f] = Cardinality(ModulesOf(f)') + Cardinality(LoadersOf(f)')
      BY DEF Balanced
    <2>1. ModulesOf(f)' = ModulesOf(f)
      BY DEF ModulesOf
    <2>2. c # Library(f)
      BY KindsDiffer DEF Referring
    <2>3. LoadersOf(f)' = LoadersOf(f)
      BY <2>2, LoadersKept
    <2> QED BY <2>1, <2>3 DEF Balanced
  <1> QED BY <1>1, <1>2, <1>3

\* What refers to a module is no loader, and the module exists.
LEMMA ReferringHandle ==
  ASSUME IInv, NEW h \in Handles, hold[h].kind \in Referring
  PROVE  /\ hold[h].module \in Modules /\ file[hold[h].module] \in Files
         /\ \A f : hold[h] # Library(f)
  PROOF
  <1>1. hold[h].module \in Modules
    BY KindsDiffer DEF IInv, Shape, Holds, Referring
  <1>2. RefersTo(h, hold[h].module)
    BY DEF RefersTo, Referring
  <1>3. file[hold[h].module] \in Files
    BY <1>1, <1>2, ExportAssumption DEF IInv, Shape, ModuleHeld
  <1>4. \A f : hold[h] # Library(f)
    BY KindsDiffer DEF Referring
  <1> QED BY <1>1, <1>3, <1>4

LEMMA SetContextInvariant ==
  ASSUME IInv, NEW h \in Handles, SetContext(h)
  PROVE  IInv'
  PROOF
  <1>1. hold[h].kind \in Referring
    BY DEF SetContext, Referring
  <1>2. hold' = [hold EXCEPT ![h] = Module(hold[h].module)] /\ UNCHANGED <<loads, file>>
    BY DEF SetContext
  <1>3. Module(hold[h].module).kind \in Referring
          /\ Module(hold[h].module).module = hold[h].module
    BY KindsDiffer DEF Referring
  <1>4. file[hold[h].module] # None
    BY <1>1, ReferringHandle, ExportAssumption
  <1> QED BY <1>1, <1>2, <1>3, <1>4, ReferringHandle, HandleInvariant

LEMMA GetFunctionInvariant ==
  ASSUME IInv, NEW h \in Handles, NEW g \in Handles, NEW f \in Files, NEW i, GetFunction(h, g, f, i)
  PROVE  IInv'
  PROOF
  <1> DEFINE c == Function(hold[h].module, Find(f, Exports[f][i]))
  <1>1. hold[h].kind \in Referring /\ hold[g] = Nothing
    BY DEF GetFunction, Referring
  <1>2. hold' = [hold EXCEPT ![g] = c] /\ UNCHANGED <<loads, file>>
    BY DEF GetFunction
  <1>3. c.kind \in Referring /\ c.module = hold[h].module
    BY KindsDiffer DEF Referring
  <1>4. file[hold[h].module] # None /\ hold[h].module \in Modules
    BY <1>1, ReferringHandle, ExportAssumption
  <1>5. \A k : hold[g] # Library(k)
    BY <1>1, KindsDiffer
  <1> HIDE DEF c
  <1> QED BY <1>2, <1>3, <1>4, <1>5, HandleInvariant

LEMMA CopyInvariant ==
  ASSUME IInv, NEW h \in Handles, NEW g \in Handles, CopyHandle(h, g)
  PROVE  IInv'
  PROOF
  <1>1. hold[h].kind \in Referring /\ hold[g] = Nothing
    BY DEF CopyHandle, Referring
  <1>2. hold' = [hold EXCEPT ![g] = hold[h]] /\ UNCHANGED <<loads, file>>
    BY DEF CopyHandle
  <1>3. file[hold[h].module] # None /\ hold[h].module \in Modules
    BY <1>1, ReferringHandle, ExportAssumption
  <1>4. \A k : hold[g] # Library(k)
    BY <1>1, KindsDiffer
  <1> QED BY <1>1, <1>2, <1>3, <1>4, HandleInvariant

\* A handle goes; the last one of a module takes the module and one dlopen of
\* its library with it.
LEMMA ReleaseInvariant ==
  ASSUME IInv, NEW h \in Handles, Release(h)
  PROVE  IInv'
  PROOF
  <1> USE DEF IInv
  <1>1. hold[h].kind \in Referring /\ hold' = [hold EXCEPT ![h] = Nothing]
    BY DEF Release, Referring
  <1>2. PICK m \in Modules, f \in Files :
          m = hold[h].module /\ f = file[m] /\ \A k : hold[h] # Library(k)
    BY <1>1, ReferringHandle
  <1>3. None \notin Files
    BY ExportAssumption
  <1>4. \A k \in Files : LoadersOf(k)' = LoadersOf(k)
    <2> SUFFICES ASSUME NEW k \in Files PROVE LoadersOf(k)' = LoadersOf(k)
      OBVIOUS
    <2>1. Nothing # Library(k)
      BY KindsDiffer
    <2> QED BY <1>1, <1>2, <2>1, LoadersKept
  <1>5. \A g \in Handles \ {h}, k \in Modules : RefersTo(g, k)' => RefersTo(g, k)
    BY <1>1 DEF RefersTo, Shape
  <1>6. \A k \in Modules : ~RefersTo(h, k)'
    BY <1>1, KindsDiffer DEF RefersTo, Shape, Referring
  <1>7. CASE \E g \in Handles \ {h} : RefersTo(g, m)
    <2>1. UNCHANGED <<loads, file>>
      BY <1>2, <1>7 DEF Release
    <2>2. Shape'
      BY <1>1, <2>1 DEF Shape, Holds
    <2>3. ModuleHeld'
      BY <1>5, <1>6, <2>1 DEF ModuleHeld
    <2>4. \A k \in Files : ModulesOf(k)' = ModulesOf(k)
      BY <2>1 DEF ModulesOf
    <2>5. Balanced'
      BY <1>4, <2>1, <2>4 DEF Balanced
    <2> QED BY <2>2, <2>3, <2>5
  <1>8. CASE ~\E g \in Handles \ {h} : RefersTo(g, m)
    <2>1. file' = [file EXCEPT ![m] = None] /\ loads' = [loads EXCEPT ![f] = @ - 1]
      BY <1>2, <1>8 DEF Release, Close
    <2>2. Shape'
      BY <1>1, <1>2, <2>1 DEF Shape, Holds
    <2>3. ModuleHeld'
      BY <1>2, <1>5, <1>6, <1>8, <2>1 DEF ModuleHeld, Shape
    <2>4. Balanced'
      <3> SUFFICES ASSUME NEW k \in Files
                   PROVE  loads'[k] = Cardinality(ModulesOf(k)') + Cardinality(LoadersOf(k)')
        BY DEF Balanced
      <3>1. CASE k = f
        <4>1. m \in ModulesOf(f) /\ ModulesOf(k)' = ModulesOf(f) \ {m}
          BY <1>2, <1>3, <2>1, <3>1 DEF ModulesOf, Shape
        <4>2. Cardinality(ModulesOf(k)') = Cardinality(ModulesOf(f)) - 1
          BY <4>1, Counting, TakeOne
        <4>3. /\ loads'[f] = loads[f] - 1
              /\ loads[f] = Cardinality(ModulesOf(f)) + Cardinality(LoadersOf(f))
          BY <1>2, <2>1 DEF Balanced, Shape
        <4>4. LoadersOf(k)' = LoadersOf(f)
          BY <1>4, <3>1
        <4> QED BY <3>1, <4>2, <4>3, <4>4, Counting
      <3>2. CASE k # f
        <4>1. ModulesOf(k)' = ModulesOf(k)
          BY <1>2, <1>3, <2>1, <3>2 DEF ModulesOf, Shape
        <4> QED BY <1>4, <2>1, <3>2, <4>1 DEF Balanced, Shape
      <3> QED BY <3>1, <3>2
    <2> QED BY <2>2, <2>3, <2>4
  <1> QED BY <1>7, <1>8

\* Every step preserves the invariant.
LEMMA NextInvariant == IInv /\ [Next]_vars => IInv'
  PROOF
  <1> SUFFICES ASSUME IInv, [Next]_vars PROVE IInv'
    OBVIOUS
  <1>1. CASE UNCHANGED vars
    BY <1>1 DEF vars, IInv, Shape, Holds, ModuleHeld, RefersTo, Balanced, ModulesOf, LoadersOf
  <1>2. CASE Next
    <2>1. PICK h \in Handles :
            \/ \E f \in Files : Open(h, f)
            \/ \E m \in Modules : Construct(h, m)
            \/ SetContext(h)
            \/ \E g \in Handles : CopyHandle(h, g)
            \/ \E g \in Handles, f \in Files : \E i \in 1..Len(Exports[f]) : GetFunction(h, g, f, i)
            \/ Release(h)
      BY <1>2 DEF Next
    <2> QED BY <2>1, OpenInvariant, ConstructInvariant, SetContextInvariant, CopyInvariant,
               GetFunctionInvariant, ReleaseInvariant
  <1> QED BY <1>1, <1>2

\* The inductive invariant holds in every state.
THEOREM Invariant == Safe => []IInv
  PROOF
  BY InitInvariant, NextInvariant, PTL DEF Safe

\* A library is open as often as modules and loaders of it exist.
THEOREM DlopenIsBalanced == Safe => []OpenBalanced
  PROOF
  <1>1. IInv => OpenBalanced
    BY DEF IInv, Balanced, OpenBalanced, ModulesOf, LoadersOf
  <1> QED BY <1>1, Invariant, PTL

\* What a client can call through a module or a function of it is mapped.
THEOREM CodeStaysMapped == Safe => []ImageResident
  PROOF
  <1>1. ASSUME IInv PROVE ImageResident
    <2> SUFFICES ASSUME NEW h \in Handles, NEW m \in Modules, RefersTo(h, m)
                 PROVE  file[m] # None /\ loads[file[m]] > 0
      BY DEF ImageResident
    <2> DEFINE f == file[m]
    <2>1. f # None /\ f \in Files
      BY <1>1, ExportAssumption DEF IInv, Shape, ModuleHeld
    <2>2. m \in ModulesOf(f)
      BY DEF ModulesOf
    <2>3. Cardinality(ModulesOf(f)) # 0
      BY <2>2, Counting, FS_EmptySet
    <2> HIDE DEF f
    <2>4. loads[f] > 0
      BY <1>1, <2>1, <2>3, Counting DEF IInv, Balanced
    <2> QED BY <2>1, <2>4 DEF f
  <1> QED BY <1>1, Invariant, PTL

(***************************************************************************)
(* Names.                                                                  *)
(***************************************************************************)

\* The least of some numbers.
LEMMA Least ==
  ASSUME NEW T \in SUBSET Nat, T # {}
  PROVE  \E x \in T : \A y \in T : x <= y
  PROOF
  <1> DEFINE R == {ss \in Nat \X Nat : ss[1] < ss[2]}
  <1>1. IsWellFoundedOn(R, Nat)
    BY NatLessThanWellFounded, Zenon DEF OpToRel
  <1> HIDE DEF R
  <1>2. PICK x \in T : \A y \in T : ~ (<<y, x>> \in R)
    BY <1>1, WFMin
  <1>3. ASSUME NEW y \in T PROVE x <= y
    <2>1. x \in Nat /\ y \in Nat /\ ~ (<<y, x>> \in R)
      BY <1>2
    <2> QED BY <2>1 DEF R
  <1> QED BY <1>3

\* Of some positions there is a first and a last.
LEMMA Ends ==
  ASSUME NEW n \in Nat, NEW S \in SUBSET (1..n), S # {}
  PROVE  /\ \E i \in S : \A j \in S : i <= j
         /\ \E i \in S : \A j \in S : i >= j
  PROOF
  <1> DEFINE T == {n - i : i \in S}
  <1>1. T \in SUBSET Nat /\ T # {}
    <2>1. \A i \in S : i \in 1..n /\ n - i \in Nat
      OBVIOUS
    <2> QED BY <2>1
  <1>2. PICK x \in T : \A y \in T : x <= y
    BY <1>1, Least
  <1>3. PICK i \in S : x = n - i
    OBVIOUS
  <1>4. \A j \in S : i >= j
    BY <1>2, <1>3
  <1>5. \E k \in S : \A j \in S : k <= j
    BY Least
  <1> QED BY <1>4, <1>5

LEMMA Digits ==
  ASSUME NEW n \in 1..99
  PROVE  n \div 10 \in 0..9 /\ n % 10 \in 0..9 /\ n = 10 * (n \div 10) + (n % 10)
  PROOF
  OBVIOUS

\* Of at most nine names all are read, each as it was written; of more than
\* nine not all.
LEMMA ReadLength ==
  ASSUME NEW f \in Files, NEW n, n = Len(Exports[f])
  PROVE  /\ Len(NamesRead(f)) \in 1..n
         /\ n >= 10 => Len(NamesRead(f)) < n
         /\ n < 10 => /\ Len(NamesRead(f)) = n
                      /\ \A i \in 1..n : NamesRead(f)[i] = RawName(Exports[f][i])
  PROOF
  <1> DEFINE d == n \div 10
             e == n % 10
             char(x) == IF x < 8 THEN x ELSE 48 + x
             count == IF d = 0 THEN char(e) ELSE IF d < 8 /\ e < 8 THEN 8 * d + e ELSE char(d)
             raw == [i \in 1..n |-> RawName(Exports[f][i])]
             text == IF d > 0 /\ (d > 7 \/ e > 7) THEN [raw EXCEPT ![1] = <<Garbled>> \o @] ELSE raw
             k == IF count < n THEN count ELSE n
  <1>1. n \in 1..99
    BY ExportAssumption
  <1>2. d \in 0..9 /\ e \in 0..9 /\ n = 10 * d + e
    BY <1>1, Digits
  <1>3. NamesRead(f) = SubSeq(text, 1, k)
    BY DEF NamesRead
  <1> HIDE DEF d, e
  <1>4. k \in 1..n /\ (n >= 10 => k < n) /\ (n < 10 => k = n /\ text = raw)
    <2>1. n < 10 => d = 0
      BY <1>2
    <2>2. n < 10 => text = raw
      BY <1>2, <2>1
    <2> HIDE DEF text, raw
    <2>3. CASE d = 0
      <3>1. n = e /\ n < 10 /\ count = char(e)
        BY <1>2, <2>3
      <3>2. char(e) \in Int /\ char(e) >= e
        BY <1>2
      <3> HIDE DEF count, char
      <3> QED BY <1>1, <2>2, <3>1, <3>2
    <2>4. CASE d # 0
      <3>1. d \in 1..9 /\ n >= 10
        BY <1>2, <2>4
      <3>2. CASE d < 8 /\ e < 8
        <4>1. count = 8 * d + e
          BY <2>4, <3>2
        <4> HIDE DEF count
        <4> QED BY <1>2, <3>1, <4>1
      <3>3. CASE ~(d < 8 /\ e < 8)
        <4>1. count = char(d)
          BY <2>4, <3>3
        <4>2. char(d) \in Int /\ char(d) > 0 /\ char(d) < n
          BY <1>2, <3>1
        <4> HIDE DEF count, char
        <4> QED BY <1>1, <3>1, <4>1, <4>2
      <3> QED BY <3>2, <3>3
    <2> QED BY <2>3, <2>4
  <1> HIDE DEF k, text
  <1> DEFINE all == {text[i] : i \in 1..k}
  <1>5. /\ Len(SubSeq(text, 1, k)) = k
        /\ \A i \in 1..k : SubSeq(text, 1, k)[i] = text[i]
    <2>1. \A i \in 1..k : text[i] \in all
      OBVIOUS
    <2> HIDE DEF all
    <2>2. /\ Len(SubSeq(text, 1, k)) = IF 1 <= k THEN k - 1 + 1 ELSE 0
          /\ \A i \in 1..(k - 1 + 1) : SubSeq(text, 1, k)[i] = text[1 + i - 1]
      BY <1>1, <1>4, <2>1, SubSeqProperties
    <2> QED BY <1>1, <1>4, <2>2
  <1> QED BY <1>1, <1>3, <1>4, <1>5

\* An entry of the table is the position of a name that was read, and of that
\* very name.
LEMMA Entry ==
  ASSUME NEW f \in Files, NEW c
  PROVE  /\ c \in DOMAIN Table(f) <=>
              \E i \in 1..Len(NamesRead(f)) : ParseFunctionName(NamesRead(f)[i]) = c
         /\ c \in DOMAIN Table(f) =>
              /\ Table(f)[c] \in 1..Len(NamesRead(f))
              /\ ParseFunctionName(NamesRead(f)[Table(f)[c]]) = c
  PROOF
  <1> DEFINE read == NamesRead(f)
             at(x) == {i \in 1..Len(read) : ParseFunctionName(read[i]) = x}
             first(S) == CHOOSE i \in S : \A j \in S : i <= j
             last(S) == CHOOSE i \in S : \A j \in S : i >= j
             keys == {ParseFunctionName(read[i]) : i \in 1..Len(read)}
             pick(x) == IF x.class = None THEN first(at(x)) ELSE last(at(x))
  <1>1. Table(f) = [x \in keys |-> pick(x)]
    BY DEF Table
  <1>2. Len(read) \in Nat
    BY ReadLength, ExportAssumption
  <1>3. ASSUME c \in keys
        PROVE  pick(c) \in at(c)
    <2>1. at(c) # {} /\ at(c) \in SUBSET (1..Len(read))
      BY <1>3
    <2> HIDE DEF at, read
    <2>2. first(at(c)) \in at(c) /\ last(at(c)) \in at(c)
      BY <1>2, <2>1, Ends
    <2> QED BY <2>2
  <1>4. c \in keys <=> \E i \in 1..Len(read) : ParseFunctionName(read[i]) = c
    OBVIOUS
  <1> HIDE DEF keys, pick
  <1>5. DOMAIN Table(f) = keys /\ (c \in keys => Table(f)[c] = pick(c))
    BY <1>1
  <1> QED BY <1>3, <1>4, <1>5

\* What is put in front of a sequence can be taken off again.
LEMMA Prefixed ==
  ASSUME NEW S, NEW c \in S, NEW s \in Seq(S), s # <<>>, NEW raw, raw = <<c>> \o s
  PROVE  Len(raw) # 1 /\ Head(raw) = c /\ Tail(raw) = s
  PROOF
  <1>1. <<c>> \in Seq(S)
    OBVIOUS
  <1>2. Len(<<c>>) = 1 /\ <<c>>[1] = c
    OBVIOUS
  <1>3. Len(s) \in Nat \ {0}
    BY EmptySeq
  <1>4. /\ raw \in Seq(S) /\ Len(raw) = 1 + Len(s)
        /\ \A i \in 1..(1 + Len(s)) : raw[i] = IF i <= 1 THEN <<c>>[i] ELSE s[i - 1]
    BY <1>1, <1>2, ConcatProperties
  <1>5. Len(raw) # 1 /\ raw # <<>> /\ raw[1] = c
    BY <1>2, <1>3, <1>4
  <1>6. Head(raw) = c
    BY <1>4, <1>5
  <1>7. Tail(raw) = s
    <2>1. /\ Tail(raw) \in Seq(S) /\ Len(Tail(raw)) = Len(s)
          /\ \A i \in 1..Len(s) : Tail(raw)[i] = raw[i + 1]
      BY <1>3, <1>4, <1>5, HeadTailProperties
    <2>2. \A i \in 1..Len(s) : Tail(raw)[i] = s[i]
      BY <1>3, <1>4, <2>1
    <2> QED BY <2>1, <2>2, SeqEqual
  <1> QED BY <1>5, <1>6, <1>7

\* A name that has a class, or no "__", is parsed as what it was made of.
LEMMA ParseRaw ==
  ASSUME NEW e, e = [class |-> e.class, name |-> e.name], e.name \in Seq(STRING),
         IF e.class = None THEN Len(e.name) = 1 ELSE e.class \in STRING \ {""} /\ e.name # <<>>
  PROVE  ParseFunctionName(RawName(e)) = e
  PROOF
  <1>1. CASE e.class = None
    BY <1>1 DEF ParseFunctionName, RawName
  <1>2. CASE e.class # None
    <2>1. RawName(e) = <<e.class>> \o e.name
      BY <1>2 DEF RawName
    <2>2. Len(RawName(e)) # 1 /\ Head(RawName(e)) = e.class /\ Tail(RawName(e)) = e.name
      BY <1>2, <2>1, Prefixed
    <2> QED BY <1>2, <2>2 DEF ParseFunctionName
  <1> QED BY <1>1, <1>2

\* In a library that is readable each function is found, and found right.
LEMMA FoundRight ==
  ASSUME NEW f \in Files, Readable(Exports[f]), NEW i \in 1..Len(Exports[f])
  PROVE  Find(f, Exports[f][i]) = i
  PROOF
  <1> DEFINE ex == Exports[f]
             read == NamesRead(f)
             n == Len(ex)
  <1>1. Len(read) = n /\ \A j \in 1..n : read[j] = RawName(ex[j])
    BY ReadLength DEF Readable
  <1>2. \A j \in 1..n : ParseFunctionName(RawName(ex[j])) = ex[j]
    BY ParseRaw DEF Readable
  <1>3. \A j \in 1..n : ParseFunctionName(read[j]) = ex[j]
    BY <1>1, <1>2
  <1>4. \A j \in 1..n : ex[j] = ex[i] => j = i
    BY DEF Readable
  <1> HIDE DEF ex, read, n
  <1>5. ex[i] \in DOMAIN Table(f) => Table(f)[ex[i]] \in 1..n /\ ParseFunctionName(read[Table(f)[ex[i]]]) = ex[i]
    BY <1>1, Entry DEF read
  <1>6. ex[i] \in DOMAIN Table(f)
    BY <1>1, <1>3, Entry DEF read, n, ex
  <1>7. Table(f)[ex[i]] = i
    BY <1>3, <1>4, <1>5, <1>6
  <1> QED BY <1>6, <1>7 DEF Find, ex

\* Every function of a library is found under its name, and is that one, if the
\* libraries are readable.
THEOREM FunctionsAreFound ==
  (\A f \in Registered : Readable(Exports[f])) /\ Safe => []EveryFunctionFound
  PROOF
  <1> SUFFICES ASSUME \A f \in Registered : Readable(Exports[f])
               PROVE  Safe => []EveryFunctionFound
    OBVIOUS
  <1>1. ASSUME IInv PROVE EveryFunctionFound
    <2> SUFFICES ASSUME NEW m \in Modules, file[m] # None, NEW i \in 1..Len(Exports[file[m]])
                 PROVE  Find(file[m], Exports[file[m]][i]) = i
      BY DEF EveryFunctionFound
    <2>1. file[m] \in Registered /\ file[m] \in Files
      BY <1>1, ExportAssumption DEF IInv, Shape
    <2> QED BY <2>1, FoundRight
  <1> QED BY <1>1, Invariant, PTL

\* Nine functions are the most: the last one of a library of ten or more is
\* never found, whatever the names are.
THEOREM TenthIsLost ==
  ASSUME NEW f \in Files, Len(Exports[f]) >= 10
  PROVE  Find(f, Exports[f][Len(Exports[f])]) # Len(Exports[f])
  PROOF
  <1> DEFINE n == Len(Exports[f])
             c == Exports[f][n]
  <1>1. n \in 1..99 /\ Len(NamesRead(f)) \in 1..n /\ Len(NamesRead(f)) < n
    BY ReadLength, ExportAssumption
  <1>2. c \in DOMAIN Table(f) => Table(f)[c] \in 1..Len(NamesRead(f))
    BY Entry
  <1> HIDE DEF n, c
  <1>3. Find(f, c) # n
    BY <1>1, <1>2 DEF Find
  <1> QED BY <1>3 DEF n, c

-----------------------------------------------------------------------------
(***************************************************************************)
(* Types.                                                                  *)
(***************************************************************************)

\* A module lives as long as a handle refers to it.
Referred == \A m \in Modules : file[m] # None => \E h \in Handles : RefersTo(h, m)

\* What TypeOK says of a handle.
Typed(c) ==
  \/ c = Nothing
  \/ \E f \in Files : c = Library(f)
  \/ \E m \in Modules : c \in {Made(m), Module(m)}
  \/ \E m \in Modules, f \in Files : \E i \in 1..Len(Exports[f]) : c = Function(m, i)

Types ==
  /\ ctx \in [Files -> Modules \cup {None}]
  /\ \A h \in Handles : Typed(hold[h])
  /\ Referred

LEMMA InitTypes == Init => Types
  PROOF
  BY DEF Init, Types, Typed, Referred

\* What a lookup finds is a position in the library.
LEMMA FindRange ==
  ASSUME NEW f \in Files, NEW c, Find(f, c) # 0
  PROVE  Find(f, c) \in 1..Len(Exports[f])
  PROOF
  <1> DEFINE n == Len(Exports[f])
  <1>1. n \in 1..99 /\ Len(NamesRead(f)) \in 1..n
    BY ReadLength, ExportAssumption
  <1>2. c \in DOMAIN Table(f) /\ Find(f, c) = Table(f)[c]
    BY DEF Find
  <1>3. Table(f)[c] \in 1..Len(NamesRead(f))
    BY <1>2, Entry
  <1> HIDE DEF n
  <1>4. Table(f)[c] \in 1..n
    BY <1>1, <1>3
  <1> QED BY <1>2, <1>4 DEF n

\* One handle changes: what it refers to then is there, and what it referred to
\* before is referred to by it still, or by another, or goes.
LEMMA HandleTypes ==
  ASSUME IInv, Types, NEW h \in Handles, NEW c, hold' = [hold EXCEPT ![h] = c], Typed(c),
         ctx' \in [Files -> Modules \cup {None}],
         \A m \in Modules : file'[m] # None =>
            \/ c.kind \in Referring /\ c.module = m
            \/ \E g \in Handles \ {h} : RefersTo(g, m)
  PROVE  Types'
  PROOF
  <1> USE DEF IInv, Shape
  <1>1. \A g \in Handles : Typed(hold[g])'
    BY DEF Types, Typed
  <1>2. Referred'
    <2> SUFFICES ASSUME NEW m \in Modules, file'[m] # None
                 PROVE  \E g \in Handles : RefersTo(g, m)'
      BY DEF Referred
    <2>1. CASE c.kind \in Referring /\ c.module = m
      BY <2>1 DEF RefersTo, Referring
    <2>2. CASE \E g \in Handles \ {h} : RefersTo(g, m)
      BY <2>2 DEF RefersTo
    <2> QED BY <2>1, <2>2
  <1> QED BY <1>1, <1>2 DEF Types

\* The same for a handle that referred to nothing, when no module changes.
LEMMA FreshTypes ==
  ASSUME IInv, Types, NEW h \in Handles, NEW c, hold' = [hold EXCEPT ![h] = c], Typed(c),
         ctx' = ctx, file' = file, hold[h].kind \notin Referring
  PROVE  Types'
  PROOF
  <1>1. \A m \in Modules : file'[m] # None => \E g \in Handles \ {h} : RefersTo(g, m)
    BY DEF Types, Referred, RefersTo, Referring
  <1>2. ctx' \in [Files -> Modules \cup {None}]
    BY DEF Types
  <1> QED BY <1>1, <1>2, HandleTypes

LEMMA OpenTypes ==
  ASSUME IInv, Types, NEW h \in Handles, NEW f \in Files, Open(h, f)
  PROVE  Types'
  PROOF
  <1>1. hold' = [hold EXCEPT ![h] = Library(f)] /\ ctx' = ctx /\ file' = file
        /\ hold[h].kind \notin Referring
    BY KindsDiffer DEF Open
  <1>2. Typed(Library(f))
    BY DEF Typed
  <1> QED BY <1>1, <1>2, FreshTypes

LEMMA ConstructTypes ==
  ASSUME IInv, Types, NEW h \in Handles, NEW m \in Modules, Construct(h, m)
  PROVE  Types'
  PROOF
  <1> DEFINE f == hold[h].file
  <1>1. hold[h].kind \notin Referring
    BY DEF Construct, Referring
  <1>2. \A k \in Modules : file[k] # None => \E g \in Handles \ {h} : RefersTo(g, k)
    BY <1>1 DEF Types, Referred, RefersTo, Referring
  <1>3. CASE f \in Registered
    <2>1. /\ file' = [file EXCEPT ![m] = f] /\ hold' = [hold EXCEPT ![h] = Made(m)] /\ ctx' = ctx
      BY <1>3 DEF Construct
    <2>2. Typed(Made(m)) /\ Made(m).kind \in Referring /\ Made(m).module = m
      BY KindsDiffer DEF Typed, Referring
    <2>3. \A k \in Modules : file'[k] # None => k = m \/ file[k] # None
      BY <2>1 DEF IInv, Shape
    <2>4. ctx' \in [Files -> Modules \cup {None}]
      BY <2>1 DEF Types
    <2> QED BY <1>2, <2>1, <2>2, <2>3, <2>4, HandleTypes
  <1>4. CASE f \notin Registered
    <2>1. hold' = [hold EXCEPT ![h] = Nothing] /\ file' = file
          /\ ctx' = IF loads[f] = 1 THEN [ctx EXCEPT ![f] = None] ELSE ctx
      BY <1>4 DEF Construct, Close
    <2>2. Typed(Nothing)
      BY DEF Typed
    <2>3. ctx' \in [Files -> Modules \cup {None}]
      BY <2>1 DEF Types
    <2> HIDE DEF f
    <2> QED BY <1>2, <2>1, <2>2, <2>3, HandleTypes
  <1> QED BY <1>3, <1>4

LEMMA SetContextTypes ==
  ASSUME IInv, Types, NEW h \in Handles, SetContext(h)
  PROVE  Types'
  PROOF
  <1> DEFINE m == hold[h].module
  <1>1. hold[h].kind \in Referring
    BY DEF SetContext, Referring
  <1>2. m \in Modules /\ file[m] \in Files
    BY <1>1, ReferringHandle
  <1>3. hold' = [hold EXCEPT ![h] = Module(m)] /\ file' = file /\ ctx' = [ctx EXCEPT ![file[m]] = m]
    BY DEF SetContext
  <1>4. Typed(Module(m)) /\ Module(m).kind \in Referring /\ Module(m).module = m
    BY <1>2, KindsDiffer DEF Typed, Referring
  <1>5. ctx' \in [Files -> Modules \cup {None}]
    BY <1>2, <1>3 DEF Types
  <1>6. \A k \in Modules : file[k] # None => k = m \/ \E g \in Handles \ {h} : RefersTo(g, k)
    BY DEF Types, Referred, RefersTo
  <1> HIDE DEF m
  <1> QED BY <1>3, <1>4, <1>5, <1>6, HandleTypes

LEMMA GetFunctionTypes ==
  ASSUME IInv, Types, NEW h \in Handles, NEW g \in Handles, NEW f \in Files, NEW i, GetFunction(h, g, f, i)
  PROVE  Types'
  PROOF
  <1> DEFINE m == hold[h].module
             found == Find(f, Exports[f][i])
  <1>1. hold[h].kind \in Referring /\ hold[g].kind \notin Referring
    BY KindsDiffer DEF GetFunction, Referring
  <1>2. m \in Modules
    BY <1>1, ReferringHandle
  <1>3. hold' = [hold EXCEPT ![g] = Function(m, found)] /\ ctx' = ctx /\ file' = file /\ found # 0
    BY DEF GetFunction
  <1>4. found \in 1..Len(Exports[f])
    BY <1>3, FindRange
  <1> HIDE DEF m, found
  <1>5. Typed(Function(m, found))
    BY <1>2, <1>4 DEF Typed
  <1> QED BY <1>1, <1>3, <1>5, FreshTypes

LEMMA CopyTypes ==
  ASSUME IInv, Types, NEW h \in Handles, NEW g \in Handles, CopyHandle(h, g)
  PROVE  Types'
  PROOF
  <1>1. hold' = [hold EXCEPT ![g] = hold[h]] /\ ctx' = ctx /\ file' = file
        /\ hold[g].kind \notin Referring
    BY KindsDiffer DEF CopyHandle
  <1>2. Typed(hold[h])
    BY DEF Types
  <1> QED BY <1>1, <1>2, FreshTypes

LEMMA ReleaseTypes ==
  ASSUME IInv, Types, NEW h \in Handles, Release(h)
  PROVE  Types'
  PROOF
  <1> DEFINE m == hold[h].module
             f == file[m]
  <1>1. hold[h].kind \in Referring
    BY DEF Release, Referring
  <1>2. m \in Modules /\ f \in Files
    BY <1>1, ReferringHandle
  <1>3. hold' = [hold EXCEPT ![h] = Nothing] /\ Typed(Nothing)
    BY DEF Release, Typed
  <1>4. \A k \in Modules : file[k] # None => k = m \/ \E g \in Handles \ {h} : RefersTo(g, k)
    BY DEF Types, Referred, RefersTo
  <1>5. CASE \E g \in Handles \ {h} : RefersTo(g, m)
    <2>1. ctx' = ctx /\ file' = file
      BY <1>5 DEF Release
    <2>2. ctx' \in [Files -> Modules \cup {None}]
      BY <2>1 DEF Types
    <2> HIDE DEF m
    <2> QED BY <1>3, <1>4, <1>5, <2>1, <2>2, HandleTypes
  <1>6. CASE ~\E g \in Handles \ {h} : RefersTo(g, m)
    <2>1. /\ file' = [file EXCEPT ![m] = None]
          /\ ctx' = IF loads[f] = 1 THEN [ctx EXCEPT ![f] = None] ELSE ctx
      BY <1>6 DEF Release, Close
    <2>2. ctx' \in [Files -> Modules \cup {None}]
      BY <2>1 DEF Types
    <2>3. \A k \in Modules : file'[k] # None => k # m /\ file[k] # None
      BY <1>2, <2>1 DEF IInv, Shape
    <2> HIDE DEF m, f
    <2> QED BY <1>3, <1>4, <2>2, <2>3, HandleTypes
  <1> QED BY <1>5, <1>6

LEMMA NextTypes == IInv /\ Types /\ [Next]_vars => Types'
  PROOF
  <1> SUFFICES ASSUME IInv, Types, [Next]_vars PROVE Types'
    OBVIOUS
  <1>1. CASE UNCHANGED vars
    BY <1>1 DEF vars, Types, Typed, Referred, RefersTo
  <1>2. CASE Next
    <2>1. PICK h \in Handles :
            \/ \E f \in Files : Open(h, f)
            \/ \E m \in Modules : Construct(h, m)
            \/ SetContext(h)
            \/ \E g \in Handles : CopyHandle(h, g)
            \/ \E g \in Handles, f \in Files : \E i \in 1..Len(Exports[f]) : GetFunction(h, g, f, i)
            \/ Release(h)
      BY <1>2 DEF Next
    <2> QED BY <2>1, OpenTypes, ConstructTypes, SetContextTypes, CopyTypes, GetFunctionTypes, ReleaseTypes
  <1> QED BY <1>1, <1>2

\* The modules and the loaders of a library are no more than there are handles:
\* each module has a handle of its own, which is no loader.
LEMMA LoadsBounded ==
  ASSUME IInv, Types, NEW f \in Files
  PROVE  loads[f] \in 0..Cardinality(Handles)
  PROOF
  <1> DEFINE by == [m \in ModulesOf(f) |-> CHOOSE h \in Handles : RefersTo(h, m)]
             T == Handles \ LoadersOf(f)
  <1>1. \A m \in ModulesOf(f) : by[m] \in Handles /\ RefersTo(by[m], m)
    BY ExportAssumption DEF Types, Referred, ModulesOf
  <1>2. by \in [ModulesOf(f) -> T]
    <2>1. \A m \in ModulesOf(f) : by[m] \notin LoadersOf(f)
      BY <1>1, KindsDiffer DEF RefersTo, LoadersOf, Referring
    <2> QED BY <1>1, <2>1
  <1>3. \A m, k \in ModulesOf(f) : by[m] = by[k] => m = k
    BY <1>1 DEF RefersTo
  <1>4. IsFiniteSet(T) /\ T \in SUBSET Handles /\ LoadersOf(f) \in SUBSET Handles
    <2>1. T \in SUBSET Handles /\ LoadersOf(f) \in SUBSET Handles
      BY DEF LoadersOf
    <2> QED BY <2>1, ExportAssumption, FS_Subset
  <1> HIDE DEF by
  <1>5. Cardinality(ModulesOf(f)) <= Cardinality(T)
    <2>1. by \in Injection(ModulesOf(f), T)
      BY <1>2, <1>3 DEF Injection, IsInjective
    <2> QED BY <1>4, <2>1, FS_Injection
  <1>6. Cardinality(Handles) = Cardinality(T) + Cardinality(LoadersOf(f))
    <2>1. T \cup LoadersOf(f) = Handles /\ T \cap LoadersOf(f) = {}
      BY <1>4
    <2>2. Cardinality(T \cup LoadersOf(f)) =
            Cardinality(T) + Cardinality(LoadersOf(f)) - Cardinality(T \cap LoadersOf(f))
      BY <1>4, Counting, FS_Union
    <2>3. Cardinality({}) = 0
      BY FS_EmptySet
    <2>4. Cardinality(T) \in Nat /\ Cardinality(LoadersOf(f)) \in Nat
      BY <1>4, Counting, FS_CardinalityType
    <2> HIDE DEF T
    <2>5. Cardinality(Handles) = Cardinality(T) + Cardinality(LoadersOf(f)) - 0
      BY <2>1, <2>2, <2>3
    <2> QED BY <2>4, <2>5
  <1>7. Cardinality(T) \in Nat
    BY <1>4, FS_CardinalityType
  <1>8. loads[f] = Cardinality(ModulesOf(f)) + Cardinality(LoadersOf(f))
    BY DEF IInv, Balanced
  <1> QED BY <1>5, <1>6, <1>7, <1>8, Counting

\* Every variable has its type; in particular no library is open more often than
\* there are handles, and what a function handle holds is in a library.
THEOREM TypeCorrect == Safe => []TypeOK
  PROOF
  <1>1. ASSUME IInv, Types PROVE TypeOK
    <2>1. loads \in [Files -> 0..Cardinality(Handles)]
      BY <1>1, LoadsBounded DEF IInv, Shape
    <2> QED BY <1>1, <2>1 DEF IInv, Shape, Types, Typed, TypeOK
  <1>2. Safe => []Types
    BY InitTypes, NextTypes, Invariant, PTL DEF Safe
  <1> QED BY <1>1, <1>2, Invariant, PTL
=============================================================================
