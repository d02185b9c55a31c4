--------------------------- MODULE NameTableProofs ---------------------------
(***************************************************************************)
(* Proofs about NameTable, for any names, and for any order of the calls   *)
(* the Rewriter makes.                                                     *)
(*                                                                         *)
(* Where no name is another's with a number, GetUniqueName gives every     *)
(* variable a name of its own for the whole function (Distinct).  So in    *)
(* every block the names the compiler knows are those of the variables in  *)
(* scope, each for its own variable (Mirrors): looking up a name and       *)
(* looking up a variable come to the same.                                 *)
(***************************************************************************)
EXTENDS NameTable, SequenceTheorems, TLAPS

\* name is that of v, or that with one of the numbers given so far.
Given(v, name) ==
  \/ name = VarName(v)
  \/ \E n \in 1..names[VarName(v)] : name = Numbered(VarName(v), n)

\* Every name is made from the name of its variable, up to its counter.
Formed ==
  \A v \in DOMAIN ids :
    /\ v \in Variables
    /\ VarName(v) \in DOMAIN names
    /\ Given(v, ids[v])

\* The present block and those around it.
Here == [seen |-> seen, own |-> own, scope |-> scope]
Around == {outer[i] : i \in 1..Len(outer)}
Blocks == {Here} \cup Around

\* A block knows variables that were declared, and declares names of such.
Bounded(b) ==
  /\ b.scope \subseteq DOMAIN ids
  /\ b.own \subseteq {ids[v] : v \in DOMAIN ids}
  /\ \A name \in DOMAIN b.seen : b.seen[name] \in DOMAIN ids

\* Its names are those of the variables in its scope, each for its own.
Mirrors(b) ==
  /\ DOMAIN b.seen = {ids[v] : v \in b.scope}
  /\ \A v \in b.scope : b.seen[ids[v]] = v

Distinct == \A v, w \in DOMAIN ids : ids[v] = ids[w] => v = w

Table ==
  /\ TableTypeOK
  /\ \E S : outer \in Seq(S)
  /\ Formed
  /\ \A b \in Blocks : Bounded(b)

Apart == Distinct /\ (\A b \in Blocks : Mirrors(b)) /\ (ok /\ meant <=> scoped)

IInv == Table /\ (NoneNumbered => Apart)

-----------------------------------------------------------------------------
(* Declare gives a name. *)

\* What a declaration of a new variable does to the tables.
LEMMA Declared ==
  ASSUME Table, NEW v \in Variables, Declare(v), v \notin DOMAIN ids
  PROVE  /\ VarName(v) \in VarNames
         /\ NextNumber(VarName(v)) \in 0..MaxNumber
         /\ DOMAIN names' = {VarName(v)} \cup DOMAIN names
         /\ names'[VarName(v)] = NextNumber(VarName(v))
         /\ \A q \in DOMAIN names : q # VarName(v) => names'[q] = names[q]
         /\ DOMAIN ids' = {v} \cup DOMAIN ids
         /\ ids'[v] = GetUniqueName(VarName(v))
         /\ \A w \in DOMAIN ids : ids'[w] = ids[w]
         /\ DOMAIN seen' = {ids'[v]} \cup DOMAIN seen
         /\ seen'[ids'[v]] = v
         /\ \A name \in DOMAIN seen : name # ids'[v] => seen'[name] = seen[name]
  <1> DEFINE p == VarName(v)
             number == NextNumber(p)
             id == ids'[v]
  <1>1. p \in VarNames
    BY DEF Variables
  <1>2. number \in 0..MaxNumber
    <2>1. MaxNumber \in Nat
      BY NumberAssumption
    <2>2. CASE p \in DOMAIN names
      BY <2>1, <2>2 DEF Declare, NextNumber, Table, TableTypeOK
    <2>3. CASE p \notin DOMAIN names
      BY <2>1, <2>3 DEF NextNumber
    <2> QED BY <2>2, <2>3
  <1>3. /\ names' = Put(names, p, number)
        /\ ids' = Put(ids, v, GetUniqueName(p))
        /\ seen' = Put(seen, id, v)
    BY DEF Declare
  <1> HIDE DEF p, number, id
  <1>4. /\ DOMAIN names' = {p} \cup DOMAIN names
        /\ names'[p] = number
        /\ \A q \in DOMAIN names : q # p => names'[q] = names[q]
    BY <1>3 DEF Put
  <1>5. /\ DOMAIN ids' = {v} \cup DOMAIN ids
        /\ ids'[v] = GetUniqueName(p)
        /\ \A w \in DOMAIN ids : w # v => ids'[w] = ids[w]
    BY <1>3 DEF Put
  <1>6. /\ DOMAIN seen' = {id} \cup DOMAIN seen
        /\ seen'[id] = v
        /\ \A name \in DOMAIN seen : name # id => seen'[name] = seen[name]
    BY <1>3 DEF Put
  <1> QED BY <1>1, <1>2, <1>4, <1>5, <1>6 DEF p, number, id

\* A counter never goes back.
LEMMA NumbersGrow ==
  ASSUME Table, NEW v \in Variables, Declare(v), v \notin DOMAIN ids
  PROVE  \A q \in DOMAIN names : names[q] \in 0..MaxNumber /\ names'[q] \in 0..MaxNumber /\ names[q] <= names'[q]
  <1>1. MaxNumber \in Nat /\ \A q \in DOMAIN names : names[q] \in 0..MaxNumber
    BY NumberAssumption DEF Table, TableTypeOK
  <1>2. VarName(v) \in DOMAIN names => NextNumber(VarName(v)) = names[VarName(v)] + 1
    BY DEF NextNumber
  <1>3. /\ NextNumber(VarName(v)) \in 0..MaxNumber
        /\ DOMAIN names' = {VarName(v)} \cup DOMAIN names
        /\ names'[VarName(v)] = NextNumber(VarName(v))
        /\ \A q \in DOMAIN names : q # VarName(v) => names'[q] = names[q]
    BY Declared
  <1> QED BY <1>1, <1>2, <1>3

LEMMA FormedDeclare ==
  ASSUME Table, NEW v \in Variables, Declare(v), v \notin DOMAIN ids
  PROVE  Formed'
  <1> DEFINE p == VarName(v)
  <1>1. MaxNumber \in Nat
    BY NumberAssumption
  <1>2. SUFFICES ASSUME NEW w \in DOMAIN ids'
                 PROVE  w \in Variables /\ VarName(w) \in DOMAIN names' /\ Given(w, ids[w])'
    BY DEF Formed
  <1>3. CASE w = v
    <2>1. NextNumber(p) = 0 => ids'[v] = p
      BY Declared DEF GetUniqueName
    <2>2. NextNumber(p) # 0 => ids'[v] = Numbered(p, NextNumber(p)) /\ NextNumber(p) \in 1..names'[p]
      <3>1. /\ NextNumber(p) \in 0..MaxNumber /\ names'[p] = NextNumber(p)
            /\ ids'[v] = GetUniqueName(p)
        BY Declared
      <3> QED BY <1>1, <3>1 DEF GetUniqueName
    <2> QED BY <1>3, <2>1, <2>2, Declared DEF Given
  <1>4. CASE w # v
    <2>1. w \in DOMAIN ids /\ ids'[w] = ids[w]
      BY <1>4, Declared
    <2>2. w \in Variables /\ VarName(w) \in DOMAIN names /\ Given(w, ids[w])
      BY <2>1 DEF Table, Formed
    <2>3. names[VarName(w)] \in Nat /\ names'[VarName(w)] \in Nat /\ names[VarName(w)] <= names'[VarName(w)]
      BY <1>1, <2>2, NumbersGrow
    <2>4. 1..names[VarName(w)] \subseteq 1..names'[VarName(w)]
      BY <2>3
    <2> QED BY <2>1, <2>2, <2>4, Declared DEF Given
  <1> QED BY <1>3, <1>4

\* The name that is given is nobody's yet.
LEMMA NewName ==
  ASSUME Table, NEW v \in Variables, Declare(v), v \notin DOMAIN ids, NoneNumbered',
         NEW w \in DOMAIN ids
  PROVE  ids[w] # ids'[v]
  <1> DEFINE p == VarName(v)
             q == VarName(w)
  <1>1. MaxNumber \in Nat
    BY NumberAssumption
  <1>2. p \in DOMAIN names' /\ q \in DOMAIN names' /\ p \in VarNames
    BY Declared DEF Table, Formed
  <1>3. q \in DOMAIN names /\ Given(w, ids[w]) /\ q \in VarNames /\ names[q] \in 0..MaxNumber
    BY DEF Table, Formed, TableTypeOK
  <1>4. \A n \in 1..MaxNumber : Numbered(p, n) # q /\ Numbered(q, n) # p
    BY <1>2 DEF NoneNumbered
  <1>5. CASE NextNumber(p) = 0
    <2>1. p \notin DOMAIN names
      BY <1>5, <1>1 DEF NextNumber, Table, TableTypeOK
    <2>2. ids'[v] = p /\ p # q
      BY <1>3, <1>5, <2>1, Declared DEF GetUniqueName
    <2>3. \A n \in 1..names[q] : n \in 1..MaxNumber
      BY <1>1, <1>3
    <2> QED BY <1>3, <1>4, <2>2, <2>3 DEF Given
  <1>6. CASE NextNumber(p) # 0
    <2>1. ids'[v] = Numbered(p, NextNumber(p)) /\ NextNumber(p) \in 1..MaxNumber
      <3>1. NextNumber(p) \in 0..MaxNumber /\ ids'[v] = GetUniqueName(p)
        BY Declared
      <3> QED BY <1>1, <1>6, <3>1 DEF GetUniqueName
    <2>2. p \in DOMAIN names /\ NextNumber(p) = names[p] + 1
      BY <1>6 DEF NextNumber
    <2>3. SUFFICES ASSUME NEW n \in 1..names[q], Numbered(q, n) = Numbered(p, NextNumber(p))
                   PROVE  FALSE
      BY <1>3, <1>4, <2>1 DEF Given
    <2>4. n \in 1..MaxNumber
      BY <1>1, <1>3
    <2>5. p = q /\ n = names[p] + 1
      BY <1>2, <1>3, <2>1, <2>2, <2>3, <2>4, NumberAssumption
    <2> QED BY <1>3, <2>5
  <1> QED BY <1>5, <1>6

-----------------------------------------------------------------------------
(* The tables stay what they are. *)

\* Blocks in terms of their parts.
LEMMA BlockParts ==
  /\ Bounded(Here) <=>
       /\ scope \subseteq DOMAIN ids
       /\ own \subseteq {ids[v] : v \in DOMAIN ids}
       /\ \A name \in DOMAIN seen : seen[name] \in DOMAIN ids
  /\ Mirrors(Here) <=>
       /\ DOMAIN seen = {ids[v] : v \in scope}
       /\ \A v \in scope : seen[ids[v]] = v
  BY DEF Bounded, Mirrors, Here

LEMMA TableDeclareNew ==
  ASSUME Table, NEW v \in Variables, Declare(v), v \notin DOMAIN ids
  PROVE  Table'
  <1>1. /\ ok' = (ok /\ ids'[v] \notin own)
        /\ own' = own \cup {ids'[v]} /\ scope' = scope \cup {v}
        /\ outer' = outer /\ meant' = meant /\ scoped' = scoped
    BY DEF Declare
  <1>2. /\ DOMAIN ids' = {v} \cup DOMAIN ids
        /\ \A w \in DOMAIN ids : ids'[w] = ids[w]
        /\ DOMAIN seen' = {ids'[v]} \cup DOMAIN seen
        /\ seen'[ids'[v]] = v
        /\ \A name \in DOMAIN seen : name # ids'[v] => seen'[name] = seen[name]
    BY Declared
  <1>3. {ids[w] : w \in DOMAIN ids} \cup {ids'[v]} \subseteq {ids'[w] : w \in DOMAIN ids'}
    BY <1>2
  <1>4. TableTypeOK'
    <2>1. DOMAIN names' \subseteq VarNames /\ \A p \in DOMAIN names' : names'[p] \in 0..MaxNumber
      <3>1. DOMAIN names \subseteq VarNames
        BY DEF Table, TableTypeOK
      <3>2. /\ VarName(v) \in VarNames
            /\ DOMAIN names' = {VarName(v)} \cup DOMAIN names
            /\ names'[VarName(v)] \in 0..MaxNumber
        BY Declared
      <3> QED BY <3>1, <3>2, NumbersGrow
    <2>2. DOMAIN ids' \subseteq [n : STRING, i : Int, t : STRING]
      BY <1>2 DEF Table, TableTypeOK, Variables
    <2>3. (\A name \in DOMAIN seen' : seen'[name] \in DOMAIN ids') /\ scope' \subseteq DOMAIN ids'
      BY <1>1, <1>2 DEF Table, TableTypeOK
    <2>4. ok' \in BOOLEAN /\ meant' \in BOOLEAN /\ scoped' \in BOOLEAN
      BY <1>1 DEF Table, TableTypeOK
    <2> QED BY <2>1, <2>2, <2>3, <2>4 DEF TableTypeOK
  <1>5. ASSUME NEW b \in Blocks' PROVE Bounded(b)'
    <2>1. CASE b = Here'
      <3>1. Bounded(Here)
        BY DEF Table, Blocks
      <3>2. Bounded(Here)'
        BY <1>1, <1>2, <1>3, <3>1, BlockParts DEF Bounded, Here
      <3> QED BY <2>1, <3>2
    <2>2. CASE b \in Around
      <3>1. Bounded(b)
        BY <2>2 DEF Table, Blocks
      <3> QED BY <1>2, <1>3, <3>1 DEF Bounded
    <2> QED BY <1>1, <2>1, <2>2 DEF Blocks, Around
  <1>6. \E S : outer' \in Seq(S)
    BY <1>1 DEF Table
  <1> QED BY <1>4, <1>5, <1>6, FormedDeclare DEF Table

LEMMA TableSame ==
  ASSUME Table, UNCHANGED <<names, ids, seen, own, scope, outer>>,
         {ok', meant', scoped'} \subseteq BOOLEAN
  PROVE  Table'
  BY DEF Table, TableTypeOK, Formed, Given, Blocks, Around, Here, Bounded

LEMMA TableBegin ==
  ASSUME Table, BeginScope
  PROVE  Table'
  <1>1. PICK S : outer \in Seq(S)
    BY DEF Table
  <1>2. /\ outer' = Append(outer, Here) /\ own' = {}
        /\ UNCHANGED <<names, ids, seen, scope, ok, meant, scoped>>
    BY DEF BeginScope, Here
  <1>3. outer' \in Seq(S \cup {Here}) /\ Around' = Around \cup {Here}
    BY <1>1, <1>2 DEF Around
  <1>4. \A b \in Blocks : Bounded(b)'
    BY <1>2 DEF Table, Bounded
  <1>5. Bounded(Here)'
    BY <1>2, BlockParts DEF Table, Blocks, Bounded, Here
  <1>6. TableTypeOK' /\ Formed'
    BY <1>2 DEF Table, TableTypeOK, Formed, Given
  <1> QED BY <1>3, <1>4, <1>5, <1>6 DEF Table, Blocks

\* The block around becomes the present one.
LEMMA Popped ==
  ASSUME Table, EndScope
  PROVE  /\ outer[Len(outer)] \in Around
         /\ seen' = outer[Len(outer)].seen
         /\ own' = outer[Len(outer)].own
         /\ scope' = outer[Len(outer)].scope
         /\ Around' \subseteq Around
         /\ \E S : outer' \in Seq(S)
         /\ UNCHANGED <<names, ids, ok, meant, scoped>>
  <1>1. PICK S : outer \in Seq(S)
    BY DEF Table
  <1>2. outer # <<>> /\ outer' = SubSeq(outer, 1, Len(outer) - 1)
    BY DEF EndScope
  <1>3. Len(outer) \in Nat /\ Len(outer) >= 1
    BY <1>1, <1>2
  <1>4. /\ outer' \in Seq(S) /\ Len(outer') = Len(outer) - 1
        /\ \A i \in 1..Len(outer') : outer'[i] = outer[i]
    <2> DEFINE n == Len(outer) - 1
    <2>1. n \in Nat /\ \A i \in 1..n : i \in 1..Len(outer)
      BY <1>3
    <2>2. \A i \in 1..n : outer[i] \in S
      BY <1>1, <2>1
    <2>3. /\ SubSeq(outer, 1, n) \in Seq(S)
          /\ Len(SubSeq(outer, 1, n)) = IF 1 <= n THEN n - 1 + 1 ELSE 0
          /\ \A i \in 1..(n - 1 + 1) : SubSeq(outer, 1, n)[i] = outer[1 + i - 1]
      BY <2>1, <2>2, SubSeqProperties
    <2>4. Len(outer') = n
      <3>1. outer' = SubSeq(outer, 1, n)
        BY <1>2
      <3> HIDE DEF n
      <3> QED BY <2>1, <2>3, <3>1
    <2>5. ASSUME NEW i \in 1..n PROVE outer'[i] = outer[i]
      BY <1>2, <2>1, <2>3
    <2> QED BY <1>2, <2>3, <2>4, <2>5
  <1>5. outer[Len(outer)] \in Around /\ Around' \subseteq Around
    BY <1>3, <1>4 DEF Around
  <1> QED BY <1>4, <1>5 DEF EndScope

LEMMA TableEnd ==
  ASSUME Table, EndScope
  PROVE  Table'
  <1>1. \A b \in Around : Bounded(b)'
    BY Popped DEF Table, Blocks, Bounded
  <1>2. Bounded(Here)'
    BY <1>1, Popped DEF Bounded, Here
  <1>3. scope' \subseteq DOMAIN ids' /\ \A name \in DOMAIN seen' : seen'[name] \in DOMAIN ids'
    BY <1>2 DEF Bounded, Here
  <1>4. TableTypeOK' /\ Formed'
    BY <1>3, Popped DEF Table, TableTypeOK, Formed, Given
  <1> QED BY <1>1, <1>2, <1>4, Popped DEF Table, Blocks

-----------------------------------------------------------------------------
(* Names stay apart. *)

LEMMA ApartDeclareNew ==
  ASSUME Table, NEW v \in Variables, Declare(v), v \notin DOMAIN ids,
         NoneNumbered', Apart
  PROVE  Apart'
  <1>1. /\ ok' = (ok /\ ids'[v] \notin own)
        /\ scope' = scope \cup {v}
        /\ outer' = outer /\ meant' = meant /\ scoped' = scoped
    BY DEF Declare
  <1>2. /\ DOMAIN ids' = {v} \cup DOMAIN ids
        /\ \A w \in DOMAIN ids : ids'[w] = ids[w]
        /\ DOMAIN seen' = {ids'[v]} \cup DOMAIN seen
        /\ seen'[ids'[v]] = v
        /\ \A name \in DOMAIN seen : name # ids'[v] => seen'[name] = seen[name]
    BY Declared
  <1>3. \A w \in DOMAIN ids : ids[w] # ids'[v]
    BY NewName
  <1>4. Distinct'
    BY <1>2, <1>3 DEF Apart, Distinct
  <1>5. ASSUME NEW b \in Blocks' PROVE Mirrors(b)'
    <2>1. CASE b = Here'
      <3>1. /\ scope \subseteq DOMAIN ids
            /\ DOMAIN seen = {ids[w] : w \in scope}
            /\ \A w \in scope : seen[ids[w]] = w
        BY BlockParts DEF Table, TableTypeOK, Apart, Blocks
      <3>2. DOMAIN seen' = {ids'[w] : w \in scope'}
        BY <1>1, <1>2, <3>1
      <3>3. ASSUME NEW w \in scope' PROVE seen'[ids'[w]] = w
        <4>1. CASE w = v
          BY <1>2, <4>1
        <4>2. CASE w \in scope
          <5>1. w \in DOMAIN ids /\ ids'[w] = ids[w] /\ ids[w] \in DOMAIN seen /\ ids[w] # ids'[v]
            BY <1>2, <1>3, <3>1, <4>2
          <5> QED BY <1>2, <3>1, <4>2, <5>1
        <4> QED BY <1>1, <4>1, <4>2
      <3> QED BY <2>1, <3>2, <3>3 DEF Mirrors, Here
    <2>2. CASE b \in Around
      <3>1. Mirrors(b) /\ b.scope \subseteq DOMAIN ids
        BY <2>2 DEF Table, Apart, Blocks, Bounded
      <3> QED BY <1>2, <3>1 DEF Mirrors
    <2> QED BY <1>1, <2>1, <2>2 DEF Blocks, Around
  <1>6. ids'[v] \notin own
    <2>1. own \subseteq {ids[w] : w \in DOMAIN ids}
      BY BlockParts DEF Table, Blocks
    <2> QED BY <1>3, <2>1
  <1>7. ok' = ok
    BY <1>1, <1>6 DEF Table, TableTypeOK
  <1>8. (ok' /\ meant' <=> scoped')
    BY <1>1, <1>7 DEF Apart
  <1> QED BY <1>4, <1>5, <1>8 DEF Apart

LEMMA ApartDeclareAgain ==
  ASSUME NEW v \in Variables, Declare(v), v \in DOMAIN ids, Apart
  PROVE  Apart'
  <1>1. ~ok' /\ ~scoped' /\ UNCHANGED <<names, ids, seen, own, scope, outer, meant>>
    BY DEF Declare
  <1>2. (ok' /\ meant' <=> scoped')
    BY <1>1
  <1> QED BY <1>1, <1>2 DEF Apart, Distinct, Blocks, Around, Here, Mirrors

\* The names of vs are known, and mean what they should, where vs is in scope.
LEMMA UseIsScope ==
  ASSUME Table, Apart, NEW vs \in SUBSET Variables
  PROVE  (\A v \in vs : Seen(v)) /\ (\A v \in vs : Seen(v) => seen[ids[v]] = v)
           <=> vs \subseteq scope
  <1>1. /\ scope \subseteq DOMAIN ids
        /\ DOMAIN seen = {ids[w] : w \in scope}
        /\ \A w \in scope : seen[ids[w]] = w
    BY BlockParts DEF Table, TableTypeOK, Apart, Blocks
  <1>2. ASSUME NEW v \in vs, Seen(v), seen[ids[v]] = v PROVE v \in scope
    <2>1. PICK w \in scope : ids[v] = ids[w]
      BY <1>1, <1>2 DEF Seen
    <2> QED BY <1>1, <1>2, <2>1
  <1>3. ASSUME NEW v \in vs, v \in scope PROVE Seen(v) /\ seen[ids[v]] = v
    BY <1>1, <1>3 DEF Seen
  <1> QED BY <1>2, <1>3

LEMMA ApartUse ==
  ASSUME Table, Apart, NEW vs \in SUBSET Variables, Use(vs)
  PROVE  Apart'
  <1> DEFINE known == \A v \in vs : Seen(v)
             own1 == \A v \in vs : Seen(v) => seen[ids[v]] = v
  <1>1. /\ ok' = (ok /\ known) /\ meant' = (meant /\ own1) /\ scoped' = (scoped /\ vs \subseteq scope)
        /\ UNCHANGED <<names, ids, seen, own, scope, outer>>
    BY DEF Use
  <1>2. known /\ own1 <=> vs \subseteq scope
    BY UseIsScope
  <1>3. (ok /\ meant <=> scoped)
    BY DEF Apart
  <1> HIDE DEF known, own1
  <1>4. (ok' /\ meant' <=> scoped')
    BY <1>1, <1>2, <1>3
  <1> QED BY <1>1, <1>4 DEF Apart, Distinct, Blocks, Around, Here, Mirrors

LEMMA ApartBegin ==
  ASSUME Table, Apart, BeginScope
  PROVE  Apart'
  <1>1. PICK S : outer \in Seq(S)
    BY DEF Table
  <1>2. /\ outer' = Append(outer, Here)
        /\ UNCHANGED <<names, ids, seen, scope, ok, meant, scoped>>
    BY DEF BeginScope, Here
  <1>3. Around' = Around \cup {Here}
    BY <1>1, <1>2 DEF Around
  <1>4. \A b \in Blocks : Mirrors(b)'
    BY <1>2 DEF Apart, Mirrors
  <1>5. Mirrors(Here)'
    <2>1. DOMAIN seen = {ids[v] : v \in scope} /\ \A v \in scope : seen[ids[v]] = v
      BY BlockParts DEF Apart, Blocks
    <2> QED BY <1>2, <2>1 DEF Mirrors, Here
  <1> QED BY <1>2, <1>3, <1>4, <1>5 DEF Apart, Distinct, Blocks

LEMMA ApartEnd ==
  ASSUME Table, Apart, EndScope
  PROVE  Apart'
  <1>1. \A b \in Around : Mirrors(b)'
    BY Popped DEF Apart, Blocks, Mirrors
  <1>2. Mirrors(Here)'
    BY <1>1, Popped DEF Mirrors, Here
  <1> QED BY <1>1, <1>2, Popped DEF Apart, Distinct, Blocks

-----------------------------------------------------------------------------
(* Theorems. *)

LEMMA Start ==
  ASSUME ResetState
  PROVE  IInv
  <1>1. Len(outer) = 0 /\ Around = {}
    BY DEF ResetState, Around
  <1>2. DOMAIN names = {} /\ DOMAIN ids = {} /\ DOMAIN seen = {}
    BY DEF ResetState
  <1>3. \A b \in Blocks : Bounded(b) /\ Mirrors(b)
    BY <1>1, <1>2, BlockParts DEF ResetState, Blocks
  <1>4. outer \in Seq({})
    BY DEF ResetState
  <1>5. TableTypeOK /\ Formed /\ Distinct
    BY <1>2 DEF ResetState, TableTypeOK, Formed, Distinct
  <1>6. (ok /\ meant <=> scoped)
    BY DEF ResetState
  <1> QED BY <1>3, <1>4, <1>5, <1>6 DEF IInv, Table, Apart

\* Names are never taken back.
LEMMA NumberedBefore ==
  ASSUME Table, NEW v \in Variables, Declare(v), NoneNumbered'
  PROVE  NoneNumbered
  <1>1. CASE v \in DOMAIN ids
    BY <1>1 DEF Declare, NoneNumbered
  <1>2. CASE v \notin DOMAIN ids
    <2>1. DOMAIN names \subseteq DOMAIN names'
      BY <1>2, Declared
    <2> QED BY <2>1 DEF NoneNumbered
  <1> QED BY <1>1, <1>2

LEMMA Step ==
  ASSUME IInv, VisitorCall
  PROVE  IInv'
  <1> USE DEF IInv
  <1>1. ASSUME NEW v \in Variables, Declare(v) PROVE IInv'
    <2>1. CASE v \in DOMAIN ids
      <3>1. /\ ok' = FALSE /\ scoped' = FALSE /\ meant' = meant
            /\ UNCHANGED <<names, ids, seen, own, scope, outer>>
        BY <1>1, <2>1 DEF Declare
      <3>2. {ok', meant', scoped'} \subseteq BOOLEAN
        BY <3>1 DEF Table, TableTypeOK
      <3>3. Table'
        BY <3>1, <3>2, TableSame
      <3> QED BY <1>1, <2>1, <3>3, NumberedBefore, ApartDeclareAgain
    <2>2. CASE v \notin DOMAIN ids
      BY <1>1, <2>2, TableDeclareNew, NumberedBefore, ApartDeclareNew
    <2> QED BY <2>1, <2>2
  <1>2. ASSUME NEW vs \in SUBSET Variables, Use(vs) PROVE IInv'
    <2>1. {ok', meant', scoped'} \subseteq BOOLEAN /\ UNCHANGED <<names, ids, seen, own, scope, outer>>
      BY <1>2 DEF Use, Table, TableTypeOK
    <2>2. NoneNumbered' => NoneNumbered
      BY <2>1 DEF NoneNumbered
    <2> QED BY <1>2, <2>1, <2>2, TableSame, ApartUse
  <1>3. CASE BeginScope
    <2>1. NoneNumbered' => NoneNumbered
      BY <1>3 DEF BeginScope, NoneNumbered
    <2> QED BY <1>3, <2>1, TableBegin, ApartBegin
  <1>4. CASE EndScope
    <2>1. NoneNumbered' => NoneNumbered
      BY <1>4 DEF EndScope, NoneNumbered
    <2> QED BY <1>4, <2>1, TableEnd, ApartEnd
  <1> QED BY <1>1, <1>2, <1>3, <1>4 DEF VisitorCall

LEMMA Stutter ==
  ASSUME IInv, UNCHANGED table
  PROVE  IInv'
  BY DEF IInv, table, Table, TableTypeOK, Formed, Given, Blocks, Around, Here, Bounded,
         NoneNumbered, Apart, Distinct, Mirrors

THEOREM Invariant == Naming => []IInv
  <1>1. IInv /\ [VisitorCall]_table => IInv'
    BY Step, Stutter
  <1> QED BY <1>1, Start, PTL DEF Naming

THEOREM TypeCorrect == Naming => []TableTypeOK
  <1>1. IInv => TableTypeOK
    BY DEF IInv, Table
  <1> QED BY <1>1, Invariant, PTL

THEOREM NamesAreScopes == Naming => []NamesFollowScopes
  <1>1. IInv => NamesFollowScopes
    BY DEF IInv, Apart, NamesFollowScopes
  <1> QED BY <1>1, Invariant, PTL

\* Where no variable has a name that is another's with a number, no two
\* variables of a function have one name.
THEOREM NamesAreUnique == Naming => [](NoneNumbered => Distinct)
  <1>1. IInv => (NoneNumbered => Distinct)
    BY DEF IInv, Apart
  <1> QED BY <1>1, Invariant, PTL
=============================================================================
