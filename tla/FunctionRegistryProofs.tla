------------------------ MODULE FunctionRegistryProofs ------------------------
(***************************************************************************)
(* Proofs about FunctionRegistry, for any threads, names and functions.    *)
(*                                                                         *)
(* OneFunction and OneWriter are not inductive: that a call under a name   *)
(* always finds the function of its entry rests on what the threads carry  *)
(* between the table and the call (Carried), and on the entry of a name    *)
(* that is still to be set being empty (Pending), so that it was never     *)
(* called before.                                                          *)
(***************************************************************************)
EXTENDS FunctionRegistry, FiniteSetTheorems, TLAPS

\* A thread that registers has inserted an empty entry and will fill it.
Pending ==
  \A t \in Threads :
    pc[t] \in {"set", "assign"} =>
      name[t] \in Names /\ func[t] \in Functions /\ table[name[t]] = Empty

\* What a thread has copied whole is the function of the entry it copied.
Carried ==
  \A t \in Threads :
    /\ pc[t] \in {"copy", "copying", "call"} => name[t] \in Names /\ table[name[t]] # None
    /\ pc[t] \in {"copying", "call"} /\ func[t] \in Functions => table[name[t]] = func[t]

\* What was called under a name is the function of its entry.
Calls == \A n \in Names : called[n] \subseteq {table[n]}

OneWriterOf(n) ==
  \A t, u \in Threads :
    pc[t] \in {"set", "assign"} /\ pc[u] \in {"set", "assign"} /\ name[t] = n /\ name[u] = n
      => t = u

IInv ==
  /\ TypeOK
  /\ Pending
  /\ Carried
  /\ Calls
  /\ \A n \in Names : OneWriterOf(n)

\* Empty, Torn and None are no functions, and differ.
LEMMA Distinct ==
  /\ Empty \notin Functions /\ Torn \notin Functions /\ None \notin Functions
  /\ None \notin Names /\ Empty # None
  PROOF
  <1>1. Empty # None
    <2>1. SUFFICES ASSUME Empty = None PROVE FALSE
      OBVIOUS
    <2>2. {Empty, Torn, None} = {Empty, Torn}
      BY <2>1
    <2>3. Cardinality({Empty, Torn}) <= 2
      <3>1. IsFiniteSet({Torn}) /\ Cardinality({Torn}) = 1
        BY FS_Singleton
      <3>2. Cardinality({Torn} \cup {Empty}) = Cardinality({Torn})
              \/ Cardinality({Torn} \cup {Empty}) = Cardinality({Torn}) + 1
        BY <3>1, FS_AddElement
      <3>3. {Torn} \cup {Empty} = {Empty, Torn}
        OBVIOUS
      <3> QED BY <3>1, <3>2, <3>3
    <2> QED BY <2>2, <2>3, DistinctAssumption
  <1> QED BY <1>1, DistinctAssumption

\* The invariant holds at first.
LEMMA InitInvariant == Init => IInv
  PROOF
  BY DEF Init, IInv, TypeOK, States, Pending, Carried, Calls, OneWriterOf

\* A registration: a taken name changes nothing, a new one gets an entry that
\* nobody else has and nobody has called.
LEMMA RegisterInvariant ==
  ASSUME IInv, NEW t \in Threads, NEW n \in Names, NEW f \in Functions, Register(t, n, f)
  PROVE  IInv'
  PROOF
  <1> USE DEF IInv, TypeOK, States, Register, At, Goto
  <1>1. CASE table[n] # None
    <2>1. pc'[t] = "error" /\ \A u \in Threads \ {t} : pc'[u] = pc[u]
      BY <1>1
    <2>2. TypeOK'
      BY <1>1
    <2>3. Pending' /\ Carried' /\ Calls'
      BY <1>1, <2>1 DEF Pending, Carried, Calls
    <2>4. (\A m \in Names : OneWriterOf(m))'
      BY <1>1, <2>1 DEF OneWriterOf
    <2> QED BY <2>2, <2>3, <2>4
  <1>2. CASE table[n] = None
    <2>1. /\ table'[n] = Empty /\ \A m \in Names \ {n} : table'[m] = table[m]
          /\ pc'[t] = "set" /\ name'[t] = n /\ func'[t] = f
          /\ \A u \in Threads \ {t} : pc'[u] = pc[u] /\ name'[u] = name[u] /\ func'[u] = func[u]
      BY <1>2
    <2>2. TypeOK'
      BY <1>2
    <2>3. \A u \in Threads : pc[u] \in {"set", "assign"} => name[u] # n
      BY <1>2, Distinct DEF Pending
    <2>4. Pending'
      BY <2>1, <2>3 DEF Pending
    <2>5. Carried'
      BY <1>2, <2>1, Distinct DEF Carried
    <2>6. Calls'
      BY <1>2, <2>1, Distinct DEF Calls
    <2>7. (\A m \in Names : OneWriterOf(m))'
      BY <2>1, <2>3 DEF OneWriterOf
    <2> QED BY <2>2, <2>4, <2>5, <2>6, <2>7
  <1> QED BY <1>1, <1>2

\* The assignment of func_ begins.
LEMMA SetInvariant ==
  ASSUME IInv, NEW t \in Threads, Set(t)
  PROVE  IInv'
  PROOF
  <1> USE DEF IInv, TypeOK, States, Set, At, Goto
  <1>1. pc[t] = "set" /\ pc'[t] = "assign" /\ \A u \in Threads \ {t} : pc'[u] = pc[u]
    OBVIOUS
  <1>2. TypeOK'
    BY <1>1 DEF Pending
  <1>3. Pending' /\ Carried' /\ Calls'
    BY <1>1 DEF Pending, Carried, Calls
  <1>4. (\A m \in Names : OneWriterOf(m))'
    BY <1>1 DEF OneWriterOf
  <1> QED BY <1>2, <1>3, <1>4

\* The assignment ends: the entry was empty until now, so what was called or
\* copied whole is another entry's.
LEMMA AssignedInvariant ==
  ASSUME IInv, NEW t \in Threads, Assigned(t)
  PROVE  IInv'
  PROOF
  <1> USE DEF IInv, TypeOK, States, Assigned, At, Goto
  <1> DEFINE n == name[t]
  <1>1. /\ pc[t] = "assign" /\ pc'[t] = "idle"
        /\ \A u \in Threads \ {t} : pc'[u] = pc[u] /\ name'[u] = name[u] /\ func'[u] = func[u]
    OBVIOUS
  <1>2. n \in Names /\ func[t] \in Functions /\ table[n] = Empty
    BY <1>1 DEF Pending
  <1>3. table'[n] = func[t] /\ \A m \in Names \ {n} : table'[m] = table[m]
    BY <1>2
  <1>4. TypeOK'
    BY <1>2
  <1>5. Pending'
    <2>1. \A u \in Threads \ {t} : pc[u] \in {"set", "assign"} => name[u] # n
      BY <1>1, <1>2 DEF OneWriterOf
    <2> QED BY <1>1, <1>3, <2>1 DEF Pending
  <1>6. Carried'
    BY <1>1, <1>2, <1>3, Distinct DEF Carried
  <1>7. Calls'
    BY <1>2, <1>3, Distinct DEF Calls
  <1>8. (\A m \in Names : OneWriterOf(m))'
    BY <1>1 DEF OneWriterOf
  <1> QED BY <1>4, <1>5, <1>6, <1>7, <1>8

\* A lookup, and the copy of what it found.
LEMMA GetInvariant ==
  ASSUME IInv, NEW t \in Threads, NEW n \in Names, Get(t, n)
  PROVE  IInv'
  PROOF
  <1> USE DEF IInv, TypeOK, States, Get, At, Goto
  <1>1. CASE table[n] = None
    BY <1>1 DEF Pending, Carried, Calls, OneWriterOf
  <1>2. CASE table[n] # None
    <2>1. /\ pc'[t] = "copy" /\ name'[t] = n
          /\ \A u \in Threads \ {t} : pc'[u] = pc[u] /\ name'[u] = name[u]
      BY <1>2
    <2>2. TypeOK'
      BY <1>2
    <2>3. Pending' /\ Carried' /\ Calls'
      BY <1>2, <2>1 DEF Pending, Carried, Calls
    <2>4. (\A m \in Names : OneWriterOf(m))'
      BY <1>2, <2>1 DEF OneWriterOf
    <2> QED BY <2>2, <2>3, <2>4
  <1> QED BY <1>1, <1>2

LEMMA CopyInvariant ==
  ASSUME IInv, NEW t \in Threads, Copy(t) \/ Copied(t)
  PROVE  IInv'
  PROOF
  <1> USE DEF IInv, TypeOK, States, Copy, Copied, At, Goto
  <1>1. /\ pc[t] \in {"copy", "copying"} /\ pc'[t] \in {"copying", "call"}
        /\ \A u \in Threads \ {t} : pc'[u] = pc[u] /\ func'[u] = func[u]
        /\ UNCHANGED <<table, name, writing, called>>
    OBVIOUS
  <1>2. name[t] \in Names /\ table[name[t]] # None
    BY <1>1 DEF Carried
  <1>3. func'[t] = Torn \/ func'[t] = table[name[t]]
    BY <1>1, <1>2
  <1>4. TypeOK'
    BY <1>1, <1>2, <1>3
  <1>5. Pending' /\ Calls'
    BY <1>1 DEF Pending, Calls
  <1>6. Carried'
    BY <1>1, <1>2, <1>3, Distinct DEF Carried
  <1>7. (\A m \in Names : OneWriterOf(m))'
    BY <1>1 DEF OneWriterOf
  <1> QED BY <1>4, <1>5, <1>6, <1>7

\* A call: what is called is a function that was copied whole.
LEMMA FuncCallInvariant ==
  ASSUME IInv, NEW t \in Threads, FuncCall(t)
  PROVE  IInv'
  PROOF
  <1> USE DEF IInv, TypeOK, States, FuncCall, At, Goto
  <1>1. /\ pc[t] = "call" /\ pc'[t] \in {"idle", "escaped"}
        /\ \A u \in Threads \ {t} : pc'[u] = pc[u] /\ name'[u] = name[u] /\ func'[u] = func[u]
        /\ UNCHANGED <<table, writing>>
    OBVIOUS
  <1>2. name[t] \in Names
    BY <1>1 DEF Carried
  <1>3. TypeOK'
    BY <1>1, <1>2
  <1>4. Pending' /\ Carried'
    BY <1>1 DEF Pending, Carried
  <1>5. Calls'
    BY <1>1, <1>2 DEF Calls, Carried
  <1>6. (\A m \in Names : OneWriterOf(m))'
    BY <1>1 DEF OneWriterOf
  <1> QED BY <1>3, <1>4, <1>5, <1>6

LEMMA ReportInvariant ==
  ASSUME IInv, NEW t \in Threads, Report(t)
  PROVE  IInv'
  PROOF
  BY DEF IInv, TypeOK, States, Report, At, Goto, Pending, Carried, Calls, OneWriterOf

-----------------------------------------------------------------------------
\* The inductive invariant holds, whatever threads register, look up and call
\* (registry.h:42-75).
THEOREM Invariant == Safe => []IInv
  PROOF
  <1>1. IInv /\ [Next]_vars => IInv'
    <2> SUFFICES ASSUME IInv, [Next]_vars PROVE IInv'
      OBVIOUS
    <2>1. CASE UNCHANGED vars
      BY <2>1 DEF vars, IInv, TypeOK, Pending, Carried, Calls, OneWriterOf
    <2>2. ASSUME NEW t \in Threads, NEW n \in Names, Get(t, n) PROVE IInv'
      BY <2>2, GetInvariant
    <2>3. ASSUME NEW t \in Threads, NEW n \in Names, NEW f \in Functions, Register(t, n, f)
          PROVE  IInv'
      BY <2>3, RegisterInvariant
    <2>4. ASSUME NEW t \in Threads, Set(t) PROVE IInv'
      BY <2>4, SetInvariant
    <2>5. ASSUME NEW t \in Threads, Assigned(t) PROVE IInv'
      BY <2>5, AssignedInvariant
    <2>6. ASSUME NEW t \in Threads, Copy(t) \/ Copied(t) PROVE IInv'
      BY <2>6, CopyInvariant
    <2>7. ASSUME NEW t \in Threads, FuncCall(t) PROVE IInv'
      BY <2>7, FuncCallInvariant
    <2>8. ASSUME NEW t \in Threads, Report(t) PROVE IInv'
      BY <2>8, ReportInvariant
    <2> QED BY <2>1, <2>2, <2>3, <2>4, <2>5, <2>6, <2>7, <2>8 DEF Next
  <1> QED BY <1>1, InitInvariant, PTL DEF Safe

\* Types, for every run of the table and its threads (registry.h:42-75).
THEOREM TypeCorrect == Safe => []TypeOK
  PROOF
  <1>1. IInv => TypeOK
    BY DEF IInv
  <1> QED BY <1>1, Invariant, PTL

\* Whoever calls a name gets the function it was first registered with
\* (registry.h:44-49, c_api.cc FuncCall).
THEOREM NameIsOneFunction == Safe => []OneFunction
  PROOF
  <1>1. ASSUME IInv PROVE OneFunction
    <2> SUFFICES ASSUME NEW n \in Names
                 PROVE  Cardinality(called[n]) <= 1 /\ called[n] \subseteq {table[n]}
      BY DEF OneFunction
    <2>1. called[n] \subseteq {table[n]}
      BY <1>1 DEF IInv, Calls
    <2>2. called[n] = {} \/ called[n] = {table[n]}
      BY <2>1
    <2>3. Cardinality(called[n]) \in {0, 1}
      BY <2>2, FS_EmptySet, FS_Singleton
    <2> QED BY <2>1, <2>3
  <1> QED BY <1>1, Invariant, PTL

\* No two threads are about to assign the function of one entry, though no lock
\* is held (registry.h:51-61).
THEOREM EntryHasOneWriter == Safe => []OneWriter
  PROOF
  <1>1. ASSUME IInv PROVE OneWriter
    <2> SUFFICES ASSUME NEW t \in Threads, NEW u \in Threads,
                        pc[t] \in {"set", "assign"}, pc[u] \in {"set", "assign"}, name[t] = name[u]
                 PROVE  t = u
      BY DEF OneWriter
    <2>1. name[t] \in Names
      BY <1>1 DEF IInv, Pending
    <2> QED BY <1>1, <2>1 DEF IInv, OneWriterOf
  <1> QED BY <1>1, Invariant, PTL
=============================================================================
