-------------------------- MODULE FunctionRegistry --------------------------
(***************************************************************************)
(* The global table of packed functions: FunctionRegistry of               *)
(* src/src/registry.h and the C functions RegisterGlobal, GetGlobal and    *)
(* FuncCall_PYTHON_C_API of c_api.cc.                                      *)
(*                                                                         *)
(* The mutex covers the search and the insertion.  What a thread does with *)
(* the reference Register gave it, or the pointer Get gave it, it does     *)
(* without the mutex: assigning func_, copying it, calling the copy.       *)
(* Remove has no caller in the repository and is left out.                 *)
(***************************************************************************)
EXTENDS Naturals, FiniteSets

CONSTANTS
  Threads,
  Names,
  Functions,   \* the packed functions to register
  Empty,       \* a std::function without a target
  Torn,        \* a std::function copied while it was being assigned
  None

ASSUME DistinctAssumption ==
  /\ {Empty, Torn, None} \cap (Threads \cup Names \cup Functions) = {}
  /\ Cardinality({Empty, Torn, None}) = 3

VARIABLES
  table,     \* table[n]: func_ of the entry of n, None without an entry
  pc,        \* pc[t]: what t does
  name,      \* name[t]: the name t registers, or gets and calls
  func,      \* func[t]: the function t registers, or its copy
  writing,   \* writing[n]: a thread is inside the assignment of func_
  called     \* called[n]: functions that were called under the name n

vars == <<table, pc, name, func, writing, called>>

States == {"idle", "set", "assign", "copy", "copying", "call", "error", "escaped"}

TypeOK ==
  /\ table \in [Names -> Functions \cup {Empty, None}]
  /\ pc \in [Threads -> States]
  /\ name \in [Threads -> Names \cup {None}]
  /\ func \in [Threads -> Functions \cup {Empty, Torn, None}]
  /\ writing \in SUBSET Names
  /\ called \in [Names -> SUBSET Functions]

Init ==
  /\ table = [n \in Names |-> None]
  /\ pc = [t \in Threads |-> "idle"]
  /\ name = [t \in Threads |-> None]
  /\ func = [t \in Threads |-> None]
  /\ writing = {}
  /\ called = [n \in Names |-> {}]

\* An exception that escapes ends the process, with all its threads.
Running == \A t \in Threads : pc[t] # "escaped"

At(t, here) == Running /\ pc[t] = here
Goto(t, next) == pc' = [pc EXCEPT ![t] = next]

-----------------------------------------------------------------------------
(* Registering: Register(n).set(f), SetBody(f) or SetFunction(n, f). *)

\* Mutant of Register: a name that is taken is handed out again.
RegisterAgain(t, n, f) ==
  /\ At(t, "idle")
  /\ Goto(t, "set")
  /\ table' = [table EXCEPT ![n] = IF @ = None THEN Empty ELSE @]
  /\ name' = [name EXCEPT ![t] = n]
  /\ func' = [func EXCEPT ![t] = f]
  /\ UNCHANGED <<writing, called>>

\* Under the mutex: a taken name throws, a new one gets an entry whose func_
\* is nullptr.
Register(t, n, f) ==
  /\ At(t, "idle")
  /\ IF table[n] # None
       THEN /\ Goto(t, "error")
            /\ UNCHANGED <<table, name, func>>
       ELSE /\ Goto(t, "set")
            /\ table' = [table EXCEPT ![n] = Empty]
            /\ name' = [name EXCEPT ![t] = n]
            /\ func' = [func EXCEPT ![t] = f]
  /\ UNCHANGED <<writing, called>>

\* func_ = std::move(func) begins, without the mutex ...
Set(t) ==
  /\ At(t, "set")
  /\ Goto(t, "assign")
  /\ writing' = writing \cup {name[t]}
  /\ UNCHANGED <<table, name, func, called>>

\* ... and ends.
Assigned(t) ==
  /\ At(t, "assign")
  /\ Goto(t, "idle")
  /\ writing' = writing \ {name[t]}
  /\ table' = [table EXCEPT ![name[t]] = func[t]]
  /\ name' = [name EXCEPT ![t] = None]
  /\ func' = [func EXCEPT ![t] = None]
  /\ UNCHANGED called

-----------------------------------------------------------------------------
(* Calling: GetGlobal, then FuncCall_PYTHON_C_API on the handle. *)

\* Under the mutex: the address of func_, or nullptr for an unknown name.
Get(t, n) ==
  /\ At(t, "idle")
  /\ IF table[n] = None
       THEN UNCHANGED <<pc, name>>
       ELSE /\ Goto(t, "copy")
            /\ name' = [name EXCEPT ![t] = n]
  /\ UNCHANGED <<table, func, writing, called>>

\* new Func(*p) begins ...
Copy(t) ==
  /\ At(t, "copy")
  /\ Goto(t, "copying")
  /\ func' = [func EXCEPT ![t] = IF name[t] \in writing THEN Torn ELSE table[name[t]]]
  /\ UNCHANGED <<table, name, writing, called>>

\* ... and ends: it is torn when an assignment overlapped it.
Copied(t) ==
  /\ At(t, "copying")
  /\ Goto(t, "call")
  /\ func' = [func EXCEPT ![t] = IF name[t] \in writing \/ @ # table[name[t]] THEN Torn ELSE @]
  /\ UNCHANGED <<table, name, writing, called>>

\* Mutant of FuncCall: an empty function is called like any other.
FuncCallUnchecked(t) ==
  /\ At(t, "call")
  /\ Goto(t, "idle")
  /\ called' = [called EXCEPT ![name[t]] = @ \cup {func[t]}]
  /\ name' = [name EXCEPT ![t] = None]
  /\ func' = [func EXCEPT ![t] = None]
  /\ UNCHANGED <<table, writing>>

\* The handle is called: an empty std::function throws bad_function_call,
\* which API_END does not catch, and calling a torn one may do anything.
FuncCall(t) ==
  /\ At(t, "call")
  /\ IF func[t] \in Functions
       THEN /\ Goto(t, "idle")
            /\ called' = [called EXCEPT ![name[t]] = @ \cup {func[t]}]
       ELSE /\ Goto(t, "escaped")
            /\ UNCHANGED called
  /\ name' = [name EXCEPT ![t] = None]
  /\ func' = [func EXCEPT ![t] = None]
  /\ UNCHANGED <<table, writing>>

\* The error is reported: HandleError keeps the message, -1 is returned.
Report(t) ==
  /\ At(t, "error")
  /\ Goto(t, "idle")
  /\ UNCHANGED <<table, name, func, writing, called>>

-----------------------------------------------------------------------------
Next ==
  \E t \in Threads :
    \/ \E n \in Names : Get(t, n) \/ \E f \in Functions : Register(t, n, f)
    \/ Set(t) \/ Assigned(t) \/ Copy(t) \/ Copied(t) \/ FuncCall(t) \/ Report(t)

Safe == Init /\ [][Next]_vars

-----------------------------------------------------------------------------
(* Properties. *)

\* A name stands for one function: whoever calls it, whenever, gets the same,
\* and a second registration changes nothing (registry.h:44-49).
OneFunction ==
  \A n \in Names :
    /\ Cardinality(called[n]) <= 1
    /\ called[n] \subseteq {table[n]}

\* func_ of an entry is assigned by the thread that inserted it and by no
\* other, although no lock is held (registry.h:51-61).
OneWriter ==
  \A t, u \in Threads :
    pc[t] \in {"set", "assign"} /\ pc[u] \in {"set", "assign"} /\ name[t] = name[u]
      => t = u
=============================================================================
