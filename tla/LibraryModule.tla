---------------------------- MODULE LibraryModule ----------------------------
(***************************************************************************)
(* Shared libraries as modules: runtime_module.cc (DefaultLibray,          *)
(* LibraryModuleNode, CreateModuleFromLibrary, ModuleLoader), WrapFunction *)
(* of runtime_module.h, and the registry a generated library carries       *)
(* (SourceRewriter::EmitModuleRegistry of rewriter.cc).                    *)
(*                                                                         *)
(* A name is the sequence of its parts between "__": <<"add">> is add,     *)
(* <<"C", "init", "">> is C__init__.  A client handle holds a library      *)
(* being loaded, a module or a function; the threads that own the handles  *)
(* interleave.  Reference counts are those of ObjectRef: a module lives as *)
(* long as a handle refers to it.                                          *)
(***************************************************************************)
EXTENDS Integers, Sequences, FiniteSets, SequencesExt

CONSTANTS
  Files,       \* shared libraries on disk
  Modules,     \* addresses of LibraryModuleNode objects
  Handles,     \* the clients' variables
  Exports,     \* Exports[f]: the functions compiled into f, in order
  Registered,  \* the files that define __mc_func_registry__
  Garbled,     \* the first part of a name that swallowed a digit
  None

ASSUME ExportAssumption ==
  /\ IsFiniteSet(Modules) /\ IsFiniteSet(Handles)
  /\ Registered \subseteq Files
  /\ None \notin Files \cup Modules
  /\ \A f \in Files : Len(Exports[f]) \in 1..99

VARIABLES
  loads,     \* loads[f]: how often f is open in the dynamic linker
  ctx,       \* ctx[f]: __mc_module_ctx in the image of f
  file,      \* file[m]: the library of the module at m, None without one
  hold       \* hold[h]: what the handle h refers to

vars == <<loads, ctx, file, hold>>

Nothing == [kind |-> "nothing"]
Library(f) == [kind |-> "library", file |-> f]      \* n of ModuleLoader
Made(m) == [kind |-> "made", module |-> m]          \* root, context not yet set
Module(m) == [kind |-> "module", module |-> m]
Function(m, i) == [kind |-> "function", module |-> m, index |-> i]

-----------------------------------------------------------------------------
(* Names.  Exports[f][i] is [class |-> C or None, name |-> parts].         *)

RawName(e) == IF e.class = None THEN e.name ELSE <<e.class>> \o e.name

\* Mutant of NamesRead: one name too few is read.
NamesReadShort(f) ==
  LET raw == [i \in 1..Len(Exports[f]) |-> RawName(Exports[f][i])]
  IN  SubSeq(raw, 1, Len(raw) - 1)

\* The count is written in decimal after a backslash and read by the compiler
\* as an octal escape: one octal digit stands for itself, two for 8*d+e; an
\* escape ends before an 8 or 9, which then belongs to the first name, and
\* \8 and \9 are the characters 56 and 57.
NamesRead(f) ==
  LET n == Len(Exports[f])
      d == n \div 10
      e == n % 10
      char(x) == IF x < 8 THEN x ELSE 48 + x
      count == IF d = 0 THEN char(e) ELSE IF d < 8 /\ e < 8 THEN 8 * d + e ELSE char(d)
      raw == [i \in 1..n |-> RawName(Exports[f][i])]
      text == IF d > 0 /\ (d > 7 \/ e > 7) THEN [raw EXCEPT ![1] = <<Garbled>> \o @] ELSE raw
  IN  SubSeq(text, 1, IF count < n THEN count ELSE n)

\* ParseFunctionName: what stands before the first "__" is a class, unless
\* nothing stands there.
ParseFunctionName(raw) ==
  IF Len(raw) = 1 THEN [class |-> None, name |-> raw]
  ELSE [class |-> IF Head(raw) = "" THEN None ELSE Head(raw), name |-> Tail(raw)]

\* LoadFunctions: emplace keeps the first function of a name, a method table
\* keeps the last method; i is the position in __mc_func_array__.
Table(f) ==
  LET read == NamesRead(f)
      at(k) == {i \in 1..Len(read) : ParseFunctionName(read[i]) = k}
      first(S) == CHOOSE i \in S : \A j \in S : i <= j
      last(S) == CHOOSE i \in S : \A j \in S : i >= j
  IN  [k \in {ParseFunctionName(read[i]) : i \in 1..Len(read)} |->
         IF k.class = None THEN first(at(k)) ELSE last(at(k))]

\* GetFunction("C.m") looks m up in the methods of C, GetFunction("f") looks f
\* up in the functions; dlsym finds no mangled name, 0 is the empty Function.
Find(f, e) == IF e \in DOMAIN Table(f) THEN Table(f)[e] ELSE 0

-----------------------------------------------------------------------------
RefersTo(h, m) == hold[h].kind \in {"made", "module", "function"} /\ hold[h].module = m

TypeOK ==
  /\ loads \in [Files -> 0..Cardinality(Handles)]
  /\ ctx \in [Files -> Modules \cup {None}]
  /\ file \in [Modules -> Registered \cup {None}]
  /\ \A h \in Handles :
       \/ hold[h] = Nothing
       \/ \E f \in Files : hold[h] = Library(f)
       \/ \E m \in Modules : hold[h] \in {Made(m), Module(m)}
       \/ \E m \in Modules, f \in Files : \E i \in 1..Len(Exports[f]) :
            hold[h] = Function(m, i)

Init ==
  /\ loads = [f \in Files |-> 0]
  /\ ctx = [f \in Files |-> None]
  /\ file = [m \in Modules |-> None]
  /\ hold = [h \in Handles |-> Nothing]

\* dlopen: a library that is open already is not mapped a second time.
Open(h, f) ==
  /\ hold[h] = Nothing
  /\ hold' = [hold EXCEPT ![h] = Library(f)]
  /\ loads' = [loads EXCEPT ![f] = @ + 1]
  /\ UNCHANGED <<ctx, file>>

\* Mutant of Close: dlclose is not called.
CloseNot(f) == UNCHANGED <<loads, ctx>>

\* dlclose by ~DefaultLibray: the last one runs cleanup_module, which nulls
\* the context, and unmaps the image.
Close(f) ==
  /\ loads' = [loads EXCEPT ![f] = @ - 1]
  /\ ctx' = IF loads[f] = 1 THEN [ctx EXCEPT ![f] = None] ELSE ctx

\* MakeObject<LibraryModuleNode>: LoadFunctions throws without a registry, and
\* unwinding closes the library; otherwise the module keeps it open.
Construct(h, m) ==
  /\ hold[h].kind = "library"
  /\ file[m] = None
  /\ IF hold[h].file \in Registered
       THEN /\ file' = [file EXCEPT ![m] = hold[h].file]
            /\ hold' = [hold EXCEPT ![h] = Made(m)]
            /\ UNCHANGED <<loads, ctx>>
       ELSE /\ hold' = [hold EXCEPT ![h] = Nothing]
            /\ Close(hold[h].file)
            /\ UNCHANGED file

\* CreateModuleFromLibrary writes the module's address into the image.
SetContext(h) ==
  /\ hold[h].kind = "made"
  /\ ctx' = [ctx EXCEPT ![file[hold[h].module]] = hold[h].module]
  /\ hold' = [hold EXCEPT ![h] = Module(hold[h].module)]
  /\ UNCHANGED <<loads, file>>

\* GetBackendFunction: the function returned refers to its module as well.
GetFunction(h, g, f, i) ==
  /\ hold[h].kind = "module" /\ hold[g] = Nothing
  /\ LET m == hold[h].module
         found == Find(f, Exports[f][i])
     IN  /\ file[m] = f /\ found # 0
         /\ hold' = [hold EXCEPT ![g] = Function(m, found)]
  /\ UNCHANGED <<loads, ctx, file>>

CopyHandle(h, g) ==
  /\ hold[h].kind \in {"module", "function"} /\ hold[g] = Nothing
  /\ hold' = [hold EXCEPT ![g] = hold[h]]
  /\ UNCHANGED <<loads, ctx, file>>

\* Mutant of Release: a function does not refer to its module.
ReleaseModule(h) ==
  /\ hold[h].kind \in {"module", "function"}
  /\ hold' = [hold EXCEPT ![h] = Nothing]
  /\ LET m == hold[h].module
     IN  IF \E g \in Handles \ {h} : RefersTo(g, m) /\ hold[g].kind # "function"
           THEN UNCHANGED <<loads, ctx, file>>
           ELSE /\ file' = [file EXCEPT ![m] = None]
                /\ Close(file[m])

\* A handle goes away.  With the last one the module is destroyed: its tables
\* first, then p_, which closes the library.
Release(h) ==
  /\ hold[h].kind \in {"module", "function"}
  /\ hold' = [hold EXCEPT ![h] = Nothing]
  /\ LET m == hold[h].module
     IN  IF \E g \in Handles \ {h} : RefersTo(g, m)
           THEN UNCHANGED <<loads, ctx, file>>
           ELSE /\ file' = [file EXCEPT ![m] = None]
                /\ Close(file[m])

Next ==
  \E h \in Handles :
    \/ \E f \in Files : Open(h, f)
    \/ \E m \in Modules : Construct(h, m)
    \/ SetContext(h)
    \/ \E g \in Handles : CopyHandle(h, g)
    \/ \E g \in Handles, f \in Files : \E i \in 1..Len(Exports[f]) : GetFunction(h, g, f, i)
    \/ Release(h)

Safe == Init /\ [][Next]_vars

-----------------------------------------------------------------------------
(* Properties. *)

\* While a client holds a module or one of its functions, the module exists
\* and the code of its library is mapped (runtime_module.h:97-110).
ImageResident ==
  \A h \in Handles, m \in Modules :
    RefersTo(h, m) => file[m] # None /\ loads[file[m]] > 0

\* Every dlopen is paid back once: a library is open as often as modules and
\* loaders of it exist, on the failing path too (runtime_module.cc:33-36).
OpenBalanced ==
  \A f \in Files :
    loads[f] = Cardinality({m \in Modules : file[m] = f})
                 + Cardinality({h \in Handles : hold[h] = Library(f)})

\* Every function compiled into a library is found under its name, and the
\* code found is that function's (runtime_module.cc:109-126, 139-238).
EveryFunctionFound ==
  \A m \in Modules :
    file[m] # None =>
      \A i \in 1..Len(Exports[file[m]]) : Find(file[m], Exports[file[m]][i]) = i

\* The libraries of which that is true, whatever their names: at most nine
\* functions, no two of the same name, no plain name with "__" in it, and no
\* class or method without a name.
Readable(ex) ==
  /\ Len(ex) < 10
  /\ \A i, j \in 1..Len(ex) : ex[i] = ex[j] => i = j
  /\ \A i \in 1..Len(ex) :
       LET e == ex[i]
       IN  /\ e = [class |-> e.class, name |-> e.name] /\ e.name \in Seq(STRING)
           /\ IF e.class = None THEN Len(e.name) = 1
              ELSE e.class \in STRING \ {""} /\ e.name # <<>>
=============================================================================
