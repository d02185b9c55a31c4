# Matx in TLA+

Matx compiles a subset of Python.  Trees of reference-counted C++ nodes
(`src/src`) are built through a CPython extension (`src/case_ext.cc`) by the
package `src/python/ffi_system`, or by the C++ parser of
`src/apps/interpreter_ast.cc`; they are written out as C++, compiled into a
library and loaded again, or evaluated directly.  This directory holds models
of the parts of that system whose correctness is a matter of state and order,
the configurations that check them with TLC, and proofs for TLAPS.

Paths such as `object.h:96` are files under `src/src` unless said otherwise.

## Inventory

| Component | State | Operations | Talks to |
|---|---|---|---|
| Object model (`object.h`) | `count_` of each object, `data_` of each handle | copy, move, swap, reset, destruct, `MakeObject`, `CopyOnWrite` | everything; threads share counters |
| Type registry (`object.cc`, `DEFINE_TYPEINDEX`) | names and parents of type indices, one static per class | lazy registration, `IsFrom`, `GetIndex` | `As`, `IsType`, `Downcast` of every node |
| Function registry (`registry.h`, `c_api.cc`) | names to packed functions | `Register`, `set`, `Get`, the C functions | extension, parsers, libraries |
| Library modules (`runtime_module.*`) | `dlopen` handles, tables of functions, `__mc_module_ctx` of the image | load, look up, wrap, unload | generated code (`rewriter.cc`) |
| Python extension (`case_ext.cc`, `runtime.py`, `module.py`) | handles inside Python wrappers, converted arguments | call, construct, wrap a result, finalize | function registry, object model, interpreter lock |
| Containers, values (`container.h`, `runtime_value.h`) | elements, counts of references | display, index, assign, `append`, `add`, `discard`, `get`, `clear` | evaluator, generated code |
| C++ parser (`parser.cc`) | tables of symbols, types and classes | read lines, parse, inline class methods | evaluator |
| Evaluator, prompt (`apps/interpreter_ast.cc`) | one environment across blocks, the block being typed | read a block, execute it, print | C++ parser, containers |
| Older interpreter (`apps/interpreter.cc`) | one environment, the block being typed | read, parse, execute, print | nothing: it is the reference of the newer one |
| Python parser (`parser.py`, `scope_context.py`) | stack of scopes | parse, inline class methods | code generation |
| Code generation (`rewriter.h`, `rewriter.cc`) | names given to variables, table of exported functions | write a function, write the table | C++ compiler, library modules |
| Function attributes, AST nodes, operators, iterators, `Array` and `Map`, printer | almost none | conversions and formatting | all of the above |

### What is hard, and what correctness means

* **Object model.**  Only the counter is atomic.  A copy writes the pointer
  before it counts, an assignment releases the old object last, `reset`
  releases while `data_` still points there, and a destructor cascades.
  Correct: the counter equals the references it was told of at every step,
  nothing points to freed memory, nothing is forgotten, and what
  `CopyOnWrite` returns is seen by nobody else.
* **Type registry.**  Registration is lazy, recursive (a class needs its
  parent's index) and concurrent.  Correct: `IsFrom` answers inheritance,
  an index is never re-used, the guards of the statics and the mutex never
  wait in a circle, the climb of `IsFrom` ends.
* **Function registry.**  `Register` gives out a reference and `Get` a pointer,
  used after the mutex is released.  Correct: a name never changes its
  function, an entry has one writer.  That a lookup gives a function that can be
  called is not so: it may come before the function is there, or while it is
  being assigned; the call then ends in an exception, or worse.
* **Library modules.**  Code must stay mapped while anything can call it;
  names are mangled and packed into one string.  Correct: each exported name
  finds its own function, `dlopen` is balanced.
* **Python extension.**  References cross between two kinds of ownership, and
  Python code runs in the middle of a call.  Correct: what anyone holds exists,
  and every count is explained.
* **Parsers, evaluator, code generation.**  Method calls are inlined at parse
  time, early returns become flags, loop conditions are computed in two
  places; the C++ parser keeps everything in flat tables and one environment,
  the Python parser in scopes that must agree with the blocks of the C++ it
  becomes.  Correct: the inlined program makes the writes of the script in
  order, returns its value and ends; inferred types are kept; every name of the
  C++ text refers to the variable it was written for.
* **Interpreters.**  Lines are collected until a block is complete, by
  indentation or a blank line; a block may be damaged, or never completed.
  Correct: what is executed is what was written, nothing is dropped but by the
  rules of the prompt, and both interpreters answer the same.
* **Containers.**  Everything is shared by reference, values count references,
  and a statement holds temporaries.  Correct: what an alias sees is what Python
  would show, counts match, nothing is used after it is deleted, and only cycles
  are never deleted.

`PROJECT.json` lists each hazard at its line with the property that covers it.

## Modules

### ObjectLifetime, ObjectRef, MCObjectRef

`ObjectLifetime` is the promise: what is referred to is alive, references come
only from references, what has none is destroyed once.  It has no counters.

`ObjectRef` is `object_t`, `object_p`, `MakeObject` and `CopyOnWrite`.  A handle
is a local of a thread or a member of an object; `data` is `data_`, `count` is
`count_`.  An operation of `object_p` is several steps: the pointer update
(`CopyAssign`, `MoveAssign`, `Destruct`, `Reset`), then `IncCounter`, then
`DecCounter`; other threads run in between.  The registers `gain` and `drop`
are the increment and decrement a thread still owes.  The thread that takes a
counter to zero runs the destructor (`DestructField`, `Deallocate`), which may
release further objects; `outer` is the stack of destructors.  `CopyOnWrite` is
`CowUnique`, or `CowClone` with a `CloneField` for every member and `CloneDone`.
`Handover` passes a local to another thread.

What the model takes as the discipline of callers: a thread touches its own
locals, reads members of objects it holds, and writes the members of a node it
obtained from `CopyOnWrite`.  Writing a shared node through a raw pointer, as
containers do, is not covered, and neither is the one caller `CopyOnWrite` has:
`WithAttr` (`function.h:151`) keeps to this for the function it copies, and then sets an
entry of its dictionary of attributes, a node that the copy shares with the original.

### TypeRegistry, MCTypeRegistry

`TypeContext` and the function-local statics of `DEFINE_TYPEINDEX`.  `need[t]` is
the stack of statics thread `t` is initialising (`Enter`, `Leave`), `guard` who
initialises each.  `Lock` and `Allocate` are `GetOrAllocRuntimeTypeIndex`;
`IsFromCompare`, `IsFromLock`, `IsFromClimb`, `IsFromReturn` are `IsFrom`.
`Index` is `GetIndex`, which does not lock: while a thread inserts, its result
is arbitrary.  No property is about that result.

`StaticAssumption` says that no two classes share a static index and that a
static index is above the parent's.  `runtime.Module`, `LibraryModule` and
`IRModule` all have the index 1 (`function.h:251`): the last of them to register
overwrites the record of the others, and an object of one passes `IsType` of
another.  They are outside the model, and `IsFromAgrees` is false of them.

### FunctionRegistry, MCFunctionRegistry

`Register` inserts an empty entry under the mutex; the assignment of `func_`
(`set`, two steps) and the copy that `GetGlobal` makes (two steps) happen
outside it.  A copy made during an assignment is `Torn`.

### LibraryModule, MCLibraryModule

`Open`, `Construct`, `Table`, `SetContext` are one load; `RawName`, `NamesRead` and
`ParseFunctionName` are how names travel from `rewriter.cc` through the emitted
string to the table.  `Exports` says what each file was generated from.

### PyBridge, MCPyBridge

One call is `StartCall`, a `Convert` for each argument, then `Call`,
`Construct`, `CallWithout` or `ConvertFails`.  C code holds the interpreter lock,
so threads switch only where Python code runs: between calls, in the callback
that converts a `Module` (`EnterCallback`, `LeaveCallback`), and in the creator
of a result (`Call`, then `Wrap`).  When Python drops a wrapper the references it
had are `due`, and `Release` takes them one at a time, deleting an object at zero; no
Python code runs until that is over.  `lost` counts references that no code path
will release any more.

### PyHeap, ContainerHeap, ContainerPromise, MCContainerHeap

`PyHeap` is the promise of `docs/SYNTAX.md`: names refer to containers, every alias
sees every change.  Its state has only what a name leads to; there is no counter
and no memory.

`ContainerHeap` is `ListNode`, `SetNode`, `DictNode` and `TupleNode` with the
`McValue`s in them.  A statement is several steps: it begins by copying its operands
and writing the container or the variable (`Begin`, through one action per kind of
statement), `Clean` then takes the values that had to go, one at a time, and
deletes a node at zero, which adds what was in it to what has to go; `Counted` is the
`CopyFrom` that `operator=` makes after it has cleaned the old value, and then
releases the temporaries.  The next statement begins when nothing is left
(`Between`).  `due`, `gain` and `temps` are bags: how many `McValue`s that refer to an
object are to be destroyed, are written but not yet counted, and are temporaries.
`Clean` may take what is due in any order; the code takes one of them.
`stale` records whether a step touched a node that was deleted.  Places in memory
are used again.

`ContainerPromise` states what the heap promises as a whole: `LeaksAreCycles`, and
`ActsLikePython`, in which the `Python` instance maps the heap to `PyHeap` by forgetting
what no variable leads to.  What can be reached is defined by closed sets (a node
is reached if every closed set that has the start has it), which needs no recursion.

### Script

The class subset of `docs/class_syntax_scope.md`: the shape of a script, and `Outcome`,
what it does when each statement is executed as written, methods being called
with an environment of their own.  It is the specification that inlining, and
the interpreters, are measured against.  `With` evaluates its argument once, and
so takes no primed variables.

### Evaluator, CppFrontend, PyFrontend, NameTable, CodeGen, ClassLowering, MCClassLowering

`Evaluator` is `Evaluator` of `apps/interpreter_ast.cc`.  Its state is what is left
to execute (`todo`), `env_`, the objects, the writes made (`log`) and the
outcome; each kind of statement is an action, and `Throw` is every exception.

`CppFrontend` is `parser.cc`, as operators that take the tables and a piece of the
script and give the tables, the statements to run before (the prelude) and an
expression.  `ExpandClassMethod` inlines a call, `RewriteMethodReturns` turns
returns into flags, `LowerClassCalls` takes the calls out of an expression, and
`ParseWhile` parses a condition twice.  Two things are left open:
`left`, which operand of an operator is lowered first (unspecified in C++), and
what happens after a class name was read from a destroyed map entry (`stale`).

`PyFrontend` is `parser.py` in the same form: its tables are a stack of scopes, `and`,
`or` and conditionals become a temporary and an `if`, and `Guarded` puts `has_ret`
in front of everything but declarations.

`NameTable` is what the `Rewriter` knows while it visits a function: `names` is
`name_dict_`, `ids` is `var_dict_`.  Its actions are the calls the visitor makes:
`Declare` (`AllocVarID`, `GetUniqueName`), `Use` (`GetVarID`), `BeginScope`, `EndScope`.
Beside them it keeps what a C++ compiler would know at that place of the text,
a name per variable (`seen`, `own`), and which variables are in scope there by
their place alone (`scope`).  `Naming` makes these calls in any order, so what holds
of it holds whatever is visited.  `CodeGen` is the visitor itself: `InsertFunction` turns
the body of a function into the calls that writing it makes.  What C++ does with
the compiled program is the machine of `Evaluator`.

`ClassLowering` composes them.  A script goes through one of the front ends as a
whole.  What the Python parser made of it is then written call by call (`ahead`
holds the calls to come: `WriteDeclaration`, `WriteNames`, `OpenBraces`, `CloseBraces`), and
is executed if every name was known and meant (`Compiled`); what the C++ parser
made of it is executed at once.  It is compared with its `Outcome`.

Inlining does not preserve every script.  What a script must keep to is stated,
in `ScriptText`, as operators on its text, each with the lines it is due to.  None of
them is there for nothing: for each the instance has a script that breaks it
alone and behaves differently.

| Condition | Front end | What it rules out |
|---|---|---|
| `Hygienic` | both | a local of a method with the name of a variable of its caller |
| `ResultsExist` | both | using the result of a method that may end without `return` |
| `KnownObjects` | both | methods of names that were not made by `x = C(...)`, explicit calls of `__init__` |
| `Counters` | both | assigning the variable of a loop, or using it outside |
| `NothingSkipped` | both, of chains | calls in what `a < b < c` may skip |
| `InOrderOnly` | C++ | calls after something they may change in the same expression, calls in both operands |
| `ComparedOnce` | C++ | a call in the middle of `a < b < c`, which runs twice |
| `NothingSkipped` | C++, of `and`, `or` | calls on the right of `and`, `or` |
| `AssignedFirst` | C++ | reading a variable left over from an earlier execution of the same text |
| `FixedRanges` | C++ | ranges whose end or step the loop changes |
| `OneType` | C++, for `TypesKept` | a name that is an object at one time and a number at another |
| `OperandsInOrder` | Python | a call behind an operand it may change: the operand is read after it |
| `ArgumentsApart` | Python | an argument with the name of a parameter before it, or `self`: arguments are visited while these are already in scope (`parser.py:490`) |
| `NothingDeclaredLate` | Python | conditions behind a `return` whose operands may fail: declarations have no guard, so they are computed although the method has returned (`parser.py:556`) |
| `NothingRepeated` | Python | a `return` from a `while` whose condition calls a method: the condition is computed once more behind it (`parser.py:658`) |
| `OneLoopEach` | Python, for names | a loop variable used twice in a method: it is declared inside the guard of the first loop and still known behind it (`parser.py:715`), which does not compile |
| `CallsInlined` | Python, for names | methods of what is no object of the class: such a call is left in the tree (`parser.py:149`, `420`), and the C++ text calls a method that is not there |
| `Unnumbered` | Python, for names | a variable `y_1` beside two of the name `y`: the second of these gets the name `y_1` without asking (`rewriter.h:471`) |

Those limits are the program's, and most of them are silent: the script is
accepted and does something else.

A division of whole numbers by zero (`interpreter_ast.cc:522`) has no check in front of it.
It is undefined in C++; on x86-64 it ends the process.  The model ends the program
there like an exception does (`Throw`): the properties are about the writes before it,
and of a script that fails the compiled program is not followed at all.  No program
of `Interpreters` divides by zero.

### TextLine, BlockReader, LineReader, OldInterpreter, Interpreters, MCInterpreters

`LineReader` reads lines: tokens to expressions (`ParseLevel` climbs the table of
precedences), lines with their indentation to statements (`ParseBlock`).
`apps/interpreter.cc` and `parser.cc` have this code twice; where they differ the
operator asks `ast`.  `OldInterpreter` is the `Interpreter` of
`apps/interpreter.cc`: a block executed over one environment.

`BlockReader` is how either program comes by the lines it parses, a line
(`TextLine`) a step, for any text.  `LeaveOut`, `Collect`, `Refuse` and `EndOfFile` are
`CollectLinesFromString`; `SkipBlank`, `ReadLine`, `EndBlock`, `Misindented` and `EndOfInput`
are `ReadBlockFromStdin`.  `TakeBlock` and `Executed` are the two places of `main` that
matter to it; what happens between them is left to `Interpreters`.

`Interpreters` gives one text to both programs, one after the other, as a file
(`ReadFile`) or at the prompt (`ReadPrompt`, `Quit`), then parses, executes and prints
block by block.  Each of its actions is one of `BlockReader`, with what it does beside,
or leaves the variables of `BlockReader` alone.  The newer program keeps its tables
(`tables`) and its environment from block to block.  The text is a program written
down (`ScriptText!Written`), as it is or with one line damaged: missing, too deep,
not deep enough, blank, with a token too many, or `exit`.

## Runs

| Run | Instance | Shows |
|---|---|---|
| `objectref_safe` | 2 threads, 3 objects of 2 members, 3 locals | `CountExact`, `NoDangling`, `WriteExclusive`, `NoneForgotten`, `Acyclic` |
| `objectref_live` | 2 threads, 2 objects of 1 member, 3 locals | refinement of `ObjectLifetime` with its fairness; every destructor finishes |
| `types` | 2 threads, 3 classes: a chain with allocated indices and a static index | `IsFromAgrees`, `NoWaitCycle`, `InfoStable`, `MutexReleased` |
| `functions` | 3 threads, 2 names, 2 functions | `OneFunction`, `OneWriter` |
| `library` | 3 handles, 2 modules, 3 files: a class and functions, nine functions, no table | `ImageResident`, `OpenBalanced`, `EveryFunctionFound` |
| `library_names` | a library of ten functions | **violation**, see below |
| `bridge` | 2 threads, 3 wrappers, 3 objects (one a module), up to 2 arguments | `HandleLive`, `Accounted` |
| `containers` | 2 variables, 3 places in memory, 2 numbers, 3 values in containers | `CountMatches`, `LeaksAreCycles`; refinement of `PyHeap` |
| `lowering` | 280 scripts through both front ends: a class with eight methods and two statements out of lists of 13 and 20, and 20 scripts at the edges; both orders of operands | `FollowsScript`, `CompiledFollows`, `NamesMeant`, `NamesFollowScopes`, `TypesKept`, `Halts` |
| `lowering_shortcircuit` | the same | **violation** |
| `lowering_nested` | the same | **violation** |
| `interpreters` | nine programs, as a file and at the prompt, whole and with any one line damaged in seven ways | `LinesAsTyped`, `ReadsAsWritten`, `CutWhereTooDeep`, `ReferenceIsRight`, `SameAnswers`, `BlocksEnd` |

Every other property of a passing run is the module's `TypeOK`.

### Bounds, and why they are enough

* *Threads*: two, because every hazard of these modules is between two
  parties; three in `functions`, where one writes, one copies, one calls.
* *ObjectRef*: three objects with two members allow a diamond, a chain of
  destructors of depth three, and a clone beside a shared node; three locals
  let one thread hold two handles to the same object while the other holds a
  third.
* *PyBridge*: `MaxArgs` is 2, to have an argument converted before one that
  fails or yields; a call starts only while `TotalLost < MaxLost` (2), which
  bounds counters that otherwise grow with each call.  `Room` keeps an address
  for each wrapper in the making.
* *LibraryModule*: nine functions are the most whose count is one digit.
* *ContainerHeap*: `MaxSlots` bounds the values in all containers to three, which
  is enough for a container that holds itself and another, a pair that hold each
  other, a dictionary entry beside an element, and the same element twice.  Three
  places let one be free and be used again while two are in use.  The numbers are
  -1 and 0, so that an index may count from either end.  The run's `VIEW` leaves out
  `line`, which names the last statement and decides nothing later.
* *ClassLowering*: the methods return from branches and from inside two loops,
  call each other, fail after a write and fall off their end; the statements put
  calls into conditions, loops, ranges, arguments, parentheses and conditional
  expressions.  Two statements let the second meet what the first left in the
  tables, the environment and the object.  The rest of the second list, and the
  scripts at the edges, break a condition or a type, so that each condition and
  each rejection is exercised.  Methods do not call each other in a circle: the
  parsers would not end.  `VarNames` has the names of the scripts and of 200
  temporaries, more than any of them needs; `MaxNumber` bounds how often a name is
  given again to three, and with nine the same states are reached.
* *Interpreters*: the programs have every operator and precedence, branches and
  loops in one another, ranges up, down, empty and of step zero, returns from
  loops, names that are unknown, and a `not` before a comparison; the docs'
  example session is the first.  Numbers have one digit.
* Counters need no other bound: references are finite.

`CHECK_DEADLOCK FALSE` is set for the function registry, where a thread whose
exception has left the C function stays where it is, and for `ClassLowering` and
`Interpreters`, where scripts and sessions end.

### Fairness

`objectref_live` and `types` assume weak fairness of `Continue(t)` for each
thread: a thread inside an operation goes on.  `Continue` holds only steps of
an operation that has begun; nothing obliges a thread to begin one.  In
`ObjectRef` no such step waits for another thread.  In `TypeRegistry` they may
wait for a guard or the mutex, and `NoWaitCycle` is checked beside it.
`lowering` assumes weak fairness of `Next`: the rewriter and the evaluator are one
thread that waits for nobody.  `interpreters` assumes it of the execution and the printing of each
interpreter only: a user may stop typing.

### Where the code and what is said of it differ

* `library_names`: the number of functions is written in decimal after a
  backslash and read as octal; of ten functions two are lost.
* `lowering_nested`: `LowerClassCalls` (`parser.cc:1112`) hands `ExpandClassMethod` a
  reference to a class name inside `current_var_class_types_`.  A nested call
  replaces that map when it is done (line 1041), and line 1036 then reads
  freed memory; depending on what is there, the parser goes on or throws.  The
  test `self_method_call` expects such a script to be accepted.
* `lowering_shortcircuit`: calls on the right of `and` and `or` (lines 1150, 1153)
  run before the condition, whatever its left side says;
  `docs/INTERPRETER_AST_SUBSET.md:17` promises short circuit.

The other conditions of `ClassLowering` have no run of their own, because no document
speaks of the cases they leave out.  `docs/class_syntax_scope.md` touches three of
them, in general terms: lines 12-16 list `while`, `for` and a nested `return` in the
body of a method as supported, which `NothingRepeated` and `OneLoopEach` qualify for
what is compiled, and line 26 a check of the types of known attributes, which
`OneType` qualifies.  Two more differences have none either: `docs/C_EXT.md` shows a
call that releases its converted arguments, and the code keeps them (`lost` of
`PyBridge` counts them); and the three classes with the index 1 (see `TypeRegistry`).

## Proofs

Each module of proofs holds for any value of the constants that the named
assumptions allow; TLC evaluates those assumptions in the runs.

| Module | Theorem | States |
|---|---|---|
| `ObjectRefProofs` | `TypeCorrect` | `Safe => []TypeOK` |
| | `CountIsExact` | `Safe => []CountExact` |
| | `NeverDangling` | `Safe => []NoDangling` |
| | `WriterIsAlone` | `Safe => []WriteExclusive` |
| | `NothingIsForgotten` | `Safe => []NoneForgotten` |
| | `NoCycles` | `Safe => []Acyclic` |
| | `PromiseIsKept` | `Safe => Lifetime!Safe`, the safety half of `KeepsPromise` |
| `TypeRegistryProofs` | `TypeCorrect` | `Safe => []TypeOK` |
| | `IsFromIsInheritance` | `Safe => []IsFromAgrees` |
| | `InfoIsStable` | `Safe => InfoStable` |
| | `WaitsEnd` | `Safe => []NoWaitCycle` |
| `FunctionRegistryProofs` | `TypeCorrect` | `Safe => []TypeOK` |
| | `NameIsOneFunction` | `Safe => []OneFunction` |
| | `EntryHasOneWriter` | `Safe => []OneWriter` |
| `LibraryModuleProofs` | `DlopenIsBalanced` | `Safe => []OpenBalanced` |
| | `CodeStaysMapped` | `Safe => []ImageResident` |
| | `TypeCorrect` | `Safe => []TypeOK` |
| | `FunctionsAreFound` | `Safe => []EveryFunctionFound` if the registered libraries are `Readable` |
| | `TenthIsLost` | of ten functions or more the last is not found |
| `PyBridgeProofs` | `TypeCorrect` | `Spec => []TypeOK` |
| | `CallsAreAccounted` | `Spec => []Accounted` |
| | `HandlesAreLive` | `Spec => []HandleLive` |
| `ContainerHeapProofs` | `TypeCorrect` | `Spec => []TypeOK` |
| | `CountersMatch` | `Spec => []CountMatches` |
| | `OnlyCyclesAreLost` | `Spec => []LeaksAreCycles` |
| | `CountingIsUnseen` | `Spec => ActsLikePython`: the heap implements `PyHeap` |
| `NameTableProofs` | `TypeCorrect` | `Naming => []TableTypeOK` |
| | `NamesAreScopes` | `Naming => []NamesFollowScopes` |
| | `NamesAreUnique` | `Naming => [](NoneNumbered => Distinct)` |
| `BlockReaderProofs` | `LinesAreAsTyped` | `Reading => LinesAsTyped`: the types, the blocks, and when a block is handed over |

Each module also has `Invariant`, which is `Safe => []IInv` (or `Spec`, `Naming`, `Reading`)
for the inductive invariant of that module.  The parts of `IInv` were first checked as invariants with TLC, and
each has its lemmas, one per action that can disturb it.

**ObjectRef**, for finite sets of threads, objects, locals and fields
(`FiniteAssumption`) that are different things (`DistinctAssumption`).  `CountExact` and
`NoDangling` are not inductive: to know that a step of `DecCounter` reaches zero
only when the last holder goes, one must know that what is owed is owed by
someone who still has it.  `IInv` adds:

* `Shape`: which registers of a thread can be set together (who is in
  `CopyOnWrite` owes no decrement of another operation, and so on);
* `CountedIsLive`, `FreeIsEmpty`: a counted reference leads to a live object,
  and freed memory has no members;
* `Reaping`: the chain of destructors a thread is in;
* `GainOwn`, `StaleOwn`, `WriteOwn`, `CloneOwn`: the handle a register names
  belongs to that thread, so that no other thread can change it meanwhile;
* `Exclusive`: a node being written has one reference, the writer's;
* `Backed`: a reference not yet counted is backed by a counted one that stays
  until it is counted.  It is the reason why `IncCounter` after the pointer
  update is safe, and the hardest part: a copy from a member of an object is
  backed by the local through which the thread reached it.

Counting uses lemmas on cardinality: `Counted(o)` gains or loses exactly one
element in each step that changes `count[o]`.

**ObjectLifetime** rests on the same `IInv`.  Its argument is about which objects
are referred to (`Held`): the lemmas named `...Held` show that only `Make` and
`CloneDone` refer to a new object, and only `DecCounter` gives up a last reference,
when the counter is one; all other steps hand a reference from one holder to
another.  So nothing live is left without a holder (`NoneForgotten`), and with
`Alive` (constructed, and not a clone still in the making) `Make` and `CloneDone` are
`Create` of the promise, `Deallocate` is `Destroy`, and every other step is `Share`.  For
`Acyclic` each set of objects has one that points to none of the set.  A member
gets a new pointer only in a node that no member points to, either under a write
(`Exclusive`) or in a clone that nobody knows of: a set without that
node keeps the object it had, and a set with it takes the one of its remaining
objects, which does not point to that node (`AcyclicKept`).

**TypeRegistry**, for any threads and any finite tree of classes
(`ClassAssumption`: parents do not run in a circle; `StaticAssumption`, above).
`Registry` says what is recorded of the classes that have an index: their own
index, above that of their parent, which got its first (`Indexed`, `Recorded`), and
that as many indices are given out as the counter says (`Counted`).  `Stacks` says
that the statics a thread is on its way to initialise climb from parent to parent,
so none occurs twice, and that the parent's index is there when a class gets
its own.  `InCall` says where a thread is in its call; for `IsFrom` it is the
argument that matters: the climb stands at an ancestor of the object's class, and
whether the class asked for is above it has the same answer as at the start
(`Climbing`, with `AncestorsBelow`: an ancestor never has a greater index, so the climb
may stop when the index is no longer above).  `Holding` says that who holds the
mutex is at work.  For `NoWaitCycle` each thread that waits has a `Rank`, the depth of
the static it waits for; who holds that guard waits for a static less deep, or
for the mutex, so a set of threads that wait for each other would have no least
rank.

**FunctionRegistry**, for any threads, names and functions.  `Pending`: a name being
registered is inserted, and empty.  `Carried`: what a thread has copied whole out of
an entry is the function of that entry.  `Calls`: so is what was called.

**LibraryModule**, for finite sets of handles and modules, and any
files of at most 99 functions (`ExportAssumption`).  `ModuleHeld`: a module that a handle leads to has not been
destroyed.  `Balanced`: `dlopen` has been called once for each module and for each
loader at work, as cardinalities; a step moves at most one of them.  `TypeOK` says that
a library is open at most as often as there are handles, for which `Referred` is
needed: a module that is there has a handle that refers to it.  So the modules of a
library go one to one into the handles that are not its loaders (`LoadsBounded`).

`EveryFunctionFound` is not true of every library.  `Readable` is what it takes: fewer than
ten functions, no two with the same class and name, no plain name that contains
`__`, and no class or method with an empty name; TLC checks that the libraries of
`SmallExports` are so.  `ReadLength` follows the count through decimal, octal and the
string: of fewer than ten names all are read, of ten to 99 never all.  `Entry` says that
the table has a position for just the names that were read, and `ParseRaw` that such
a name is taken apart into what it was put together of; the position found is then
the only one with that name.  `TenthIsLost` says that ten is exactly the limit: it
is the finding of `library_names` for any names.

**PyBridge**, for finite sets of threads, wrappers and objects and any bound on
arguments.  `Accounted` says of each object that its count is the wrappers, arguments,
results, threads' handles and lost references that refer to it.  `IInv` adds `FrameShape`
(which registers of a call are in use at each of its steps), `ArgsExist` (the arguments
converted so far are there) and `DeadIsEmpty` (an object that was deleted has no
members).  Each term of the sum is the cardinality of a set of places;
the lemmas `HandlesStep`, `OwnersStep`, `ArgumentsGrow`, `Dropped` and `ResultsStep` say how a
write to one place moves its term, and each action moves two terms, or a term and the
count.  `HandleLive` follows: what somebody refers to has a count above zero.

**ContainerHeap**, for any values, finite sets of objects and variables, and any
bound on the values in containers.  `CountMatches` is stated with the debts of the
statement in progress: `count + gain = names + elements + due + temps`.  It lacks two
things to be inductive: that a node which is referred to is there (`LiveIsCounted`: a
place is in use exactly if its counter is above zero), and that the value to be
counted last is already where it was written (`GainPlaced`), so that `Clean` cannot delete it.  The argument is one balance: `ElementsStep`
and `NamesStep` say by how much a write to one container, or one variable, moves the
number of places that refer to an object; `BeginInv` says that a statement keeps the balance
if what it copies covers what it leaves, owes and holds; and each operation of the
classes is shown to be such a write.  The copies must be made while what they
refer to is there, which the operands' being in variables gives.

**ContainerPromise**.  For `OnlyCyclesAreLost` each node that is lost and not deleted has
a counter above zero, hence is held, by a node that is lost too.  Of the finitely many
lost nodes that lead to it, take one that the fewest lead to (`CycleAmong`): what holds it leads
to it, is led to by as many, and so can be reached from it.  For `CountingIsUnseen` each
statement is the step of `PyHeap` it names: what can be reached is the same set in both
(`SightIs`, `Settles`).  Every step of `Clean` and `Counted` is a stutter, since a node that
is deleted is not in sight: by `CountMatches` nothing refers to it.

**NameTable**, for any names and any order of the calls.  `NumberAssumption`, that a
name with a number determines both, holds of decimal numbers behind an
underscore.  `Formed` says that every name is that of its variable, alone or with a
number up to the counter; so while no variable has a name that is another's
with a number (`NoneNumbered`), a new name is new in the whole function (`Distinct`).  In
every block, the present one and those around it, the names C++ knows are then those
of the variables in scope, each for its own variable (`Mirrors`), so looking up a name
and looking up a variable come to the same: `ok /\ meant <=> scoped`.  Whether a front
end declares and uses variables so that `scoped` holds is about its trees, and is
`NamesMeant`, which TLC checks.

**BlockReader**, for any text, and whatever is done with a block.  The input is the
text behind `Position`.  Whether a block is open behind a line (`OpenBehind`) depends on
that line and on whether one was open before it (`OpenStep`), which is what `multiline`
follows.  `PromptAsTyped` is not inductive: the block that is read next begins where the
last one was taken, so it must be known that none is open there while the block is
parsed and executed (`Closed`).  With it each line that is read at the prompt completes
a block exactly when the block is handed over (`HandsOver`), so no line that stands
for itself and no open block is passed over.  For a file, the line at `Filled(n)` of the block is line `n`
of the text: a cardinality that grows by one with each line that is not blank
(`FilledStep`), so a line that was collected keeps its place.

**Model-checked only.**  Liveness: that half of `KeepsPromise`, and `ReapsCompletely`,
`MutexReleased`, `Halts` and `BlocksEnd`.  And what is about trees: `FollowsScript`,
`CompiledFollows`, `NamesMeant`, `TypesKept` and the `TypeOK` of `ClassLowering`; `ReadsAsWritten`,
`CutWhereTooDeep`, `ReferenceIsRight` and `SameAnswers`.  Liveness under fairness and ENABLED
are beyond the prover, as are statements by induction over data and modules with
RECURSIVE operators: that is everything that extends `Script`, whose expressions and
statements are trees.  For the same reason it is by their shape, and not by a theorem,
that the actions of `ClassLowering` and `Interpreters` are actions of `NameTable` and
`BlockReader`, of which the theorems speak.

## Not modelled

Memory order (counters are sequentially consistent `std::atomic`), exceptions
from allocation, integer width, storage of key characters in the function
registry, function handles and numbers as arguments of the extension, creators
and callbacks that raise, `SystemLibrary` and closures of libraries.

Of the interpreters and parsers: floats, strings, characters (a token is what
the lexer returns), longer chains of comparisons than two, `pass`, several
classes, functions (`ParseModule`), the value printed when a script ends without
`return`.  A handle that is declared by `auto x = nullptr` and then assigned, types in
general in `PyFrontend` and `CodeGen` (their checks reject scripts, they change none),
and the process of the C++ compiler.

Of the containers: iterators, whose comparison consumes what it compares
(`iterator.h:148`) and which no script reaches; `Array` and `Map`, which hold the
nodes of a tree and never change once it is built; set operations, which neither
the evaluator nor generated code calls; the recursion of `FormatValue`, `Hash` and `==`
through a container that holds itself; `WithAttr`.

The printer, the registration of operators (a table filled at start-up with the
pattern of `FunctionRegistry`), the constructors of AST nodes and the visitors over
them are functions from a tree to a tree or a text; what the front ends and the
code generator do with the nodes is in their modules.

## Plan

1. **`PyBridge`.**  Creators and callbacks that raise, function handles as arguments;
   its composition with `ObjectRef`, so that conversions interleave with counts.
2. **Front ends.**  Types in `PyFrontend`, containers as values of scripts: the
   composition of `ClassLowering` with `ContainerHeap`.
3. **Iterators and `WithAttr`**, when code begins to use them beyond one owner.
