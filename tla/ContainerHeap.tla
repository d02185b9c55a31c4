---------------------------- MODULE ContainerHeap ----------------------------
(***************************************************************************)
(* Containers as apps/interpreter_ast.cc uses them: ListNode, SetNode,     *)
(* DictNode and TupleNode of container.h hold McValues, an McValue that    *)
(* refers to a node counts as one reference, and a node whose last         *)
(* reference goes is deleted at once, with every value in it.              *)
(*                                                                         *)
(* A statement of the script begins with one action: its operands are      *)
(* copied into temporaries, and the container or the variable is written.  *)
(* Clean then releases the values that had to go, one at a time; Counted   *)
(* counts what the statement assigned, once the old value is gone, and the *)
(* temporaries are released last.  The next statement begins when nothing  *)
(* is left to do.  A statement that throws leaves everything as it was and *)
(* is not an action.  Numbers stand for every value without identity:      *)
(* int, float and str compare and hash by content.                         *)
(***************************************************************************)
EXTENDS Integers, Sequences, FiniteSets

CONSTANTS
  Objects,   \* memory for containers, used again when it is free
  Vars,      \* the variables in env_
  Numbers,   \* values without identity, integers
  None,      \* McValue() and a variable that is not in env_
  MaxSlots   \* bound: the values in all containers together

ASSUME FiniteAssumption == IsFiniteSet(Objects) /\ IsFiniteSet(Vars)
ASSUME ValueAssumption == Numbers \subseteq Int /\ Objects \cap (Numbers \cup {None}) = {}

VARIABLES
  line,      \* the statement that was executed last
  env,       \* env_
  kind,      \* the class of the node in each place, or "free"
  body,      \* data_: a sequence, a set or a function
  count,     \* count_
  due,       \* due[o]: McValues referring to o that are destroyed now
  gain,      \* gain[o]: those that are written and not counted yet
  temps,     \* temps[o]: the temporaries of the statement
  stale      \* whether a deleted node was ever touched

vars == <<line, env, kind, body, count, due, gain, temps, stale>>

ContainerKinds == {"list", "tuple", "set", "dict"}
Values == Numbers \cup Objects \cup {None}

\* The node in a place that is not used.
Nothing == <<>>

-----------------------------------------------------------------------------
(* References.  A bag says how many McValues refer to each object.         *)

\* How many of the McValues in the function or sequence vs refer to o.
Occurrences(o, vs) == Cardinality({i \in DOMAIN vs : vs[i] = o})
Bag(vs) == [o \in Objects |-> Occurrences(o, vs)]
Zero == [o \in Objects |-> 0]
Plus(a, b) == [o \in Objects |-> a[o] + b[o]]

\* The McValues in a container of kind k, by their place: the destructor of
\* the vector, set or map destroys them all.
Slots(k, b) ==
  CASE k \in {"list", "tuple"} -> b
    [] k = "set" -> [v \in b |-> v]
    [] k = "dict" -> [s \in {"key", "value"} \X DOMAIN b |-> IF s[1] = "key" THEN s[2] ELSE b[s[2]]]
    [] OTHER -> <<>>

Held(o) == Bag(Slots(kind[o], body[o]))

Init ==
  /\ line = <<"begin">>
  /\ env = [x \in Vars |-> None]
  /\ kind = [o \in Objects |-> "free"]
  /\ body = [o \in Objects |-> Nothing]
  /\ count = Zero
  /\ due = Zero /\ gain = Zero /\ temps = Zero
  /\ stale = FALSE

\* No statement is in progress.
Between == due = Zero /\ gain = Zero /\ temps = Zero

\* Clean: the counter of a node goes down; at zero the node is deleted, and
\* with it the values that are in it.
Clean(o) ==
  /\ due[o] > 0
  /\ count' = [count EXCEPT ![o] = @ - 1]
  /\ stale' = (stale \/ kind[o] = "free")
  /\ IF count[o] = 1
       THEN /\ due' = Plus([due EXCEPT ![o] = @ - 1], Held(o))
            /\ kind' = [kind EXCEPT ![o] = "free"]
            /\ body' = [body EXCEPT ![o] = Nothing]
       ELSE /\ due' = [due EXCEPT ![o] = @ - 1]
            /\ UNCHANGED <<kind, body>>
  /\ UNCHANGED <<line, env, gain, temps>>

\* operator= counts the new value when the old one is gone; then the
\* temporaries are destroyed.
Counted ==
  /\ due = Zero /\ ~Between
  /\ count' = Plus(count, gain)
  /\ stale' = (stale \/ \E o \in Objects : gain[o] > 0 /\ kind[o] = "free")
  /\ due' = temps /\ gain' = Zero /\ temps' = Zero
  /\ UNCHANGED <<line, env, kind, body>>

\* The statement st copies the values of the bag copies.  It assigns where the
\* values of old were, and those of new are now; its temporaries are ts.
Begin(st, copies, old, new, ts) ==
  /\ Between
  /\ line' = st
  /\ count' = Plus(count, copies)
  /\ stale' = (stale \/ \E o \in Objects : copies[o] > 0 /\ kind'[o] = "free")
  /\ due' = old /\ gain' = new /\ temps' = ts

\* x = v: EvalExpr returns a copy of v.  The temporaries others go before the
\* old value of x does; kept was copied to stay.
Result(st, x, v, kept, others) ==
  /\ env' = [env EXCEPT ![x] = v]
  /\ Begin(st, Plus(Plus(kept, others), Bag(<<v>>)), Plus(others, Bag(<<env[x]>>)), Bag(<<v>>), Bag(<<v>>))

\* x = v for a value that is there, found by means of the operands ts.
Fetch(st, x, v, ts) == UNCHANGED <<kind, body>> /\ Result(st, x, v, Zero, Bag(ts))

\* x = a new node.
Create(st, x, k, b, others) ==
  \E o \in Objects :
    /\ kind[o] = "free"
    /\ kind' = [kind EXCEPT ![o] = k]
    /\ body' = [body EXCEPT ![o] = b]
    /\ Result(st, x, o, Bag(Slots(k, b)), others)

\* An expression statement with the operands ts; copies are counted beside them.
Effect(st, ts, copies, old, new) ==
  UNCHANGED <<env, kind>> /\ Begin(st, Plus(Bag(ts), copies), old, new, Bag(ts))

-----------------------------------------------------------------------------
(* The classes of container.h, in a statement with the operands ts on the  *)
(* node at c.                                                              *)
Become(c, b) == body' = [body EXCEPT ![c] = b]

\* ListNode::at: a negative index counts from the end, and what is still
\* outside throws.
At(b, i) == {IF i < 0 THEN i + Len(b) + 1 ELSE i + 1} \cap DOMAIN b

PushBack(st, c, v) ==
  Become(c, Append(body[c], v)) /\ Effect(st, <<c, v>>, Bag(<<v>>), Zero, Zero)

\* Mutant of SetInsert: a value that is in the set is counted again.
SetInsertAgain(st, c, v) ==
  Become(c, body[c] \cup {v}) /\ Effect(st, <<c, v>>, Bag(<<v>>), Zero, Zero)

SetInsert(st, c, v) ==
  /\ Become(c, body[c] \cup {v})
  /\ Effect(st, <<c, v>>, IF v \in body[c] THEN Zero ELSE Bag(<<v>>), Zero, Zero)

\* Mutant of SetErase: the element is forgotten and not destroyed.
SetForget(st, c, v) ==
  Become(c, body[c] \ {v}) /\ Effect(st, <<c, v>>, Zero, Zero, Zero)

\* The element that equals v is destroyed.
SetErase(st, c, v) ==
  /\ Become(c, body[c] \ {v})
  /\ Effect(st, <<c, v>>, Zero, IF v \in body[c] THEN Bag(<<v>>) ELSE Zero, Zero)

\* The value at the place i of the list or dictionary c is assigned to.
Assign(st, c, k, i, v) ==
  Become(c, [body[c] EXCEPT ![i] = v]) /\ Effect(st, <<c, k, v>>, Zero, Bag(<<body[c][i]>>), Bag(<<v>>))

Extended(b, k, v) == [j \in DOMAIN b \cup {k} |-> IF j = k THEN v ELSE b[j]]

\* Mutant of DictInsert: emplace, which leaves the value that is there.
DictEmplace(st, c, k, v) ==
  IF k \in DOMAIN body[c] THEN UNCHANGED body /\ Effect(st, <<c, k, v>>, Zero, Zero, Zero)
  ELSE Become(c, Extended(body[c], k, v)) /\ Effect(st, <<c, k, v>>, Bag(<<k, v>>), Zero, Zero)

\* data_[key] = value: a key that is there stays, its value is assigned to.
DictInsert(st, c, k, v) ==
  IF k \in DOMAIN body[c] THEN Assign(st, c, k, k, v)
  ELSE Become(c, Extended(body[c], k, v)) /\ Effect(st, <<c, k, v>>, Bag(<<k, v>>), Zero, Zero)

\* Mutant of ClearNode: the elements are destroyed and then once more, as
\* ArrayNode::clear does it.
ClearNodeTwice(st, c, b) == Become(c, b) /\ Effect(st, <<c>>, Zero, Plus(Held(c), Held(c)), Zero)

ClearNode(st, c, b) == Become(c, b) /\ Effect(st, <<c>>, Zero, Held(c), Zero)

-----------------------------------------------------------------------------
(* Statements.  Operands are names of variables or literals.               *)
Operands == Numbers \cup ({env[y] : y \in Vars} \ {None})
Used == Cardinality(UNION {{o} \X DOMAIN Slots(kind[o], body[o]) : o \in Objects})
Room(n) == Used + n <= MaxSlots
Containers == {env[y] : y \in Vars} \cap Objects

Bind(x, v) == Fetch(<<"bind", x, v>>, x, v, <<>>)

\* The operands are copied into a vector, from there into the node.
ListLiteral(x, vs) == Room(Len(vs)) /\ Create(<<"list", x, vs>>, x, "list", vs, Bag(vs))
SetLiteral(x, vs) == Room(Len(vs)) /\ Create(<<"set", x, vs>>, x, "set", {vs[i] : i \in DOMAIN vs}, Bag(vs))

\* {k: vs[1], k: vs[2], ...}: each pair is evaluated and inserted before the
\* next, and the later values replace the earlier ones.
DictLiteral(x, k, vs) ==
  /\ Room(2)
  /\ LET n == Len(vs)
     IN  Create(<<"dict", x, [i \in 1..n |-> <<k, vs[i]>>]>>, x, "dict", [j \in {k} |-> vs[n]],
                Plus(Plus(Bag([i \in 1..n |-> k]), Bag(vs)), Bag([i \in 1..(n - 1) |-> vs[i]])))

\* x = c[k], where any index that is not there throws.
GetItem(x, c, k) ==
  \/ /\ kind[c] = "list" /\ k \in Numbers
     /\ \E i \in At(body[c], k) : Fetch(<<"item", x, c, k>>, x, body[c][i], <<c, k>>)
  \/ /\ kind[c] = "dict" /\ k \in DOMAIN body[c]
     /\ Fetch(<<"item", x, c, k>>, x, body[c][k], <<c, k>>)

\* c[k] = v
SetItem(c, k, v) ==
  \/ /\ kind[c] = "list" /\ k \in Numbers
     /\ \E i \in At(body[c], k) : Assign(<<"put", c, k, v>>, c, k, i, v)
  \/ /\ kind[c] = "dict"
     /\ k \in DOMAIN body[c] \/ Room(2)
     /\ DictInsert(<<"put", c, k, v>>, c, k, v)

\* c.append(v) and c.clear() of a list
ListAppend(c, v) == kind[c] = "list" /\ Room(1) /\ PushBack(<<"append", c, v>>, c, v)
ListClear(c) == kind[c] = "list" /\ ClearNode(<<"clear", c>>, c, <<>>)

\* c.add(v), c.discard(v) and c.clear() of a set
SetAdd(c, v) ==
  /\ kind[c] = "set"
  /\ v \in body[c] \/ Room(1)
  /\ SetInsert(<<"add", c, v>>, c, v)
SetDiscard(c, v) == kind[c] = "set" /\ SetErase(<<"discard", c, v>>, c, v)
SetClear(c) == kind[c] = "set" /\ ClearNode(<<"clear", c>>, c, {})

\* x = c.get(k, d), where d is None when it is not given, and c.clear()
DictGet(x, c, k, d) ==
  /\ kind[c] = "dict"
  /\ Fetch(<<"get", x, c, k, d>>, x, IF k \in DOMAIN body[c] THEN body[c][k] ELSE d, <<c, k, d>>)
DictClear(c) == kind[c] = "dict" /\ ClearNode(<<"clear", c>>, c, <<>>)

\* runtime.Tuple, which builds the node from a vector of copies, and
\* runtime.GetTupleField; a position outside is not checked there, and Python
\* passes none.
MakeTuple(x, vs) ==
  Room(Len(vs)) /\ Create(<<"tuple", x, vs>>, x, "tuple", vs, Plus(Bag(vs), Bag(vs)))
GetTupleField(x, c, i) ==
  /\ kind[c] = "tuple" /\ i + 1 \in DOMAIN body[c]
  /\ Fetch(<<"item", x, c, i>>, x, body[c][i + 1], <<c>>)

-----------------------------------------------------------------------------
\* Literals have at most two elements; what is larger is built by append and add.
Lists == UNION {[1..n -> Operands] : n \in 0..2}

Statement ==
  \/ \E x \in Vars, v \in Operands : Bind(x, v)
  \/ \E x \in Vars, vs \in Lists : ListLiteral(x, vs) \/ SetLiteral(x, vs) \/ MakeTuple(x, vs)
  \/ \E x \in Vars, k \in Operands, vs \in Lists \ {<<>>} : DictLiteral(x, k, vs)
  \/ \E x \in Vars, c \in Containers, k \in Operands :
       \/ GetItem(x, c, k)
       \/ \E d \in Operands \cup {None} : DictGet(x, c, k, d)
       \/ k \in Numbers /\ GetTupleField(x, c, k)
  \/ \E c \in Containers :
       \/ ListClear(c) \/ SetClear(c) \/ DictClear(c)
       \/ \E v \in Operands : ListAppend(c, v) \/ SetAdd(c, v) \/ SetDiscard(c, v)
       \/ \E k, v \in Operands : SetItem(c, k, v)

Next ==
  \/ Between /\ Statement
  \/ \E o \in Objects : Clean(o)
  \/ Counted

Spec == Init /\ [][Next]_vars

-----------------------------------------------------------------------------
(* Properties. *)

BodyOK(k, b) ==
  CASE k \in {"list", "tuple"} -> b \in Seq(Values)
    [] k = "set" -> b \subseteq Values /\ IsFiniteSet(b)
    [] k = "dict" -> IsFiniteSet(DOMAIN b) /\ DOMAIN b \subseteq Values /\ b \in [DOMAIN b -> Values]
    [] OTHER -> b = Nothing

\* Variables have values; a node has what its class says, and no place that is
\* free has anything.
TypeOK ==
  /\ env \in [Vars -> Values]
  /\ kind \in [Objects -> ContainerKinds \cup {"free"}]
  /\ body = [o \in Objects |-> body[o]]
  /\ \A o \in Objects : BodyOK(kind[o], body[o])
  /\ count \in [Objects -> Nat]
  /\ due \in [Objects -> Nat] /\ gain \in [Objects -> Nat] /\ temps \in [Objects -> Nat]
  /\ stale \in BOOLEAN

\* The variables, and the places in containers, that refer to o.
Names(o) == {x \in Vars : env[x] = o}
Elements(o) ==
  UNION {{p} \X {s \in DOMAIN Slots(kind[p], body[p]) : Slots(kind[p], body[p])[s] = o} : p \in Objects}

\* A node's counter is the number of variables and elements that refer to it,
\* also when one container holds another twice or itself, but for what the
\* statement in progress has still to count or to destroy; and no statement
\* touches a node that was deleted.
CountMatches ==
  /\ ~stale
  /\ \A o \in Objects :
       count[o] + gain[o] = Cardinality(Names(o)) + Cardinality(Elements(o)) + due[o] + temps[o]
=============================================================================
