------------------------------- MODULE PyHeap -------------------------------
(***************************************************************************)
(* What docs/SYNTAX.md promises of lists, sets, dictionaries and tuples:   *)
(* names refer to containers, containers refer to one another, every alias *)
(* sees every change, and a container that can be reached from a name is   *)
(* there.  Nothing is said of counters or of memory: what can no longer be *)
(* reached is no longer part of the state.  ContainerHeap shows how        *)
(* container.h and McValue keep this.                                      *)
(***************************************************************************)
EXTENDS Integers, SequencesExt

CONSTANTS
  Objects,   \* identities of containers
  Vars,      \* names of the script
  Numbers,   \* values without identity
  None       \* None, and the value of a name before it is assigned

List(vs) == [kind |-> "list", body |-> vs]
Tuple(vs) == [kind |-> "tuple", body |-> vs]
Set(vs) == [kind |-> "set", body |-> vs]
Dict(f) == [kind |-> "dict", body |-> f]

\* The values a container holds; a dictionary holds its keys as well.
Held(con) ==
  CASE con.kind \in {"list", "tuple"} -> ToSet(con.body)
    [] con.kind = "set" -> con.body
    [] con.kind = "dict" -> DOMAIN con.body \cup {con.body[k] : k \in DOMAIN con.body}

\* The containers of c that can be reached from those in from: every set that
\* has these, and what is inside its own members, has them all.
Reach(from, c) ==
  {o \in Objects : \A S \in SUBSET Objects :
     /\ from \subseteq S
     /\ \A p \in S \cap DOMAIN c : Held(c[p]) \cap Objects \subseteq S
     => o \in S}

VARIABLES
  line,       \* the statement that was executed last, a tuple
  names,      \* the value of every name
  contents    \* the containers that can be reached

vars == <<line, names, contents>>

Init ==
  /\ line = <<"begin">>
  /\ names = [x \in Vars |-> None]
  /\ contents = [o \in {} |-> List(<<>>)]

\* The names become e and the containers c, less those nobody can reach.
Settle(e, c) ==
  /\ names' = e
  /\ contents' = [o \in Reach({e[x] : x \in Vars} \cap Objects, c) |-> c[o]]

\* x = v
Bind(x, v) == Settle([names EXCEPT ![x] = v], contents)

\* f with v at k.
With(f, k, v) == [j \in DOMAIN f \cup {k} |-> IF j = k THEN v ELSE f[j]]

\* x = a new container
New(x, con) ==
  \E o \in Objects \ DOMAIN contents : Settle([names EXCEPT ![x] = o], With(contents, o, con))

\* A dictionary display: of two equal keys the last one counts.
Display(pairs) ==
  Dict([k \in {p[1] : p \in ToSet(pairs)} |->
          LET last == CHOOSE i \in DOMAIN pairs :
                        pairs[i][1] = k /\ \A j \in (i + 1)..Len(pairs) : pairs[j][1] # k
          IN  pairs[last][2]])

\* The place in a container that k selects; negative numbers count from the end.
Place(con, k) ==
  IF con.kind = "dict" THEN k
  ELSE IF con.kind = "list" /\ k < 0 THEN k + Len(con.body) + 1 ELSE k + 1

\* The container at o, which a name leads to.
At(o) == {contents[p] : p \in {o} \cap DOMAIN contents}

\* o becomes con.
Change(o, con) == Settle(names, With(contents, o, con))

\* x = o[k], and o[k] = v: o has such a place, or is a dictionary and gets it.
Get(x, o, k) ==
  \E con \in At(o) : Place(con, k) \in DOMAIN con.body /\ Bind(x, con.body[Place(con, k)])
Put(o, k, v) ==
  \E con \in At(o) :
    /\ con.kind = "dict" \/ Place(con, k) \in DOMAIN con.body
    /\ Change(o, [kind |-> con.kind, body |-> With(con.body, Place(con, k), v)])

\* x = o.get(k, d)
GetOr(x, o, k, d) ==
  \E con \in At(o) :
    con.kind = "dict" /\ Bind(x, IF k \in DOMAIN con.body THEN con.body[k] ELSE d)

\* o.append(v), o.add(v), o.discard(v) and o.clear()
AppendTo(o, v) == \E con \in At(o) : con.kind = "list" /\ Change(o, List(Append(con.body, v)))
AddTo(o, v) == \E con \in At(o) : con.kind = "set" /\ Change(o, Set(con.body \cup {v}))
DiscardFrom(o, v) == \E con \in At(o) : con.kind = "set" /\ Change(o, Set(con.body \ {v}))
ClearAll(o) ==
  \E con \in At(o) : Change(o, [kind |-> con.kind, body |-> IF con.kind = "set" THEN {} ELSE <<>>])

Step ==
  \/ line'[1] = "bind" /\ Bind(line'[2], line'[3])
  \/ line'[1] = "list" /\ New(line'[2], List(line'[3]))
  \/ line'[1] = "tuple" /\ New(line'[2], Tuple(line'[3]))
  \/ line'[1] = "set" /\ New(line'[2], Set(ToSet(line'[3])))
  \/ line'[1] = "dict" /\ New(line'[2], Display(line'[3]))
  \/ line'[1] = "item" /\ Get(line'[2], line'[3], line'[4])
  \/ line'[1] = "put" /\ Put(line'[2], line'[3], line'[4])
  \/ line'[1] = "get" /\ GetOr(line'[2], line'[3], line'[4], line'[5])
  \/ line'[1] = "append" /\ AppendTo(line'[2], line'[3])
  \/ line'[1] = "add" /\ AddTo(line'[2], line'[3])
  \/ line'[1] = "discard" /\ DiscardFrom(line'[2], line'[3])
  \/ line'[1] = "clear" /\ ClearAll(line'[2])

Spec == Init /\ [][Step]_vars
=============================================================================
