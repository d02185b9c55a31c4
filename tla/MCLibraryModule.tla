--------------------------- MODULE MCLibraryModule ---------------------------
(* Three libraries for LibraryModule. *)
EXTENDS LibraryModule, TLC

CONSTANTS math, big, bad

Plain(name) == [class |-> None, name |-> <<name>>]

\* Two functions and a class with a constructor and a method.
MathExports ==
  <<Plain("add"), Plain("mul"),
    [class |-> "C", name |-> <<"init", "">>], [class |-> "C", name |-> <<"get">>]>>

Letters == <<"a", "b", "c", "d", "e", "f", "g", "h", "i", "j", "k", "l">>

\* As many functions as a library may have before its count takes two digits,
\* and one more.
NineExports == [i \in 1..9 |-> Plain(Letters[i])]
TenExports == [i \in 1..10 |-> Plain(Letters[i])]

SmallExports == (math :> MathExports) @@ (big :> NineExports) @@ (bad :> <<Plain("a")>>)
LargeExports == (math :> MathExports) @@ (big :> TenExports) @@ (bad :> <<Plain("a")>>)

\* FunctionsAreFound is about libraries such as these.
ASSUME SmallAssumption == \A f \in {math, big, bad} : Readable(SmallExports[f])

Symmetry == Permutations(Modules) \cup Permutations(Handles)
=============================================================================
