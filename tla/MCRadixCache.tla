---------------------------- MODULE MCRadixCache ----------------------------
(* A small instance of RadixCache.  Inputs are built from two pages that   *)
(* agree in their first token, so that a walk can diverge inside a page,   *)
(* and may end in a token that does not fill a page.                       *)
EXTENDS RadixRefinement, TLC

A == <<0, 0>>
B == <<0, 1>>
Tail1 == <<0>>

UpToTwoPages == {<<>>} \cup {A, B} \cup {x \o y : x, y \in {A, B}}

MCInput == UpToTwoPages \cup {x \o Tail1 : x \in UpToTwoPages}
           \cup {A \o x \o y : x, y \in {A, B}}

Symmetry == Permutations(Client) \cup Permutations(Page)

=============================================================================
