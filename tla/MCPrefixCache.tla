--------------------------- MODULE MCPrefixCache ---------------------------
(* A small instance of PrefixCache: two clients, every sequence of up to   *)
(* MaxLen tokens as input.                                                 *)
EXTENDS PrefixCache, TLC

CONSTANT MaxLen

MCInput == UNION {[1..n -> Token] : n \in 0..MaxLen}

Symmetry == Permutations(Client) \cup Permutations(Page)

=============================================================================
