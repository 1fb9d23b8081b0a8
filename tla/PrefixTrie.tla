----------------------------- MODULE PrefixTrie -----------------------------
(***************************************************************************)
(* The vocabulary shared by every module about the KV-cache: token         *)
(* sequences seen one page at a time.                                      *)
(*                                                                         *)
(* The radix cache matches, inserts and splits only at page boundaries, so *)
(* what it knows of a token sequence is the set of its page-aligned,       *)
(* non-empty prefixes.  A prefix stands for the page that holds the keys   *)
(* and values of its last PageSize tokens.                                 *)
(***************************************************************************)
EXTENDS Naturals, Sequences, FiniteSets

CONSTANT PageSize

ASSUME PageSizeAssumption == PageSize \in Nat \ {0}

(* A seeded fault, used by no specification: rounding is forgotten. *)
Aligned_None(ids) == ids

AlignDown(n) == PageSize * (n \div PageSize)

DivCeil(n) == (n + PageSize - 1) \div PageSize

(* The page-aligned non-empty prefixes of a token sequence. *)
PagePrefixes(ids) ==
    {SubSeq(ids, 1, PageSize * n) : n \in 1..(Len(ids) \div PageSize)}

(* What align_down leaves of a token sequence. *)
Aligned(ids) == SubSeq(ids, 1, AlignDown(Len(ids)))

(* A set of prefixes is a trie: with a page it has all pages before it. *)
PrefixClosed(S) == \A p \in S : PagePrefixes(p) \subseteq S

(* h is the longest prefix of ids that S has; <<>> is the root. *)
IsMatch(S, ids, h) ==
    /\ h \in PagePrefixes(ids) \cap S \/ h = <<>>
    /\ \A q \in PagePrefixes(ids) \cap S : Len(q) <= Len(h)

=============================================================================
