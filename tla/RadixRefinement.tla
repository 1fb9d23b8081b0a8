--------------------------- MODULE RadixRefinement ---------------------------
(***************************************************************************)
(* The radix tree as an implementation of PrefixCache.                     *)
(*                                                                         *)
(* The refinement mapping is kept in a variable, so that TLC computes it   *)
(* once a state and not at every mention in the abstract specification.    *)
(***************************************************************************)
EXTENDS RadixCache

VARIABLE represented    \* the trie and the prefixes its clients hold

MappedInit == Init /\ represented = Represented

MappedNext == Next /\ represented' = Represented'

MappedSpec == MappedInit /\ [][MappedNext]_<<vars, represented>>

Abstract == INSTANCE PrefixCache WITH
    cache  <- represented.cache,
    handle <- represented.handle

(* The radix tree implements the prefix cache: a split, a lock or a new     *)
(* time stamp is invisible, a match is the longest cached prefix, an insert *)
(* adds exactly the missing pages, an eviction leaves a trie and no locked  *)
(* prefix loses a page.                                                     *)
ImplementsPrefixCache == Abstract!Spec

=============================================================================
