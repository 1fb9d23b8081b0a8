------------------------- MODULE PrefixCacheProofs -------------------------
(***************************************************************************)
(* Proofs about PrefixCache, for any page size, any set of clients, pages  *)
(* and inputs.  The inductive invariant is Inv: that locked prefixes stay  *)
(* cached needs the cache to be a trie, because a client that locks a      *)
(* match locks all the pages before it, and needs types to know that a     *)
(* handle is a page-aligned prefix of some input.                          *)
(***************************************************************************)
EXTENDS PrefixCache, PrefixTrieProofs

-----------------------------------------------------------------------------
(* Types *)

LEMMA InputIsSeq ==
    ASSUME NEW ids \in Input
    PROVE  ids \in Seq(Token)
BY InputAssumption

LEMMA InitTypeOK == Init => TypeOK
<1> SUFFICES ASSUME Init PROVE TypeOK
  OBVIOUS
<1>1. cached = {} /\ cache \in [cached -> Page]
  BY DEF Init, cached
<1> QED
  BY <1>1 DEF Init, TypeOK

(* Every step keeps the types: what is cached and locked are page-aligned   *)
(* prefixes of inputs.                                                      *)
LEMMA NextTypeOK == TypeOK /\ [Next]_vars => TypeOK'
<1> SUFFICES ASSUME TypeOK, [Next]_vars PROVE TypeOK'
  OBVIOUS
<1> USE DEF TypeOK, cached
<1>1. ASSUME NEW c \in Client, NEW ids \in Input, Acquire(c, ids) PROVE TypeOK'
  BY <1>1 DEF Acquire, Prefix
<1>2. ASSUME NEW c \in Client, Release(c) PROVE TypeOK'
  BY <1>2 DEF Release
<1>3. ASSUME NEW c \in Client, NEW ids \in Input, NEW finished \in BOOLEAN,
             NEW pages \in FreshPages(ids), Store(c, ids, pages, finished)
      PROVE  TypeOK'
  <2>1. PagePrefixes(ids) \subseteq Prefix
    BY DEF Prefix
  <2>2. pages \in [PagePrefixes(ids) -> Page]
    BY DEF FreshPages
  <2>3. cache' = Merged(ids, pages)
    BY <1>3 DEF Store
  <2>4. /\ cached' = cached \cup PagePrefixes(ids)
        /\ cache' \in [cached' -> Page]
    BY <2>2, <2>3 DEF Merged
  <2>5. Aligned(ids) \in Prefix \cup {<<>>}
    BY <2>1, InputIsSeq, AlignedHasAllPages
  <2>6. handle' \in [Client -> Prefix \cup {<<>>, NoHandle}]
    BY <1>3, <2>5 DEF Store
  <2> QED
    BY <2>1, <2>4, <2>6
<1>4. ASSUME NEW V \in SUBSET cached, Evict(V) PROVE TypeOK'
  BY <1>4 DEF Evict
<1>5. CASE UNCHANGED vars
  BY <1>5 DEF vars
<1> QED
  BY <1>1, <1>2, <1>3, <1>4, <1>5 DEF Next

(* Type correctness of the prefix cache. *)
THEOREM TypeCorrect == Spec => []TypeOK
BY InitTypeOK, NextTypeOK, PTL DEF Spec

-----------------------------------------------------------------------------
(* Safety *)

CacheIsTrie == PrefixClosed(cached)

(* The inductive invariant. *)
Inv ==
    /\ TypeOK
    /\ CacheIsTrie
    /\ LockedStaysCached

(* What Store does to the set of cached prefixes and their pages. *)
LEMMA MergedCache ==
    ASSUME NEW ids \in Input, NEW pages \in FreshPages(ids), cache' = Merged(ids, pages)
    PROVE  /\ cached' = cached \cup PagePrefixes(ids)
           /\ \A p \in cached : cache'[p] = cache[p]
           /\ \A p \in PagePrefixes(ids) \ cached : cache'[p] = pages[p]
BY DEF Merged, cached

(* A stored sequence extends the trie by all the pages it needs. *)
LEMMA StoreKeepsTrie ==
    ASSUME CacheIsTrie, NEW ids \in Input, cached' = cached \cup PagePrefixes(ids)
    PROVE  CacheIsTrie'
<1>1. \A p \in PagePrefixes(ids) : PagePrefixes(p) \subseteq PagePrefixes(ids)
  BY InputIsSeq, PagePrefixesNest
<1> QED
  BY <1>1 DEF CacheIsTrie, PrefixClosed

LEMMA InitInv == Init => Inv
<1> SUFFICES ASSUME Init PROVE Inv
  OBVIOUS
<1>1. cached = {}
  BY DEF Init, cached
<1>2. TypeOK
  BY InitTypeOK
<1>3. LockedStaysCached
  BY DEF Init, LockedStaysCached
<1> QED
  BY <1>1, <1>2, <1>3 DEF Inv, CacheIsTrie, PrefixClosed

LEMMA NextInv == Inv /\ [Next]_vars => Inv'
<1> SUFFICES ASSUME Inv, [Next]_vars PROVE Inv'
  OBVIOUS
<1>1. TypeOK'
  BY NextTypeOK DEF Inv
<1>2. ASSUME NEW c \in Client, NEW ids \in Input, Acquire(c, ids)
      PROVE  CacheIsTrie' /\ LockedStaysCached'
  <2>1. cached' = cached
    BY <1>2 DEF Acquire, cached
  <2>2. CacheIsTrie'
    BY <2>1 DEF Inv, CacheIsTrie
  <2>3. PICK h \in PagePrefixes(ids) \cup {<<>>} :
          /\ IsMatch(cached, ids, h)
          /\ handle' = [handle EXCEPT ![c] = h]
    BY <1>2 DEF Acquire
  <2>4. PagePrefixes(h) \subseteq cached
    BY <2>3, NoPagePrefix DEF IsMatch, Inv, CacheIsTrie, PrefixClosed
  <2>5. LockedStaysCached'
    BY <2>1, <2>3, <2>4 DEF Inv, TypeOK, LockedStaysCached
  <2> QED
    BY <2>2, <2>5
<1>3. ASSUME NEW c \in Client, Release(c)
      PROVE  CacheIsTrie' /\ LockedStaysCached'
  <2>1. cached' = cached
    BY <1>3 DEF Release, cached
  <2>2. \A d \in Client : handle'[d] \in {handle[d], NoHandle}
    BY <1>3 DEF Release, Inv, TypeOK
  <2> QED
    BY <2>1, <2>2 DEF Inv, CacheIsTrie, LockedStaysCached
<1>4. ASSUME NEW c \in Client, NEW ids \in Input, NEW finished \in BOOLEAN,
             NEW pages \in FreshPages(ids), Store(c, ids, pages, finished)
      PROVE  CacheIsTrie' /\ LockedStaysCached'
  <2>1. /\ cached' = cached \cup PagePrefixes(ids)
        /\ \A p \in cached : cache'[p] = cache[p]
        /\ \A p \in PagePrefixes(ids) \ cached : cache'[p] = pages[p]
    BY <1>4, MergedCache DEF Store
  <2>2. CacheIsTrie'
    BY <2>1, StoreKeepsTrie DEF Inv
  <2>3. LockedStaysCached'
    <3>1. \A d \in Client : \/ handle'[d] \in {handle[d], NoHandle}
                            \/ d = c /\ handle'[d] = Aligned(ids)
      <4>1. handle' = [handle EXCEPT ![c] = IF finished THEN NoHandle ELSE Aligned(ids)]
        BY <1>4 DEF Store
      <4>2. \A d \in Client : d # c => handle'[d] = handle[d]
        BY <4>1 DEF Inv, TypeOK
      <4>3. handle'[c] \in {NoHandle, Aligned(ids)}
        BY <4>1 DEF Inv, TypeOK
      <4> QED
        BY <4>2, <4>3
    <3>2. PagePrefixes(Aligned(ids)) = PagePrefixes(ids)
      BY InputIsSeq, AlignedHasAllPages
    <3> QED
      BY <2>1, <3>1, <3>2 DEF Inv, LockedStaysCached
  <2> QED
    BY <2>2, <2>3
<1>5. ASSUME NEW V \in SUBSET cached, Evict(V)
      PROVE  CacheIsTrie' /\ LockedStaysCached'
  <2>1. /\ cached' = cached \ V
        /\ \A p \in cached' : cache'[p] = cache[p]
        /\ handle' = handle
    BY <1>5 DEF Evict, cached
  <2>2. CacheIsTrie'
    BY <1>5, <2>1 DEF Evict, Removable, CacheIsTrie
  <2>3. LockedStaysCached'
    BY <1>5, <2>1 DEF Evict, Removable, Protected, Inv, LockedStaysCached
  <2> QED
    BY <2>2, <2>3
<1>6. CASE UNCHANGED vars
  BY <1>6 DEF vars, cached, Inv, CacheIsTrie, LockedStaysCached, TypeOK
<1> QED
  BY <1>1, <1>2, <1>3, <1>4, <1>5, <1>6 DEF Next, Inv

(* The cache is always a trie, and no page under a locked handle is ever    *)
(* evicted.                                                                 *)
THEOREM Invariance == Spec => []Inv
BY InitInv, NextInv, PTL DEF Spec

(* base.py: "When a handle is locked, it cannot be evicted". *)
THEOREM LockedPrefixesStay == Spec => []LockedStaysCached
<1>1. Inv => LockedStaysCached
  BY DEF Inv
<1> QED
  BY <1>1, Invariance, PTL

=============================================================================
