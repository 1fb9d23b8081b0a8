-------------------------- MODULE PrefixTrieProofs --------------------------
(***************************************************************************)
(* Facts about token sequences seen one page at a time, for every page     *)
(* size: the arithmetic of pages, what the page prefixes of a prefix are,  *)
(* that there is always a longest match; and the sizes of finite sets and  *)
(* of sets of pairs, by which sums are taken.                              *)
(***************************************************************************)
EXTENDS PrefixTrie, SequenceTheorems, FiniteSetTheorems, FunctionTheorems,
        WellFoundedInduction, TLAPS

-----------------------------------------------------------------------------
(* Page arithmetic *)

(* Multiples of the page size: n pages fit into k tokens exactly when n is *)
(* at most what dividing by the page size gives.                           *)
LEMMA PageArithmetic ==
    ASSUME NEW n \in Nat, NEW k \in Nat
    PROVE  /\ PageSize * n \in Nat
           /\ k \div PageSize \in Nat
           /\ n <= k \div PageSize <=> PageSize * n <= k
           /\ (PageSize * n) \div PageSize = n
           /\ n >= 1 => PageSize * n >= 1
<1> USE PageSizeAssumption
<1> DEFINE d == k \div PageSize
<1>1. PageSize * n \in Nat /\ d \in Nat
  OBVIOUS
<1>2. PageSize * d <= k /\ k < PageSize * (d + 1)
  OBVIOUS
<1>3. n <= d => PageSize * n <= PageSize * d
  BY <1>1
<1>4. n >= d + 1 => PageSize * n >= PageSize * (d + 1)
  BY <1>1
<1>5. (PageSize * n) \div PageSize = n
  OBVIOUS
<1> QED
  BY <1>1, <1>2, <1>3, <1>4, <1>5

-----------------------------------------------------------------------------
(* Prefixes *)

(* A prefix of a prefix of a sequence. *)
LEMMA SubSeqOfPrefix ==
    ASSUME NEW S, NEW s \in Seq(S), NEW j \in 1..Len(s), NEW k \in 1..j
    PROVE  SubSeq(SubSeq(s, 1, j), 1, k) = SubSeq(s, 1, k)
<1>1. Len(s) \in Nat /\ 1 \in 1..Len(s)
  OBVIOUS
<1>2. 1 \in 1..(j - 1 + 1) /\ k \in 1..(j - 1 + 1)
  BY <1>1
<1>3. SubSeq(SubSeq(s, 1, j), 1, k) = SubSeq(s, 1 + 1 - 1, 1 + k - 1)
  BY <1>1, <1>2, SubSeqOfSubSeq
<1>4. 1 + 1 - 1 = 1 /\ 1 + k - 1 = k
  BY <1>1
<1> QED
  BY <1>3, <1>4

(* The prefix of n pages: what it is, and which prefixes it has itself. *)
LEMMA PagePrefixOfPages ==
    ASSUME NEW S, NEW ids \in Seq(S), NEW n \in 1..(Len(ids) \div PageSize),
           NEW p, p = SubSeq(ids, 1, PageSize * n)
    PROVE  /\ p \in Seq(S)
           /\ Len(p) = PageSize * n
           /\ PagePrefixes(p) = {SubSeq(ids, 1, PageSize * m) : m \in 1..n}
<1> USE PageSizeAssumption
<1>1. Len(ids) \in Nat /\ n \in Nat
  BY PageArithmetic
<1>2. PageSize * n \in 1..Len(ids)
  BY <1>1, PageArithmetic
<1>3. p \in Seq(S) /\ Len(p) = PageSize * n
  <2>1. \A i \in 1..(PageSize * n) : ids[i] \in S
    BY <1>2, ElementOfSeq
  <2> QED
    BY <2>1, <1>2, SubSeqProperties
<1>4. \A m \in 1..n : SubSeq(p, 1, PageSize * m) = SubSeq(ids, 1, PageSize * m)
  <2> TAKE m \in 1..n
  <2>1. PageSize * m \in 1..(PageSize * n)
    <3>1. m \in Nat /\ PageSize * n \in Nat /\ m >= 1
      BY <1>1, PageArithmetic
    <3>2. m <= (PageSize * n) \div PageSize
      BY <1>1, PageArithmetic
    <3>3. PageSize * m <= PageSize * n
      BY <3>1, <3>2, PageArithmetic
    <3>4. PageSize * m \in Nat /\ PageSize * m >= 1
      BY <3>1, PageArithmetic
    <3> QED
      BY <3>1, <3>3, <3>4
  <2> QED
    BY <2>1, <1>2, SubSeqOfPrefix
<1>5. Len(p) \div PageSize = n
  BY <1>1, <1>3, PageArithmetic
<1> QED
  BY <1>3, <1>4, <1>5 DEF PagePrefixes

(* A prefix of a prefix is a prefix. *)
LEMMA PagePrefixesNest ==
    ASSUME NEW S, NEW ids \in Seq(S), NEW p \in PagePrefixes(ids)
    PROVE  PagePrefixes(p) \subseteq PagePrefixes(ids)
<1> DEFINE Pages(n) == {SubSeq(ids, 1, PageSize * m) : m \in 1..n}
<1>1. PICK n \in 1..(Len(ids) \div PageSize) : p = SubSeq(ids, 1, PageSize * n)
  BY DEF PagePrefixes
<1>2. 1..n \subseteq 1..(Len(ids) \div PageSize)
  BY PageArithmetic
<1>3. ids \in Seq(S)
  OBVIOUS
<1>4. PagePrefixes(p) = Pages(n)
  <2> HIDE DEF Pages
  <2>1. \A q : q = SubSeq(ids, 1, PageSize * n) => PagePrefixes(q) = Pages(n)
    BY <1>3, PagePrefixOfPages, ZenonT(60) DEF Pages
  <2> QED
    BY <1>1, <2>1
<1>5. Pages(n) \subseteq PagePrefixes(ids)
  BY <1>2 DEF PagePrefixes
<1> QED
  BY <1>4, <1>5

(* The empty prefix, the root of the tree, has no page. *)
LEMMA NoPagePrefix ==
    PagePrefixes(<<>>) = {}
<1>1. 0 \div PageSize = 0
  BY PageSizeAssumption
<1> QED
  BY <1>1 DEF PagePrefixes

(* Rounding down to whole pages loses no page. *)
LEMMA AlignedHasAllPages ==
    ASSUME NEW S, NEW ids \in Seq(S)
    PROVE  /\ PagePrefixes(Aligned(ids)) = PagePrefixes(ids)
           /\ Aligned(ids) \in PagePrefixes(ids) \cup {<<>>}
<1> DEFINE n == Len(ids) \div PageSize
<1>1. n \in Nat
  BY PageArithmetic
<1>2. Aligned(ids) = SubSeq(ids, 1, PageSize * n)
  BY DEF Aligned, AlignDown
<1>3. CASE n = 0
  <2>1. Aligned(ids) = <<>>
    BY <1>2, <1>3, PageSizeAssumption, SubSeqEmpty
  <2>2. PagePrefixes(ids) = {}
    BY <1>3 DEF PagePrefixes
  <2> QED
    BY <2>1, <2>2, NoPagePrefix
<1>4. CASE n >= 1
  <2>1. n \in 1..n
    BY <1>1, <1>4
  <2>2. PagePrefixes(Aligned(ids)) = {SubSeq(ids, 1, PageSize * m) : m \in 1..n}
    BY <1>2, <2>1, PagePrefixOfPages, ZenonT(60)
  <2> QED
    BY <1>2, <2>1, <2>2 DEF PagePrefixes
<1> QED
  BY <1>1, <1>3, <1>4

-----------------------------------------------------------------------------
(* Matches *)

(* A bounded set of numbers has a greatest member: the distances to the     *)
(* bound have a least one.                                                  *)
LEMMA GreatestNat ==
    ASSUME NEW S, S \subseteq Nat, NEW b \in Nat, \A n \in S : n <= b, S # {}
    PROVE  \E m \in S : \A n \in S : n <= m
<1> DEFINE T == {b - n : n \in S}
           R == OpToRel(<, Nat)
<1>1. T \subseteq Nat /\ T # {}
  <2>1. PICK s \in S : TRUE
    OBVIOUS
  <2>2. b - s \in T
    OBVIOUS
  <2>3. \A n \in S : b - n \in Nat
    OBVIOUS
  <2> QED
    BY <2>2, <2>3
<1>2. IsWellFoundedOn(R, Nat)
  BY NatLessThanWellFounded
<1>3. PICK x \in T : \A y \in T : ~ (<<y, x>> \in R)
  <2> HIDE DEF R, T
  <2> QED
    BY <1>1, <1>2, WFMin
<1>4. \A y \in T : y >= x
  <2> TAKE y \in T
  <2>1. x \in Nat /\ y \in Nat
    BY <1>1
  <2>2. <<y, x>> \notin R
    BY <1>3
  <2>3. <<y, x>> \in R <=> y < x
    <3> HIDE DEF T
    <3> QED
      BY <2>1 DEF OpToRel
  <2> HIDE DEF R, T
  <2> QED
    BY <2>1, <2>2, <2>3
<1>5. PICK m \in S : x = b - m
  OBVIOUS
<1>6. \A n \in S : b - n >= b - m
  BY <1>4, <1>5
<1> QED
  BY <1>6

(* Whatever is cached, every sequence has a longest match. *)
LEMMA MatchExists ==
    ASSUME NEW T, NEW ids \in Seq(T), NEW S
    PROVE  \E h \in PagePrefixes(ids) \cup {<<>>} : IsMatch(S, ids, h)
<1> DEFINE Found == PagePrefixes(ids) \cap S
           Lengths == {Len(p) : p \in Found}
<1>1. CASE Found = {}
  BY <1>1 DEF IsMatch
<1>2. CASE Found # {}
  <2>1. \A p \in Found : Len(p) \in Nat /\ Len(p) <= Len(ids)
    <3> TAKE p \in Found
    <3>1. PICK n \in 1..(Len(ids) \div PageSize) : p = SubSeq(ids, 1, PageSize * n)
      BY DEF PagePrefixes
    <3>2. n \in Nat /\ Len(ids) \in Nat
      BY PageArithmetic
    <3>3. Len(p) = PageSize * n
      BY <3>1, PagePrefixOfPages
    <3> QED
      BY <3>2, <3>3, PageArithmetic
  <2>2. PICK m \in Lengths : \A n \in Lengths : n <= m
    <3>1. Lengths \subseteq Nat /\ \A n \in Lengths : n <= Len(ids)
      BY <2>1
    <3>2. Lengths # {}
      <4>1. PICK p \in Found : TRUE
        BY <1>2
      <4> QED
        BY <4>1
    <3>3. Len(ids) \in Nat
      OBVIOUS
    <3> HIDE DEF Lengths
    <3> QED
      BY <3>1, <3>2, <3>3, GreatestNat
  <2>3. PICK h \in Found : m = Len(h)
    OBVIOUS
  <2>4. \A q \in Found : Len(q) <= Len(h)
    BY <2>2, <2>3
  <2> QED
    BY <2>3, <2>4 DEF IsMatch
<1> QED
  BY <1>1, <1>2

-----------------------------------------------------------------------------
(* Counting *)

(* Natural numbers have a least one. *)
LEMMA LeastNatural ==
    ASSUME NEW S, S \subseteq Nat, S # {}
    PROVE  \E n \in S : \A m \in S : n <= m
<1> DEFINE R == {ss \in Nat \X Nat : ss[1] < ss[2]}
<1>1. IsWellFoundedOn(R, Nat)
  <2>1. R = OpToRel(<, Nat)
    BY Zenon DEF OpToRel
  <2> QED
    BY <2>1, NatLessThanWellFounded, Zenon
<1>2. PICK n \in S : \A m \in S : <<m, n>> \notin R
  <2> HIDE DEF R
  <2> QED
    BY <1>1, WFMin
<1>3. ASSUME NEW m \in S PROVE n <= m
  <2>1. n \in Nat /\ m \in Nat /\ <<m, n>> \notin R
    BY <1>2
  <2> QED
    BY ONLY <2>1
<1> QED
  BY <1>3

(* An image is no larger than the set. *)
LEMMA ImageCount ==
    ASSUME NEW S, IsFiniteSet(S), NEW f, f = [x \in S |-> f[x]]
    PROVE  /\ IsFiniteSet({f[x] : x \in S})
           /\ Cardinality({f[x] : x \in S}) \in Nat
           /\ Cardinality({f[x] : x \in S}) <= Cardinality(S)
<1> DEFINE T == {f[x] : x \in S}
<1>1. f \in [S -> T] /\ \A t \in T : \E s \in S : f[s] = t
  OBVIOUS
<1> HIDE DEF T
<1>2. f \in Surjection(S, T)
  BY <1>1, Fun_IsSurj
<1>3. IsFiniteSet(T) /\ Cardinality(T) <= Cardinality(S)
  BY <1>2, FS_Surjection
<1>4. Cardinality(T) \in Nat
  BY <1>3, FS_CardinalityType
<1> QED
  BY <1>3, <1>4 DEF T

(* Nor is a union larger than its parts. *)
LEMMA UnionCount ==
    ASSUME NEW A, IsFiniteSet(A), NEW B, IsFiniteSet(B)
    PROVE  /\ IsFiniteSet(A \cup B) /\ Cardinality(A \cup B) \in Nat
           /\ Cardinality(A) \in Nat /\ Cardinality(B) \in Nat
           /\ Cardinality(A \cup B) <= Cardinality(A) + Cardinality(B)
           /\ A \cap B = {} => Cardinality(A \cup B) = Cardinality(A) + Cardinality(B)
<1>1. /\ IsFiniteSet(A \cup B)
      /\ Cardinality(A \cup B) = Cardinality(A) + Cardinality(B) - Cardinality(A \cap B)
  BY FS_Union
<1>2. IsFiniteSet(A \cap B)
  BY FS_Intersection
<1>3. /\ Cardinality(A) \in Nat /\ Cardinality(B) \in Nat /\ Cardinality(A \cap B) \in Nat
      /\ Cardinality(A \cup B) \in Nat
  BY <1>1, <1>2, FS_CardinalityType
<1>4. A \cap B = {} => Cardinality(A \cap B) = 0
  BY FS_EmptySet
<1> QED
  BY <1>1, <1>3, <1>4

(* The elements between two numbers. *)
LEMMA IntervalCount ==
    ASSUME NEW lo \in Nat, NEW hi \in Nat, lo <= hi
    PROVE  /\ IsFiniteSet(lo..(hi - 1)) /\ Cardinality(lo..(hi - 1)) = hi - lo
           /\ lo..(hi - 1) \subseteq Nat
<1>1. /\ IsFiniteSet(lo..(hi - 1))
      /\ Cardinality(lo..(hi - 1)) = IF lo > hi - 1 THEN 0 ELSE (hi - 1) - lo + 1
  BY FS_Interval
<1> QED
  BY <1>1

(* The members of L, each paired with each of what E gives it. *)
Pairs(L, E) == UNION {{r} \X E[r] : r \in L}

PartOf(r, L, E) == IF r \in L THEN E[r] ELSE {}

(* One element paired with each of a set. *)
LEMMA PairCount ==
    ASSUME NEW r, NEW A, IsFiniteSet(A)
    PROVE  IsFiniteSet({r} \X A) /\ Cardinality({r} \X A) = Cardinality(A)
<1>1. IsFiniteSet({r}) /\ Cardinality({r}) = 1
  BY FS_Singleton
<1>2. IsFiniteSet({r} \X A) /\ Cardinality({r} \X A) = Cardinality({r}) * Cardinality(A)
  BY <1>1, FS_Product
<1>3. Cardinality(A) \in Nat
  BY FS_CardinalityType
<1> QED
  BY <1>1, <1>2, <1>3

(* Pairs of members and of what each has, when one member changes. *)
LEMMA PairsOfOne ==
    ASSUME NEW L, IsFiniteSet(L), NEW f, \A s \in L : IsFiniteSet(f[s]),
           NEW M, IsFiniteSet(M), NEW g, \A s \in M : IsFiniteSet(g[s]),
           NEW r, L \ {r} = M \ {r}, \A s \in L \ {r} : g[s] = f[s]
    PROVE  /\ Cardinality(Pairs(L, f)) \in Nat /\ Cardinality(Pairs(M, g)) \in Nat
           /\ Cardinality(Pairs(M, g)) + Cardinality(PartOf(r, L, f))
                = Cardinality(Pairs(L, f)) + Cardinality(PartOf(r, M, g))
<1> PICK H : H = Pairs(L, f)
  OBVIOUS
<1> PICK G : G = Pairs(M, g)
  OBVIOUS
<1> PICK a : a = PartOf(r, L, f)
  OBVIOUS
<1> PICK b : b = PartOf(r, M, g)
  OBVIOUS
<1>0. a = (IF r \in L THEN f[r] ELSE {}) /\ b = IF r \in M THEN g[r] ELSE {}
  BY DEF PartOf
<1> USE <1>0
<1> PICK K : K = L \ {r}
  OBVIOUS
<1> PICK c : c = [s \in K |-> {s} \X f[s]]
  OBVIOUS
<1> PICK R : R = UNION {c[s] : s \in K}
  OBVIOUS
<1>1. IsFiniteSet(R)
  <2>1. IsFiniteSet(K)
    BY FS_RemoveElement
  <2>2. IsFiniteSet({c[s] : s \in K})
    <3>1. c = [s \in K |-> c[s]]
      OBVIOUS
    <3> QED
      BY ONLY <2>1, <3>1, ImageCount
  <2>3. \A s \in K : IsFiniteSet(c[s])
    BY PairCount
  <2> QED
    BY <2>2, <2>3, FS_UNION, ZenonT(60)
<1>2. /\ IsFiniteSet(a) /\ IsFiniteSet({r} \X a) /\ Cardinality({r} \X a) = Cardinality(a)
      /\ IsFiniteSet(b) /\ IsFiniteSet({r} \X b) /\ Cardinality({r} \X b) = Cardinality(b)
  <2>1. IsFiniteSet(a) /\ IsFiniteSet(b)
    BY FS_EmptySet
  <2> QED
    BY ONLY <2>1, PairCount
<1>3. R \cap ({r} \X a) = {} /\ R \cap ({r} \X b) = {}
  OBVIOUS
<1>4. H = R \cup ({r} \X a)
  BY DEF Pairs
<1>5. G = R \cup ({r} \X b)
  BY DEF Pairs
<1>6. /\ IsFiniteSet(H) /\ Cardinality(H) \in Nat /\ Cardinality(R) \in Nat
      /\ Cardinality({r} \X a) \in Nat
      /\ Cardinality(H) = Cardinality(R) + Cardinality({r} \X a)
  BY ONLY <1>1, <1>2, <1>3, <1>4, UnionCount
<1>7. /\ IsFiniteSet(G) /\ Cardinality(G) \in Nat /\ Cardinality({r} \X b) \in Nat
      /\ Cardinality(G) = Cardinality(R) + Cardinality({r} \X b)
  BY ONLY <1>1, <1>2, <1>3, <1>5, UnionCount
<1>8. /\ Cardinality(H) \in Nat /\ Cardinality(G) \in Nat
      /\ Cardinality(G) + Cardinality(a) = Cardinality(H) + Cardinality(b)
  BY ONLY <1>2, <1>6, <1>7
<1> QED
  BY ONLY <1>8, H = Pairs(L, f), G = Pairs(M, g), a = PartOf(r, L, f), b = PartOf(r, M, g)

(* Pairs can be counted too. *)
LEMMA PairsCount ==
    ASSUME NEW L, IsFiniteSet(L), NEW E, \A r \in L : IsFiniteSet(E[r])
    PROVE  IsFiniteSet(Pairs(L, E)) /\ Cardinality(Pairs(L, E)) \in Nat
<1> PICK c : c = [r \in L |-> {r} \X E[r]]
  OBVIOUS
<1>1. \A r \in L : IsFiniteSet(c[r])
  BY PairCount
<1>2. IsFiniteSet({c[r] : r \in L})
  <2>1. c = [r \in L |-> c[r]]
    OBVIOUS
  <2> QED
    BY ONLY <2>1, IsFiniteSet(L), ImageCount
<1>3. Pairs(L, E) = UNION {c[r] : r \in L}
  BY DEF Pairs
<1> QED
  BY <1>1, <1>2, <1>3, FS_UNION, FS_CardinalityType

(* A sum taken element by element, in whatever order, counts the pairs. *)
Recurs(it, L, E) ==
    it = [s \in SUBSET L |->
            IF s = {} THEN 0
            ELSE Cardinality(E[CHOOSE x \in s : TRUE]) + it[s \ {CHOOSE x \in s : TRUE}]]

(* That sum exists: the sizes of the pairs are one. *)
LEMMA PairsRecur ==
    ASSUME NEW L, IsFiniteSet(L), NEW E, \A r \in L : IsFiniteSet(E[r])
    PROVE  Recurs([s \in SUBSET L |-> Cardinality(Pairs(s, E))], L, E)
<1> PICK g : g = [s \in SUBSET L |-> Cardinality(Pairs(s, E))]
  OBVIOUS
<1>1. Pairs({}, E) = {} /\ Cardinality({}) = 0
  BY FS_EmptySet DEF Pairs
<1>2. ASSUME NEW s \in SUBSET L, s # {}
      PROVE  g[s] = Cardinality(E[CHOOSE x \in s : TRUE]) + g[s \ {CHOOSE x \in s : TRUE}]
  <2>0. PICK x : x = CHOOSE y \in s : TRUE
    BY ONLY TRUE
  <2> PICK t : t = s \ {x}
    OBVIOUS
  <2>1. x \in s /\ t \in SUBSET L
    BY <1>2, <2>0
  <2>2. IsFiniteSet(s) /\ IsFiniteSet(t) /\ \A r \in s : IsFiniteSet(E[r])
    BY <2>1, FS_Subset
  <2>3. /\ Cardinality(Pairs(s, E)) \in Nat /\ Cardinality(Pairs(t, E)) \in Nat
        /\ Cardinality(Pairs(t, E)) + Cardinality(PartOf(x, s, E))
            = Cardinality(Pairs(s, E)) + Cardinality(PartOf(x, t, E))
    <3>1. s \ {x} = t \ {x} /\ \A y \in t : IsFiniteSet(E[y])
      BY <2>1, <2>2
    <3> QED
      BY ONLY <2>2, <3>1, PairsOfOne
  <2>4. PartOf(x, s, E) = E[x] /\ PartOf(x, t, E) = {}
    BY <2>1 DEF PartOf
  <2>5. Cardinality(E[x]) \in Nat
    BY <2>1, <2>2, FS_CardinalityType
  <2>6. g[s] = Cardinality(E[x]) + g[t]
    <3>1. g[s] = Cardinality(Pairs(s, E)) /\ g[t] = Cardinality(Pairs(t, E))
      BY <2>1
    <3>2. Cardinality(Pairs(t, E)) + Cardinality(E[x]) = Cardinality(Pairs(s, E)) + 0
      BY <1>1, <2>3, <2>4
    <3> QED
      BY ONLY <2>3, <2>5, <3>1, <3>2
  <2> QED
    BY <2>0, <2>6
<1>3. g = [s \in SUBSET L |->
            IF s = {} THEN 0
            ELSE Cardinality(E[CHOOSE x \in s : TRUE]) + g[s \ {CHOOSE x \in s : TRUE}]]
  <2>1. ASSUME NEW s \in SUBSET L
        PROVE  g[s] = IF s = {} THEN 0
                ELSE Cardinality(E[CHOOSE x \in s : TRUE]) + g[s \ {CHOOSE x \in s : TRUE}]
    <3>1. CASE s = {}
      BY <1>1, <3>1
    <3>2. CASE s # {}
      BY <1>2, <3>2
    <3> QED
      BY <3>1, <3>2
  <2> QED
    BY <2>1
<1> QED
  BY <1>3 DEF Recurs

(* And it is the only one. *)
LEMMA RecurrenceIsCount ==
    ASSUME NEW L, IsFiniteSet(L), NEW E, \A r \in L : IsFiniteSet(E[r]),
           NEW it, Recurs(it, L, E)
    PROVE  it[L] = Cardinality(Pairs(L, E))
<1> PICK g : g = [s \in SUBSET L |-> Cardinality(Pairs(s, E))]
  OBVIOUS
<1>1. Recurs(g, L, E)
  BY PairsRecur
<1> DEFINE Wrong == {s \in SUBSET L : it[s] # g[s]}
<1> DEFINE Sizes == {Cardinality(s) : s \in Wrong}
<1>2. \A s \in SUBSET L : IsFiniteSet(s) /\ Cardinality(s) \in Nat
  BY FS_Subset, FS_CardinalityType
<1>3. SUFFICES ASSUME Wrong # {} PROVE FALSE
  BY DEF Recurs
<1>4. Sizes \subseteq Nat /\ Sizes # {}
  BY <1>2, <1>3
<1>5. PICK n \in Sizes : \A m \in Sizes : n <= m
  <2> HIDE DEF Sizes
  <2> QED
    BY <1>4, LeastNatural
<1>6. PICK s \in Wrong : Cardinality(s) = n
  BY <1>5
<1>7. s # {}
  BY <1>1, <1>6 DEF Recurs
<1> PICK x : x = CHOOSE y \in s : TRUE
  OBVIOUS
<1> PICK t : t = s \ {x}
  OBVIOUS
<1>8. x \in s /\ s \in SUBSET L /\ t \in SUBSET L
  BY <1>6, <1>7
<1>9. Cardinality(t) \in Nat /\ n \in Nat /\ Cardinality(t) < n
  <2>1. IsFiniteSet(s)
    BY <1>2, <1>8
  <2>2. Cardinality(t) = Cardinality(s) - 1
    BY <1>8, <2>1, FS_RemoveElement
  <2> QED
    BY <1>2, <1>6, <1>8, <2>2
<1>10. t \notin Wrong
  <2>1. SUFFICES ASSUME t \in Wrong PROVE FALSE
    OBVIOUS
  <2>2. Cardinality(t) \in Sizes
    BY <2>1
  <2> QED
    <3> HIDE DEF Sizes
    <3>1. n <= Cardinality(t)
      BY <1>5, <2>2
    <3> QED
      BY ONLY <1>9, <3>1
<1>11. it[s] = Cardinality(E[x]) + it[t] /\ g[s] = Cardinality(E[x]) + g[t]
  BY <1>1, <1>7, <1>8 DEF Recurs
<1> QED
  BY <1>6, <1>8, <1>10, <1>11

=============================================================================
