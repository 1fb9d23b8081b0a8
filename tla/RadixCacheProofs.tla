-------------------------- MODULE RadixCacheProofs --------------------------
(***************************************************************************)
(* Proofs about RadixCache, for any clients, tokens, pages, page size and  *)
(* inputs.                                                                 *)
(*                                                                         *)
(* What a node stands for is defined along its path to the root.  That     *)
(* this is well defined is part of the invariant: every step that changes  *)
(* the tree says what the paths, keys and values of the new tree are, and  *)
(* as keys grow along a path there is only one answer (OnTree).            *)
(***************************************************************************)
EXTENDS RadixRefinement, PrefixTrieProofs

Nodes(tree) == DOMAIN tree \ {Root}

Node == [parent : Nat, key : Seq(Token), value : Seq(Page), ref_count : Nat, time : Nat]

(* What is defined along the paths of a tree: the tokens, the pages, the nodes. *)
IsKeys(tree, f) ==
    f = [m \in DOMAIN tree |-> IF m = Root THEN <<>> ELSE f[tree[m].parent] \o tree[m].key]

IsValues(tree, f) ==
    f = [m \in DOMAIN tree |-> IF m = Root THEN <<>> ELSE f[tree[m].parent] \o tree[m].value]

IsPaths(tree, f) ==
    f = [m \in DOMAIN tree |-> IF m = Root THEN {} ELSE {m} \cup f[tree[m].parent]]

(* Each node but the root has a parent and a key of whole pages. *)
Linked(tree) ==
    /\ IsFiniteSet(DOMAIN tree) /\ DOMAIN tree \subseteq Nat /\ Root \in DOMAIN tree
    /\ tree \in [DOMAIN tree -> Node]
    /\ tree[Root].ref_count = 1
    /\ \A n \in Nodes(tree) :
          /\ tree[n].parent \in DOMAIN tree
          /\ tree[n].key # <<>>
          /\ Len(tree[n].key) = PageSize * Len(tree[n].value)

(* And is reached from the root. *)
IsTree(tree) ==
    /\ Linked(tree)
    /\ \E f \in [DOMAIN tree -> Seq(Token)] : IsKeys(tree, f)
    /\ \E f \in [DOMAIN tree -> Seq(Page)] : IsValues(tree, f)
    /\ \E f \in [DOMAIN tree -> SUBSET Nodes(tree)] : IsPaths(tree, f)

-----------------------------------------------------------------------------
(* Trees *)

(* What holds of the root, and of a node when of its parent, holds of all nodes: *)
(* of the nodes without it, one with the shortest key would have a parent with   *)
(* it.                                                                           *)
LEMMA OnTree ==
    ASSUME NEW tree, IsTree(tree), NEW S, Root \in S,
           \A n \in Nodes(tree) : tree[n].parent \in S => n \in S
    PROVE  DOMAIN tree \subseteq S
<1> SUFFICES ASSUME ~(DOMAIN tree \subseteq S) PROVE FALSE
  OBVIOUS
<1> PICK f \in [DOMAIN tree -> Seq(Token)] : IsKeys(tree, f)
  BY DEF IsTree
<1> DEFINE Out == DOMAIN tree \ S
<1> DEFINE Lens == {Len(f[n]) : n \in Out}
<1>1. Lens \subseteq Nat /\ Lens # {}
  <2>1. \A n \in DOMAIN tree : Len(f[n]) \in Nat
    OBVIOUS
  <2> QED
    BY <2>1
<1>2. PICK l \in Lens : \A k \in Lens : l <= k
  <2> HIDE DEF Lens
  <2> QED
    BY <1>1, LeastNatural
<1>3. PICK n \in Out : Len(f[n]) = l
  BY <1>2
<1> PICK p : p = tree[n].parent
  OBVIOUS
<1> PICK key : key = tree[n].key
  OBVIOUS
<1>4. n \in Nodes(tree) /\ p \in DOMAIN tree /\ key \in Seq(Token) /\ key # <<>>
  BY <1>3 DEF IsTree, Linked, Nodes, Node
<1>5. f[n] = f[p] \o key
  BY <1>4 DEF IsKeys, Nodes
<1>6. Len(f[p]) \in Nat /\ Len(f[p]) < l
  <2>1. f[p] \in Seq(Token)
    BY <1>4
  <2>2. Len(f[p] \o key) = Len(f[p]) + Len(key) /\ Len(f[p]) \in Nat
    BY <1>4, <2>1, ConcatProperties, LenProperties
  <2>3. Len(key) \in Nat \ {0}
    BY <1>4, EmptySeq
  <2>4. l = Len(f[p]) + Len(key)
    BY <1>3, <1>5, <2>2
  <2> QED
    BY ONLY <2>2, <2>3, <2>4
<1>7. p \notin S
  BY <1>3, <1>4
<1>8. l <= Len(f[p])
  BY <1>2, <1>4, <1>7
<1> QED
  BY <1>1, <1>2, <1>6, <1>8

(* So there is one answer. *)
LEMMA KeysAre ==
    ASSUME NEW tree, IsTree(tree), NEW f, IsKeys(tree, f)
    PROVE  \A n \in DOMAIN tree : PathKey(tree, n) = f[n]
<1> PICK g : g = CHOOSE h : IsKeys(tree, h)
  OBVIOUS
<1>1. \A n : PathKey(tree, n) = g[n]
  BY DEF PathKey, IsKeys
<1>2. IsKeys(tree, g)
  <2>1. \E h : IsKeys(tree, h)
    OBVIOUS
  <2> QED
    BY ONLY <2>1, g = (CHOOSE h : IsKeys(tree, h))
<1> DEFINE S == {n \in DOMAIN tree : g[n] = f[n]}
<1>3. Root \in DOMAIN tree /\ \A n \in Nodes(tree) : tree[n].parent \in DOMAIN tree
  BY DEF IsTree, Linked
<1>4. Root \in S
  BY <1>2, <1>3 DEF IsKeys
<1>5. ASSUME NEW n \in Nodes(tree), tree[n].parent \in S
      PROVE  n \in S
  <2>1. n \in DOMAIN tree /\ n # Root
    BY DEF Nodes
  <2>2. g[tree[n].parent] = f[tree[n].parent]
    BY <1>5
  <2>3. \A h : IsKeys(tree, h) => h[n] = h[tree[n].parent] \o tree[n].key
    BY <2>1 DEF IsKeys
  <2>4. g[n] = f[n]
    BY <1>2, <2>2, <2>3, Zenon
  <2> QED
    BY <2>1, <2>4
<1>6. DOMAIN tree \subseteq S
  <2> HIDE DEF S
  <2> QED
    BY <1>4, <1>5, OnTree
<1> QED
  BY <1>1, <1>6

LEMMA ValuesAre ==
    ASSUME NEW tree, IsTree(tree), NEW f, IsValues(tree, f)
    PROVE  \A n \in DOMAIN tree : PathValue(tree, n) = f[n]
<1> PICK g : g = CHOOSE h : IsValues(tree, h)
  OBVIOUS
<1>1. \A n : PathValue(tree, n) = g[n]
  BY DEF PathValue, IsValues
<1>2. IsValues(tree, g)
  <2>1. \E h : IsValues(tree, h)
    OBVIOUS
  <2> QED
    BY ONLY <2>1, g = (CHOOSE h : IsValues(tree, h))
<1> DEFINE S == {n \in DOMAIN tree : g[n] = f[n]}
<1>3. Root \in DOMAIN tree /\ \A n \in Nodes(tree) : tree[n].parent \in DOMAIN tree
  BY DEF IsTree, Linked
<1>4. Root \in S
  BY <1>2, <1>3 DEF IsValues
<1>5. ASSUME NEW n \in Nodes(tree), tree[n].parent \in S
      PROVE  n \in S
  <2>1. n \in DOMAIN tree /\ n # Root
    BY DEF Nodes
  <2>2. g[tree[n].parent] = f[tree[n].parent]
    BY <1>5
  <2>3. \A h : IsValues(tree, h) => h[n] = h[tree[n].parent] \o tree[n].value
    BY <2>1 DEF IsValues
  <2>4. g[n] = f[n]
    BY <1>2, <2>2, <2>3, Zenon
  <2> QED
    BY <2>1, <2>4
<1>6. DOMAIN tree \subseteq S
  <2> HIDE DEF S
  <2> QED
    BY <1>4, <1>5, OnTree
<1> QED
  BY <1>1, <1>6

LEMMA PathsAre ==
    ASSUME NEW tree, IsTree(tree), NEW f, IsPaths(tree, f)
    PROVE  \A n \in DOMAIN tree : Path(tree, n) = f[n]
<1> PICK g : g = CHOOSE h : IsPaths(tree, h)
  OBVIOUS
<1>1. \A n : Path(tree, n) = g[n]
  BY DEF Path, IsPaths
<1>2. IsPaths(tree, g)
  <2>1. \E h : IsPaths(tree, h)
    OBVIOUS
  <2> QED
    BY ONLY <2>1, g = (CHOOSE h : IsPaths(tree, h))
<1> DEFINE S == {n \in DOMAIN tree : g[n] = f[n]}
<1>3. Root \in DOMAIN tree /\ \A n \in Nodes(tree) : tree[n].parent \in DOMAIN tree
  BY DEF IsTree, Linked
<1>4. Root \in S
  BY <1>2, <1>3 DEF IsPaths
<1>5. ASSUME NEW n \in Nodes(tree), tree[n].parent \in S
      PROVE  n \in S
  <2>1. n \in DOMAIN tree /\ n # Root
    BY DEF Nodes
  <2>2. g[tree[n].parent] = f[tree[n].parent]
    BY <1>5
  <2>3. \A h : IsPaths(tree, h) => h[n] = {n} \cup h[tree[n].parent]
    BY <2>1 DEF IsPaths
  <2>4. g[n] = f[n]
    BY <1>2, <2>2, <2>3, Zenon
  <2> QED
    BY <2>1, <2>4
<1>6. DOMAIN tree \subseteq S
  <2> HIDE DEF S
  <2> QED
    BY <1>4, <1>5, OnTree
<1> QED
  BY <1>1, <1>6


(* What a node stands for is its parent's and its own. *)
LEMMA TreeKeys ==
    ASSUME NEW tree, IsTree(tree)
    PROVE  /\ Root \in DOMAIN tree /\ PathKey(tree, Root) = <<>>
           /\ \A n \in Nodes(tree) :
                 /\ n \in DOMAIN tree /\ tree[n].parent \in DOMAIN tree
                 /\ PathKey(tree, n) = PathKey(tree, tree[n].parent) \o tree[n].key
           /\ \A n \in DOMAIN tree : PathKey(tree, n) \in Seq(Token)
           /\ IsKeys(tree, [n \in DOMAIN tree |-> PathKey(tree, n)])
<1> PICK f \in [DOMAIN tree -> Seq(Token)] : IsKeys(tree, f)
  BY DEF IsTree
<1>1. \A n \in DOMAIN tree : PathKey(tree, n) = f[n]
  BY KeysAre
<1>2. Root \in DOMAIN tree /\ \A n \in Nodes(tree) : n \in DOMAIN tree /\ tree[n].parent \in DOMAIN tree
  BY DEF IsTree, Linked, Nodes
<1>3. f[Root] = <<>> /\ \A n \in Nodes(tree) : f[n] = f[tree[n].parent] \o tree[n].key
  BY <1>2 DEF IsKeys, Nodes
<1>4. f = [n \in DOMAIN tree |-> PathKey(tree, n)]
  BY <1>1
<1> QED
  BY <1>1, <1>2, <1>3, <1>4

LEMMA TreeValues ==
    ASSUME NEW tree, IsTree(tree)
    PROVE  /\ PathValue(tree, Root) = <<>>
           /\ \A n \in Nodes(tree) :
                 PathValue(tree, n) = PathValue(tree, tree[n].parent) \o tree[n].value
           /\ \A n \in DOMAIN tree : PathValue(tree, n) \in Seq(Page)
           /\ IsValues(tree, [n \in DOMAIN tree |-> PathValue(tree, n)])
<1> PICK f \in [DOMAIN tree -> Seq(Page)] : IsValues(tree, f)
  BY DEF IsTree
<1>1. \A n \in DOMAIN tree : PathValue(tree, n) = f[n]
  BY ValuesAre
<1>2. Root \in DOMAIN tree /\ \A n \in Nodes(tree) : n \in DOMAIN tree /\ tree[n].parent \in DOMAIN tree
  BY DEF IsTree, Linked, Nodes
<1>3. f[Root] = <<>> /\ \A n \in Nodes(tree) : f[n] = f[tree[n].parent] \o tree[n].value
  BY <1>2 DEF IsValues, Nodes
<1>4. f = [n \in DOMAIN tree |-> PathValue(tree, n)]
  BY <1>1
<1> QED
  BY <1>1, <1>2, <1>3, <1>4

LEMMA TreePaths ==
    ASSUME NEW tree, IsTree(tree)
    PROVE  /\ Path(tree, Root) = {}
           /\ \A n \in Nodes(tree) : Path(tree, n) = {n} \cup Path(tree, tree[n].parent)
           /\ \A n \in DOMAIN tree : Path(tree, n) \subseteq Nodes(tree)
           /\ IsPaths(tree, [n \in DOMAIN tree |-> Path(tree, n)])
<1> PICK f \in [DOMAIN tree -> SUBSET Nodes(tree)] : IsPaths(tree, f)
  BY DEF IsTree
<1>1. \A n \in DOMAIN tree : Path(tree, n) = f[n]
  BY PathsAre
<1>2. Root \in DOMAIN tree /\ \A n \in Nodes(tree) : n \in DOMAIN tree /\ tree[n].parent \in DOMAIN tree
  BY DEF IsTree, Linked, Nodes
<1>3. f[Root] = {} /\ \A n \in Nodes(tree) : f[n] = {n} \cup f[tree[n].parent]
  BY <1>2 DEF IsPaths, Nodes
<1>4. f = [n \in DOMAIN tree |-> Path(tree, n)]
  BY <1>1
<1>5. \A n \in DOMAIN tree : f[n] \subseteq Nodes(tree)
  OBVIOUS
<1> QED
  BY <1>1, <1>2, <1>3, <1>4, <1>5

(* A tree is what these functions say. *)
LEMMA TreeIs ==
    ASSUME NEW tree, Linked(tree),
           NEW keys \in [DOMAIN tree -> Seq(Token)], IsKeys(tree, keys),
           NEW values \in [DOMAIN tree -> Seq(Page)], IsValues(tree, values),
           NEW paths \in [DOMAIN tree -> SUBSET Nodes(tree)], IsPaths(tree, paths)
    PROVE  /\ IsTree(tree)
           /\ \A n \in DOMAIN tree : /\ PathKey(tree, n) = keys[n]
                                     /\ PathValue(tree, n) = values[n]
                                     /\ Path(tree, n) = paths[n]
<1>1. IsTree(tree)
  BY DEF IsTree
<1> QED
  BY <1>1, KeysAre, ValuesAre, PathsAre

(* Two trees that differ in their counts and time stamps. *)
SameShape(tree, tree2) ==
    /\ DOMAIN tree2 = DOMAIN tree
    /\ \A n \in DOMAIN tree : /\ tree2[n].parent = tree[n].parent
                              /\ tree2[n].key = tree[n].key
                              /\ tree2[n].value = tree[n].value

LEMMA ShapeKept ==
    ASSUME NEW tree, IsTree(tree), NEW tree2, SameShape(tree, tree2),
           tree2 \in [DOMAIN tree2 -> Node], tree2[Root].ref_count = 1
    PROVE  /\ IsTree(tree2)
           /\ \A n \in DOMAIN tree : /\ PathKey(tree2, n) = PathKey(tree, n)
                                     /\ PathValue(tree2, n) = PathValue(tree, n)
                                     /\ Path(tree2, n) = Path(tree, n)
<1>1. Linked(tree2) /\ DOMAIN tree2 = DOMAIN tree /\ Nodes(tree2) = Nodes(tree)
  BY DEF SameShape, IsTree, Linked, Nodes
<1> PICK keys : keys = [n \in DOMAIN tree |-> PathKey(tree, n)]
  OBVIOUS
<1> PICK values : values = [n \in DOMAIN tree |-> PathValue(tree, n)]
  OBVIOUS
<1> PICK paths : paths = [n \in DOMAIN tree |-> Path(tree, n)]
  OBVIOUS
<1>2. keys \in [DOMAIN tree2 -> Seq(Token)] /\ IsKeys(tree2, keys)
  <2>1. keys \in [DOMAIN tree -> Seq(Token)] /\ IsKeys(tree, keys)
    BY TreeKeys
  <2> QED
    BY <1>1, <2>1 DEF IsKeys, SameShape
<1>3. values \in [DOMAIN tree2 -> Seq(Page)] /\ IsValues(tree2, values)
  <2>1. values \in [DOMAIN tree -> Seq(Page)] /\ IsValues(tree, values)
    BY TreeValues
  <2> QED
    BY <1>1, <2>1 DEF IsValues, SameShape
<1>4. paths \in [DOMAIN tree2 -> SUBSET Nodes(tree2)] /\ IsPaths(tree2, paths)
  <2>1. paths \in [DOMAIN tree -> SUBSET Nodes(tree)] /\ IsPaths(tree, paths)
    BY TreePaths
  <2> QED
    BY <1>1, <2>1 DEF IsPaths, SameShape
<1>5. /\ IsTree(tree2)
      /\ \A n \in DOMAIN tree2 : /\ PathKey(tree2, n) = keys[n]
                                 /\ PathValue(tree2, n) = values[n]
                                 /\ Path(tree2, n) = paths[n]
  BY ONLY <1>1, <1>2, <1>3, <1>4, TreeIs
<1> QED
  BY <1>1, <1>5


(* A node of its own for the first pos tokens of n's key. *)
IsSplit(tree, tree2, n, new, pos) ==
    /\ tree2 = [m \in DOMAIN tree \cup {new} |-> tree2[m]]
    /\ \A m \in DOMAIN tree \ {n} : tree2[m] = tree[m]
    /\ tree2[new] = HeadOf(tree[n], pos)
    /\ tree2[n] = [TailOf(tree[n], pos) EXCEPT !.parent = new]

(* A key of whole pages, and its pages, cut after k pages. *)
IsCut(key, value, k, pos, k1, k2, v1, v2) ==
    /\ pos \in Nat /\ pos \div PageSize = k /\ k >= 1 /\ k < Len(value)
    /\ k1 \in Seq(Token) /\ Len(k1) = pos
    /\ k2 \in Seq(Token) /\ Len(k2) = Len(key) - pos
    /\ key = k1 \o k2
    /\ v1 \in Seq(Page) /\ Len(v1) = k
    /\ v2 \in Seq(Page) /\ Len(v2) = Len(value) - k
    /\ value = v1 \o v2
    /\ PageSize * (Len(value) - k) = Len(key) - pos

LEMMA CutKey ==
    ASSUME NEW key \in Seq(Token), NEW value \in Seq(Page), Len(key) = PageSize * Len(value),
           NEW k \in Nat, NEW pos, pos = PageSize * k, 0 < pos, pos < Len(key)
    PROVE  IsCut(key, value, k, pos, SubSeq(key, 1, pos), SubSeq(key, pos + 1, Len(key)),
                 SubSeq(value, 1, k), SubSeq(value, k + 1, Len(value)))
<1> PICK v : v = Len(value)
  OBVIOUS
<1> PICK l : l = Len(key)
  OBVIOUS
<1>1. v \in Nat /\ l \in Nat /\ pos \in Nat /\ PageSize \in Nat \ {0} /\ l = PageSize * v
  BY PageSizeAssumption, LenProperties
<1>2. pos \div PageSize = k
  BY PageArithmetic
<1>3. k < v
  <2>1. SUFFICES ASSUME v <= k PROVE FALSE
    BY <1>1
  <2>2. PageSize * v <= PageSize * k
    BY ONLY <1>1, <2>1, k \in Nat
  <2> QED
    BY ONLY <1>1, <2>2, pos = PageSize * k, pos < Len(key), l = Len(key)
<1>4. k >= 1
  BY <1>1
<1>5. PageSize * (v - k) = l - pos
  BY ONLY <1>1, <1>3, k \in Nat, pos = PageSize * k
<1>6. /\ SubSeq(key, 1, pos) \in Seq(Token) /\ Len(SubSeq(key, 1, pos)) = pos
      /\ SubSeq(key, pos + 1, l) \in Seq(Token)
      /\ Len(SubSeq(key, pos + 1, l)) = l - pos
      /\ key = SubSeq(key, 1, pos) \o SubSeq(key, pos + 1, l)
  <2>0. pos < l
    OBVIOUS
  <2>1. \A i \in 1..l : key[i] \in Token
    BY ElementOfSeq
  <2>2. \A i \in 1..pos : key[i] \in Token
    BY <1>1, <2>0, <2>1
  <2>3. \A i \in (pos + 1)..l : key[i] \in Token
    BY <1>1, <2>0, <2>1
  <2>4. SubSeq(key, 1, pos) \in Seq(Token) /\ Len(SubSeq(key, 1, pos)) = IF 1 <= pos THEN pos - 1 + 1 ELSE 0
    BY ONLY <2>2, <1>1, 1 \in Int, pos \in Int, SubSeqProperties
  <2>5. SubSeq(key, pos + 1, l) \in Seq(Token)
        /\ Len(SubSeq(key, pos + 1, l)) = IF pos + 1 <= l THEN l - (pos + 1) + 1 ELSE 0
    <3>1. pos + 1 \in Int /\ l \in Int
      BY ONLY <1>1
    <3> QED
      BY ONLY <3>1, <2>3, SubSeqProperties
  <2>6. SubSeq(key, 1, pos) \o SubSeq(key, pos + 1, l) = SubSeq(key, 1, l)
    <3>1. 1 \in 1..(Len(key) + 1) /\ pos \in (1 - 1)..Len(key) /\ l \in pos..Len(key)
      BY <1>1, <2>0
    <3> QED
      BY ONLY <3>1, key \in Seq(Token), ConcatAdjacentSubSeq
  <2>7. SubSeq(key, 1, l) = key
    BY SubSeqFull
  <2> QED
    BY ONLY <1>1, <2>0, <2>4, <2>5, <2>6, <2>7, 0 < pos
<1>7. /\ SubSeq(value, 1, k) \in Seq(Page) /\ Len(SubSeq(value, 1, k)) = k
      /\ SubSeq(value, k + 1, v) \in Seq(Page)
      /\ Len(SubSeq(value, k + 1, v)) = v - k
      /\ value = SubSeq(value, 1, k) \o SubSeq(value, k + 1, v)
  <2>1. \A i \in 1..v : value[i] \in Page
    BY ElementOfSeq
  <2>2. \A i \in 1..k : value[i] \in Page
    BY <1>1, <1>3, <2>1
  <2>3. \A i \in (k + 1)..v : value[i] \in Page
    BY <1>1, <1>3, <2>1
  <2>4. SubSeq(value, 1, k) \in Seq(Page) /\ Len(SubSeq(value, 1, k)) = IF 1 <= k THEN k - 1 + 1 ELSE 0
    BY ONLY <2>2, <1>1, 1 \in Int, k \in Int, SubSeqProperties
  <2>5. SubSeq(value, k + 1, v) \in Seq(Page)
        /\ Len(SubSeq(value, k + 1, v)) = IF k + 1 <= v THEN v - (k + 1) + 1 ELSE 0
    <3>1. k + 1 \in Int /\ v \in Int
      BY ONLY <1>1, k \in Nat
    <3> QED
      BY ONLY <3>1, <2>3, SubSeqProperties
  <2>6. SubSeq(value, 1, k) \o SubSeq(value, k + 1, v) = SubSeq(value, 1, v)
    <3>1. 1 \in 1..(Len(value) + 1) /\ k \in (1 - 1)..Len(value) /\ v \in k..Len(value)
      BY <1>1, <1>3
    <3> QED
      BY ONLY <3>1, value \in Seq(Page), ConcatAdjacentSubSeq
  <2>7. SubSeq(value, 1, v) = value
    BY SubSeqFull
  <2> QED
    BY ONLY <1>1, <1>3, <1>4, k \in Nat, <2>4, <2>5, <2>6, <2>7
<1> QED
  BY ONLY <1>1, <1>2, <1>3, <1>4, <1>5, <1>6, <1>7, v = Len(value), l = Len(key),
          key \in Seq(Token), value \in Seq(Page), Zenon DEF IsCut


(* The two halves. *)
Halves(tree, tree2, n, new, pos) ==
    /\ tree2[new].parent = tree[n].parent /\ tree2[n].parent = new
    /\ tree[n].key = tree2[new].key \o tree2[n].key
    /\ tree[n].value = tree2[new].value \o tree2[n].value
    /\ tree2[new].ref_count = tree[n].ref_count
    /\ tree2[n].ref_count = tree[n].ref_count
    /\ tree2[new].key = SubSeq(tree[n].key, 1, pos) /\ Len(tree2[new].key) = pos
    /\ Len(tree2[n].key) = Len(tree[n].key) - pos

LEMMA SplitFields ==
    ASSUME NEW tree, IsTree(tree), NEW n \in Nodes(tree), NEW new \in Nat \ DOMAIN tree,
           NEW k \in Nat, NEW pos, pos = PageSize * k, 0 < pos, pos < Len(tree[n].key),
           NEW tree2, IsSplit(tree, tree2, n, new, pos)
    PROVE  Linked(tree2) /\ Halves(tree, tree2, n, new, pos)
<1> PICK key : key = tree[n].key
  OBVIOUS
<1> PICK value : value = tree[n].value
  OBVIOUS
<1> PICK k1 : k1 = SubSeq(key, 1, pos)
  OBVIOUS
<1> PICK k2 : k2 = SubSeq(key, pos + 1, Len(key))
  OBVIOUS
<1> PICK v1 : v1 = SubSeq(value, 1, k)
  OBVIOUS
<1> PICK v2 : v2 = SubSeq(value, k + 1, Len(value))
  OBVIOUS
<1>1. /\ IsFiniteSet(DOMAIN tree) /\ DOMAIN tree \subseteq Nat /\ Root \in DOMAIN tree
      /\ tree \in [DOMAIN tree -> Node] /\ tree[Root].ref_count = 1
      /\ n \in DOMAIN tree /\ n # Root /\ new # n /\ new # Root
      /\ tree[n] \in Node /\ tree[n].parent \in DOMAIN tree
      /\ key \in Seq(Token) /\ value \in Seq(Page) /\ Len(key) = PageSize * Len(value)
  BY DEF IsTree, Linked, Nodes, Node
<1>2. /\ pos \div PageSize = k /\ pos \in Nat /\ k < Len(value)
      /\ k1 \in Seq(Token) /\ Len(k1) = pos
      /\ k2 \in Seq(Token) /\ Len(k2) = Len(key) - pos
      /\ key = k1 \o k2
      /\ v1 \in Seq(Page) /\ Len(v1) = k
      /\ v2 \in Seq(Page) /\ Len(v2) = Len(value) - k
      /\ value = v1 \o v2
      /\ PageSize * (Len(value) - k) = Len(key) - pos
  <2>1. /\ pos < Len(key) /\ key \in Seq(Token) /\ value \in Seq(Page)
        /\ Len(key) = PageSize * Len(value) /\ pos = PageSize * k /\ 0 < pos /\ k \in Nat
    BY <1>1
  <2>2. /\ k1 = SubSeq(key, 1, pos) /\ k2 = SubSeq(key, pos + 1, Len(key))
        /\ v1 = SubSeq(value, 1, k) /\ v2 = SubSeq(value, k + 1, Len(value))
    OBVIOUS
  <2>3. IsCut(key, value, k, pos, SubSeq(key, 1, pos), SubSeq(key, pos + 1, Len(key)),
              SubSeq(value, 1, k), SubSeq(value, k + 1, Len(value)))
    BY ONLY <2>1, CutKey
  <2>4. IsCut(key, value, k, pos, k1, k2, v1, v2)
    BY ONLY <2>2, <2>3, Zenon
  <2> QED
    BY ONLY <2>4, Zenon DEF IsCut
<1>3. /\ tree2[new] = [parent |-> tree[n].parent, key |-> k1, value |-> v1,
                       ref_count |-> tree[n].ref_count, time |-> tree[n].time]
      /\ tree2[n] = [parent |-> new, key |-> k2, value |-> v2,
                     ref_count |-> tree[n].ref_count, time |-> tree[n].time]
  <2>1. PICK q \in Node : q = tree[n]
    BY <1>1
  <2>2. q = [parent |-> q.parent, key |-> q.key, value |-> q.value,
             ref_count |-> q.ref_count, time |-> q.time]
    BY DEF Node
  <2>3. tree2[new] = HeadOf(q, pos) /\ tree2[n] = [TailOf(q, pos) EXCEPT !.parent = new]
    BY <2>1 DEF IsSplit
  <2>4. q.key = key /\ q.value = value /\ pos \div PageSize = k
    BY <1>2, <2>1
  <2>5. /\ HeadOf(q, pos) = [q EXCEPT !.key = k1, !.value = v1]
        /\ TailOf(q, pos) = [q EXCEPT !.key = k2, !.value = v2]
    <3>1. /\ k1 = SubSeq(key, 1, pos) /\ k2 = SubSeq(key, pos + 1, Len(key))
          /\ v1 = SubSeq(value, 1, k) /\ v2 = SubSeq(value, k + 1, Len(value))
      OBVIOUS
    <3> QED
      BY ONLY <2>4, <3>1, Zenon DEF HeadOf, TailOf
  <2> QED
    BY ONLY <2>1, <2>2, <2>3, <2>5
<1>4. tree2[new] \in Node /\ tree2[n] \in Node
  <2>1. /\ tree[n].parent \in Nat /\ tree[n].ref_count \in Nat /\ tree[n].time \in Nat
        /\ new \in Nat
    BY <1>1 DEF Node
  <2>2. k1 \in Seq(Token) /\ k2 \in Seq(Token) /\ v1 \in Seq(Page) /\ v2 \in Seq(Page)
    BY <1>2
  <2> QED
    BY ONLY <2>2, <1>3, <2>1 DEF Node
<1>5. /\ DOMAIN tree2 = DOMAIN tree \cup {new}
      /\ \A m \in DOMAIN tree \ {n} : tree2[m] = tree[m]
      /\ tree2 = [m \in DOMAIN tree2 |-> tree2[m]]
  BY DEF IsSplit
<1>6. \A m \in DOMAIN tree2 : tree2[m] \in Node
  BY <1>1, <1>4, <1>5
<1>7. tree2 \in [DOMAIN tree2 -> Node]
  BY ONLY <1>5, <1>6
<1>8. IsFiniteSet(DOMAIN tree2) /\ DOMAIN tree2 \subseteq Nat /\ Root \in DOMAIN tree2
  <2>1. IsFiniteSet(DOMAIN tree \cup {new})
    BY <1>1, FS_AddElement
  <2> QED
    BY <1>1, <1>5, <2>1
<1>9. tree2[Root].ref_count = 1
  BY <1>1, <1>5
<1>10. ASSUME NEW m \in Nodes(tree2)
       PROVE  /\ tree2[m].parent \in DOMAIN tree2
              /\ tree2[m].key # <<>>
              /\ Len(tree2[m].key) = PageSize * Len(tree2[m].value)
  <2>0. Len(<<>>) = 0
    BY EmptySeq
  <2>1. CASE m = new
    <3>1. tree2[m].key = k1 /\ tree2[m].value = v1
      BY ONLY <1>3, <2>1
    <3>2. tree2[m].key # <<>>
      <4>1. pos # 0
        BY ONLY 0 < pos, <1>2
      <4> QED
        BY ONLY <1>2, <2>0, <3>1, <4>1, Zenon
    <3>3. tree2[m].parent \in DOMAIN tree2
      BY <1>1, <1>3, <1>5, <2>1
    <3> QED
      BY ONLY <1>2, <3>1, <3>2, <3>3, pos = PageSize * k
  <2>2. CASE m = n
    <3>1. tree2[m].key = k2 /\ tree2[m].value = v2
      BY ONLY <1>3, <2>2
    <3>2. Len(key) - pos # 0
      BY <1>1, <1>2, LenProperties
    <3>3. tree2[m].key # <<>>
      BY ONLY <1>2, <2>0, <3>1, <3>2, Zenon
    <3>4. tree2[m].parent \in DOMAIN tree2
      BY <1>3, <1>5, <2>2
    <3> QED
      BY ONLY <1>2, <3>1, <3>3, <3>4
  <2>3. CASE m # n /\ m # new
    <3>1. m \in Nodes(tree) /\ tree2[m] = tree[m]
      BY <1>5, <2>3 DEF Nodes
    <3> QED
      BY <1>5, <3>1 DEF IsTree, Linked
  <2> QED
    BY <2>1, <2>2, <2>3
<1>11. Linked(tree2)
  BY <1>7, <1>8, <1>9, <1>10 DEF Linked
<1>12. /\ tree2[new].parent = tree[n].parent /\ tree2[n].parent = new
       /\ tree2[new].ref_count = tree[n].ref_count
       /\ tree2[n].ref_count = tree[n].ref_count
       /\ tree2[new].key = k1 /\ tree2[n].key = k2
       /\ tree2[new].value = v1 /\ tree2[n].value = v2
  BY ONLY <1>3
<1> QED
  BY ONLY <1>2, <1>11, <1>12, key = tree[n].key, value = tree[n].value,
          k1 = SubSeq(key, 1, pos), Zenon DEF Halves

(* A split changes no key and no value that a path stands for; the new node *)
(* is on the paths that n is on.                                            *)
SplitKeeps(tree, tree2, n, new) ==
    /\ IsTree(tree2)
    /\ \A m \in DOMAIN tree :
          /\ PathKey(tree2, m) = PathKey(tree, m)
          /\ PathValue(tree2, m) = PathValue(tree, m)
          /\ Path(tree2, m) = Path(tree, m) \cup (IF n \in Path(tree, m) THEN {new} ELSE {})
    /\ PathKey(tree2, new) = PathKey(tree, tree[n].parent) \o tree2[new].key

LEMMA SplitTree ==
    ASSUME NEW tree, IsTree(tree), NEW n \in Nodes(tree), NEW new \in Nat \ DOMAIN tree,
           NEW k \in Nat, NEW pos, pos = PageSize * k, 0 < pos, pos < Len(tree[n].key),
           NEW tree2, IsSplit(tree, tree2, n, new, pos)
    PROVE  SplitKeeps(tree, tree2, n, new)
<1> PICK p : p = tree[n].parent
  OBVIOUS
<1>1. /\ Linked(tree2) /\ tree2[new].parent = p /\ tree2[n].parent = new
      /\ tree[n].key = tree2[new].key \o tree2[n].key
      /\ tree[n].value = tree2[new].value \o tree2[n].value
  <2>1. /\ IsTree(tree) /\ n \in Nodes(tree) /\ new \in Nat \ DOMAIN tree /\ k \in Nat
        /\ pos = PageSize * k /\ 0 < pos /\ pos < Len(tree[n].key)
        /\ IsSplit(tree, tree2, n, new, pos)
    OBVIOUS
  <2>2. Linked(tree2) /\ Halves(tree, tree2, n, new, pos)
    BY ONLY <2>1, SplitFields
  <2> QED
    BY ONLY <2>2, p = tree[n].parent, Zenon DEF Halves
<1>2. /\ DOMAIN tree2 = DOMAIN tree \cup {new}
      /\ \A m \in DOMAIN tree \ {n} : tree2[m] = tree[m]
  BY DEF IsSplit
<1>3. /\ n \in DOMAIN tree /\ n # Root /\ p \in DOMAIN tree /\ new # n /\ new # Root
      /\ new \in DOMAIN tree2 /\ n \in DOMAIN tree2 /\ Root \in DOMAIN tree
      /\ n \in Nodes(tree2) /\ new \in Nodes(tree2)
  BY <1>2 DEF IsTree, Linked, Nodes
<1>4. \A m \in Nodes(tree2) : m \notin {n, new} =>
        m \in Nodes(tree) /\ tree[m].parent \in DOMAIN tree /\ tree[m].parent # new
        /\ tree2[m] = tree[m]
  BY <1>2 DEF IsTree, Linked, Nodes
<1>5. /\ tree2[new].key \in Seq(Token) /\ tree2[n].key \in Seq(Token)
      /\ tree2[new].value \in Seq(Page) /\ tree2[n].value \in Seq(Page)
  BY <1>1, <1>3 DEF Linked, Node
<1> DEFINE keys == [m \in DOMAIN tree2 |-> IF m = new THEN PathKey(tree, p) \o tree2[new].key
                                           ELSE PathKey(tree, m)]
<1> DEFINE values == [m \in DOMAIN tree2 |-> IF m = new THEN PathValue(tree, p) \o tree2[new].value
                                             ELSE PathValue(tree, m)]
<1> DEFINE paths == [m \in DOMAIN tree2 |->
                        IF m = new THEN {new} \cup Path(tree, p) \cup (IF n \in Path(tree, p) THEN {new} ELSE {})
                        ELSE Path(tree, m) \cup (IF n \in Path(tree, m) THEN {new} ELSE {})]
<1>6. keys \in [DOMAIN tree2 -> Seq(Token)] /\ IsKeys(tree2, keys)
  <2>1. /\ PathKey(tree, Root) = <<>> /\ PathKey(tree, p) \in Seq(Token)
        /\ \A m \in Nodes(tree) : PathKey(tree, m) = PathKey(tree, tree[m].parent) \o tree[m].key
        /\ \A m \in DOMAIN tree : PathKey(tree, m) \in Seq(Token)
    BY <1>3, TreeKeys
  <2>2. PathKey(tree, p) \o tree2[new].key \in Seq(Token)
    BY <1>5, <2>1, ConcatProperties
  <2>3. keys \in [DOMAIN tree2 -> Seq(Token)]
    BY <1>2, <2>1, <2>2
  <2>4. ASSUME NEW m \in DOMAIN tree2
        PROVE  keys[m] = IF m = Root THEN <<>> ELSE keys[tree2[m].parent] \o tree2[m].key
    <3>1. CASE m = Root
      BY <1>3, <2>1, <3>1
    <3>2. CASE m = new
      BY <1>1, <1>2, <1>3, <3>2
    <3>3. CASE m = n
      <4>1. keys[m] = PathKey(tree, p) \o (tree2[new].key \o tree2[n].key)
        BY <1>1, <1>3, <2>1, <3>3
      <4>2. keys[tree2[m].parent] \o tree2[m].key = (PathKey(tree, p) \o tree2[new].key) \o tree2[n].key
        BY <1>1, <1>3, <3>3
      <4>3. PathKey(tree, p) \o (tree2[new].key \o tree2[n].key)
              = (PathKey(tree, p) \o tree2[new].key) \o tree2[n].key
        <5> PICK a : a = PathKey(tree, p)
          OBVIOUS
        <5> PICK b : b = tree2[new].key
          OBVIOUS
        <5> PICK c : c = tree2[n].key
          OBVIOUS
        <5>1. a \in Seq(Token) /\ b \in Seq(Token) /\ c \in Seq(Token)
          BY <1>5, <2>1
        <5>2. a \o (b \o c) = (a \o b) \o c
          BY ONLY <5>1, ConcatAssociative, SMT
        <5> QED
          BY ONLY <5>2, a = PathKey(tree, p), b = tree2[new].key, c = tree2[n].key, Zenon
      <4> QED
        BY <1>3, <3>3, <4>1, <4>2, <4>3
    <3>4. CASE m \notin {Root, n, new}
      <4>1. m \in Nodes(tree) /\ tree[m].parent \in DOMAIN tree2 /\ tree[m].parent # new
            /\ tree2[m] = tree[m]
        BY <1>2, <1>4, <3>4 DEF Nodes
      <4> QED
        BY <2>1, <3>4, <4>1
    <3> QED
      BY <3>1, <3>2, <3>3, <3>4
  <2> QED
    BY <2>3, <2>4 DEF IsKeys
<1>7. values \in [DOMAIN tree2 -> Seq(Page)] /\ IsValues(tree2, values)
  <2>1. /\ PathValue(tree, Root) = <<>> /\ PathValue(tree, p) \in Seq(Page)
        /\ \A m \in Nodes(tree) : PathValue(tree, m) = PathValue(tree, tree[m].parent) \o tree[m].value
        /\ \A m \in DOMAIN tree : PathValue(tree, m) \in Seq(Page)
    BY <1>3, TreeValues
  <2>2. PathValue(tree, p) \o tree2[new].value \in Seq(Page)
    BY <1>5, <2>1, ConcatProperties
  <2>3. values \in [DOMAIN tree2 -> Seq(Page)]
    BY <1>2, <2>1, <2>2
  <2>4. ASSUME NEW m \in DOMAIN tree2
        PROVE  values[m] = IF m = Root THEN <<>> ELSE values[tree2[m].parent] \o tree2[m].value
    <3>1. CASE m = Root
      BY <1>3, <2>1, <3>1
    <3>2. CASE m = new
      BY <1>1, <1>2, <1>3, <3>2
    <3>3. CASE m = n
      <4>1. values[m] = PathValue(tree, p) \o (tree2[new].value \o tree2[n].value)
        BY <1>1, <1>3, <2>1, <3>3
      <4>2. values[tree2[m].parent] \o tree2[m].value
              = (PathValue(tree, p) \o tree2[new].value) \o tree2[n].value
        BY <1>1, <1>3, <3>3
      <4>3. PathValue(tree, p) \o (tree2[new].value \o tree2[n].value)
              = (PathValue(tree, p) \o tree2[new].value) \o tree2[n].value
        <5> PICK a : a = PathValue(tree, p)
          OBVIOUS
        <5> PICK b : b = tree2[new].value
          OBVIOUS
        <5> PICK c : c = tree2[n].value
          OBVIOUS
        <5>1. a \in Seq(Page) /\ b \in Seq(Page) /\ c \in Seq(Page)
          BY <1>5, <2>1
        <5>2. a \o (b \o c) = (a \o b) \o c
          BY ONLY <5>1, ConcatAssociative, SMT
        <5> QED
          BY ONLY <5>2, a = PathValue(tree, p), b = tree2[new].value, c = tree2[n].value, Zenon
      <4> QED
        BY <1>3, <3>3, <4>1, <4>2, <4>3
    <3>4. CASE m \notin {Root, n, new}
      <4>1. m \in Nodes(tree) /\ tree[m].parent \in DOMAIN tree2 /\ tree[m].parent # new
            /\ tree2[m] = tree[m]
        BY <1>2, <1>4, <3>4 DEF Nodes
      <4> QED
        BY <2>1, <3>4, <4>1
    <3> QED
      BY <3>1, <3>2, <3>3, <3>4
  <2> QED
    BY <2>3, <2>4 DEF IsValues
<1>8. paths \in [DOMAIN tree2 -> SUBSET Nodes(tree2)] /\ IsPaths(tree2, paths)
  <2>1. /\ Path(tree, Root) = {}
        /\ \A m \in Nodes(tree) : Path(tree, m) = {m} \cup Path(tree, tree[m].parent)
        /\ \A m \in DOMAIN tree : Path(tree, m) \subseteq Nodes(tree)
    BY TreePaths
  <2>2. Nodes(tree2) = Nodes(tree) \cup {new}
    BY <1>2, <1>3 DEF Nodes
  <2>3. paths \in [DOMAIN tree2 -> SUBSET Nodes(tree2)]
    BY <1>2, <1>3, <2>1, <2>2
  <2>4. ASSUME NEW m \in DOMAIN tree2
        PROVE  paths[m] = IF m = Root THEN {} ELSE {m} \cup paths[tree2[m].parent]
    <3>1. CASE m = Root
      BY <1>3, <2>1, <3>1
    <3>2. CASE m = new
      BY <1>1, <1>2, <1>3, <3>2
    <3>3. CASE m = n
      BY <1>1, <1>3, <2>1, <3>3
    <3>4. CASE m \notin {Root, n, new}
      <4>1. m \in Nodes(tree) /\ tree[m].parent \in DOMAIN tree2 /\ tree[m].parent # new
            /\ tree2[m] = tree[m]
        BY <1>2, <1>4, <3>4 DEF Nodes
      <4>2. paths[m] = Path(tree, m) \cup (IF n \in Path(tree, m) THEN {new} ELSE {})
        BY <3>4
      <4>3. paths[tree[m].parent] = Path(tree, tree[m].parent)
                \cup (IF n \in Path(tree, tree[m].parent) THEN {new} ELSE {})
        BY <4>1
      <4>4. Path(tree, m) = {m} \cup Path(tree, tree[m].parent)
        BY <2>1, <4>1
      <4> QED
        BY ONLY <3>4, <4>1, <4>2, <4>3, <4>4
    <3> QED
      BY <3>1, <3>2, <3>3, <3>4
  <2>5. paths = [m \in DOMAIN tree2 |-> paths[m]]
    OBVIOUS
  <2>6. IsPaths(tree2, paths)
    <3> HIDE DEF paths
    <3> QED
      BY <2>4, <2>5 DEF IsPaths
  <2> QED
    BY <2>3, <2>6
<1> HIDE DEF keys, values, paths
<1>9. /\ IsTree(tree2)
      /\ \A m \in DOMAIN tree2 : /\ PathKey(tree2, m) = keys[m]
                                 /\ PathValue(tree2, m) = values[m]
                                 /\ Path(tree2, m) = paths[m]
  BY ONLY <1>1, <1>6, <1>7, <1>8, TreeIs
<1>10. \A m \in DOMAIN tree : m \in DOMAIN tree2 /\ m # new
  BY <1>2
<1>11. /\ keys[new] = PathKey(tree, p) \o tree2[new].key
       /\ \A m \in DOMAIN tree :
             /\ keys[m] = PathKey(tree, m) /\ values[m] = PathValue(tree, m)
             /\ paths[m] = Path(tree, m) \cup (IF n \in Path(tree, m) THEN {new} ELSE {})
  BY <1>3, <1>10 DEF keys, values, paths
<1> QED
  BY ONLY <1>3, <1>9, <1>10, <1>11, p = tree[n].parent, Zenon DEF SplitKeeps


(* A new leaf changes what no other node stands for. *)
GrowKeeps(tree, tree2, new, node) ==
    /\ IsTree(tree2)
    /\ \A m \in DOMAIN tree : /\ PathKey(tree2, m) = PathKey(tree, m)
                              /\ PathValue(tree2, m) = PathValue(tree, m)
                              /\ Path(tree2, m) = Path(tree, m)
    /\ PathKey(tree2, new) = PathKey(tree, node.parent) \o node.key
    /\ PathValue(tree2, new) = PathValue(tree, node.parent) \o node.value
    /\ Path(tree2, new) = {new} \cup Path(tree, node.parent)

LEMMA GrowTree ==
    ASSUME NEW tree, IsTree(tree), NEW new \in Nat \ DOMAIN tree, NEW node \in Node,
           node.parent \in DOMAIN tree, node.key # <<>>,
           Len(node.key) = PageSize * Len(node.value),
           NEW tree2, tree2 = Grown(tree, new, node)
    PROVE  GrowKeeps(tree, tree2, new, node)
<1> PICK p : p = node.parent
  OBVIOUS
<1>1. /\ IsFiniteSet(DOMAIN tree) /\ DOMAIN tree \subseteq Nat /\ Root \in DOMAIN tree
      /\ tree \in [DOMAIN tree -> Node] /\ tree[Root].ref_count = 1
      /\ new # Root /\ p \in DOMAIN tree /\ new \notin DOMAIN tree
      /\ node.key \in Seq(Token) /\ node.value \in Seq(Page)
  BY DEF IsTree, Linked, Node
<1>2. /\ DOMAIN tree2 = DOMAIN tree \cup {new} /\ tree2[new] = node
      /\ \A m \in DOMAIN tree : tree2[m] = tree[m]
      /\ tree2 \in [DOMAIN tree2 -> Node]
  BY <1>1 DEF Grown
<1>3. Nodes(tree2) = Nodes(tree) \cup {new}
  BY <1>1, <1>2 DEF Nodes
<1>4. \A m \in Nodes(tree) : m \in DOMAIN tree /\ m # Root /\ tree[m].parent \in DOMAIN tree
  BY DEF IsTree, Linked, Nodes
<1>5. Linked(tree2)
  <2>1. IsFiniteSet(DOMAIN tree2)
    <3>1. IsFiniteSet(DOMAIN tree \cup {new})
      BY <1>1, FS_AddElement
    <3> QED
      BY <1>2, <3>1
  <2>2. ASSUME NEW m \in Nodes(tree2)
        PROVE  /\ tree2[m].parent \in DOMAIN tree2 /\ tree2[m].key # <<>>
               /\ Len(tree2[m].key) = PageSize * Len(tree2[m].value)
    <3>1. CASE m = new
      <4>1. tree2[m] = node
        BY <1>2, <3>1
      <4>2. node.parent \in DOMAIN tree2
        BY <1>1, <1>2
      <4> QED
        BY <4>1, <4>2
    <3>2. CASE m # new
      <4>1. m \in Nodes(tree) /\ tree2[m] = tree[m] /\ tree[m].parent \in DOMAIN tree2
        BY <1>2, <1>3, <1>4, <3>2
      <4> QED
        BY <4>1 DEF IsTree, Linked
    <3> QED
      BY <3>1, <3>2
  <2>3. DOMAIN tree2 \subseteq Nat /\ Root \in DOMAIN tree2 /\ tree2[Root].ref_count = 1
    BY <1>1, <1>2
  <2> QED
    BY <1>2, <2>1, <2>2, <2>3 DEF Linked
<1> DEFINE keys == [m \in DOMAIN tree2 |-> IF m = new THEN PathKey(tree, p) \o node.key
                                           ELSE PathKey(tree, m)]
<1> DEFINE values == [m \in DOMAIN tree2 |-> IF m = new THEN PathValue(tree, p) \o node.value
                                             ELSE PathValue(tree, m)]
<1> DEFINE paths == [m \in DOMAIN tree2 |-> IF m = new THEN {new} \cup Path(tree, p)
                                            ELSE Path(tree, m)]
<1>6. keys \in [DOMAIN tree2 -> Seq(Token)] /\ IsKeys(tree2, keys)
  <2>1. /\ PathKey(tree, Root) = <<>> /\ PathKey(tree, p) \in Seq(Token)
        /\ \A m \in Nodes(tree) : PathKey(tree, m) = PathKey(tree, tree[m].parent) \o tree[m].key
        /\ \A m \in DOMAIN tree : PathKey(tree, m) \in Seq(Token)
    BY <1>1, TreeKeys
  <2>2. PathKey(tree, p) \o node.key \in Seq(Token)
    BY <1>1, <2>1, ConcatProperties
  <2>3. keys \in [DOMAIN tree2 -> Seq(Token)]
    BY <1>2, <2>1, <2>2
  <2>4. ASSUME NEW m \in DOMAIN tree2
        PROVE  keys[m] = IF m = Root THEN <<>> ELSE keys[tree2[m].parent] \o tree2[m].key
    <3>1. CASE m = Root
      BY <1>1, <2>1, <3>1
    <3>2. CASE m = new
      <4>1. keys[m] = PathKey(tree, p) \o node.key /\ tree2[m] = node
        BY <1>2, <3>2
      <4>2. keys[p] = PathKey(tree, p)
        BY <1>1, <1>2
      <4> QED
        BY ONLY <1>1, <3>2, <4>1, <4>2, p = node.parent, Zenon
    <3>3. CASE m \notin {Root, new}
      <4>1. m \in Nodes(tree) /\ tree[m].parent \in DOMAIN tree /\ tree2[m] = tree[m]
        BY <1>2, <1>3, <1>4, <3>3 DEF Nodes
      <4>2. keys[m] = PathKey(tree, m) /\ keys[tree[m].parent] = PathKey(tree, tree[m].parent)
        BY <1>1, <1>2, <3>3, <4>1
      <4>3. PathKey(tree, m) = PathKey(tree, tree[m].parent) \o tree[m].key
        BY <2>1, <4>1
      <4> QED
        BY ONLY <3>3, <4>1, <4>2, <4>3, Zenon
    <3> QED
      BY <3>1, <3>2, <3>3
  <2> QED
    BY <2>3, <2>4 DEF IsKeys
<1>7. values \in [DOMAIN tree2 -> Seq(Page)] /\ IsValues(tree2, values)
  <2>1. /\ PathValue(tree, Root) = <<>> /\ PathValue(tree, p) \in Seq(Page)
        /\ \A m \in Nodes(tree) : PathValue(tree, m) = PathValue(tree, tree[m].parent) \o tree[m].value
        /\ \A m \in DOMAIN tree : PathValue(tree, m) \in Seq(Page)
    BY <1>1, TreeValues
  <2>2. PathValue(tree, p) \o node.value \in Seq(Page)
    BY <1>1, <2>1, ConcatProperties
  <2>3. values \in [DOMAIN tree2 -> Seq(Page)]
    BY <1>2, <2>1, <2>2
  <2>4. ASSUME NEW m \in DOMAIN tree2
        PROVE  values[m] = IF m = Root THEN <<>> ELSE values[tree2[m].parent] \o tree2[m].value
    <3>1. CASE m = Root
      BY <1>1, <2>1, <3>1
    <3>2. CASE m = new
      <4>1. values[m] = PathValue(tree, p) \o node.value /\ tree2[m] = node
        BY <1>2, <3>2
      <4>2. values[p] = PathValue(tree, p)
        BY <1>1, <1>2
      <4> QED
        BY ONLY <1>1, <3>2, <4>1, <4>2, p = node.parent, Zenon
    <3>3. CASE m \notin {Root, new}
      <4>1. m \in Nodes(tree) /\ tree[m].parent \in DOMAIN tree /\ tree2[m] = tree[m]
        BY <1>2, <1>3, <1>4, <3>3 DEF Nodes
      <4>2. values[m] = PathValue(tree, m) /\ values[tree[m].parent] = PathValue(tree, tree[m].parent)
        BY <1>1, <1>2, <3>3, <4>1
      <4>3. PathValue(tree, m) = PathValue(tree, tree[m].parent) \o tree[m].value
        BY <2>1, <4>1
      <4> QED
        BY ONLY <3>3, <4>1, <4>2, <4>3, Zenon
    <3> QED
      BY <3>1, <3>2, <3>3
  <2> QED
    BY <2>3, <2>4 DEF IsValues
<1>8. paths \in [DOMAIN tree2 -> SUBSET Nodes(tree2)] /\ IsPaths(tree2, paths)
  <2>1. /\ Path(tree, Root) = {}
        /\ \A m \in Nodes(tree) : Path(tree, m) = {m} \cup Path(tree, tree[m].parent)
        /\ \A m \in DOMAIN tree : Path(tree, m) \subseteq Nodes(tree)
    BY TreePaths
  <2>2. paths \in [DOMAIN tree2 -> SUBSET Nodes(tree2)]
    BY <1>1, <1>2, <1>3, <2>1
  <2>3. ASSUME NEW m \in DOMAIN tree2
        PROVE  paths[m] = IF m = Root THEN {} ELSE {m} \cup paths[tree2[m].parent]
    <3>1. CASE m = Root
      BY <1>1, <2>1, <3>1
    <3>2. CASE m = new
      <4>1. paths[m] = {new} \cup Path(tree, p) /\ tree2[m] = node
        BY <1>2, <3>2
      <4>2. paths[p] = Path(tree, p)
        BY <1>1, <1>2
      <4> QED
        BY ONLY <1>1, <3>2, <4>1, <4>2, p = node.parent
    <3>3. CASE m \notin {Root, new}
      <4>1. m \in Nodes(tree) /\ tree[m].parent \in DOMAIN tree /\ tree2[m] = tree[m]
        BY <1>2, <1>3, <1>4, <3>3 DEF Nodes
      <4>2. paths[m] = Path(tree, m) /\ paths[tree[m].parent] = Path(tree, tree[m].parent)
        BY <1>1, <1>2, <3>3, <4>1
      <4>3. Path(tree, m) = {m} \cup Path(tree, tree[m].parent)
        BY <2>1, <4>1
      <4> QED
        BY ONLY <3>3, <4>1, <4>2, <4>3
    <3> QED
      BY <3>1, <3>2, <3>3
  <2>4. paths = [m \in DOMAIN tree2 |-> paths[m]]
    OBVIOUS
  <2>5. IsPaths(tree2, paths)
    <3> HIDE DEF paths
    <3> QED
      BY <2>3, <2>4 DEF IsPaths
  <2> QED
    BY <2>2, <2>5
<1> HIDE DEF keys, values, paths
<1>9. /\ IsTree(tree2)
      /\ \A m \in DOMAIN tree2 : /\ PathKey(tree2, m) = keys[m]
                                 /\ PathValue(tree2, m) = values[m]
                                 /\ Path(tree2, m) = paths[m]
  BY ONLY <1>5, <1>6, <1>7, <1>8, TreeIs
<1>10. /\ new \in DOMAIN tree2 /\ \A m \in DOMAIN tree : m \in DOMAIN tree2 /\ m # new
  BY <1>1, <1>2
<1>11. /\ keys[new] = PathKey(tree, p) \o node.key
       /\ values[new] = PathValue(tree, p) \o node.value
       /\ paths[new] = {new} \cup Path(tree, p)
       /\ \A m \in DOMAIN tree : keys[m] = PathKey(tree, m) /\ values[m] = PathValue(tree, m)
                                 /\ paths[m] = Path(tree, m)
  BY <1>10 DEF keys, values, paths
<1> QED
  BY ONLY <1>9, <1>10, <1>11, p = node.parent, Zenon DEF GrowKeeps

(* Nor does a leaf that is gone. *)
LEMMA ShrinkTree ==
    ASSUME NEW tree, IsTree(tree), NEW n \in Nodes(tree), IsLeaf(tree, n),
           NEW tree2, tree2 = [m \in DOMAIN tree \ {n} |-> tree[m]]
    PROVE  /\ IsTree(tree2)
           /\ \A m \in DOMAIN tree \ {n} : /\ PathKey(tree2, m) = PathKey(tree, m)
                                           /\ PathValue(tree2, m) = PathValue(tree, m)
                                           /\ Path(tree2, m) = Path(tree, m)
                                           /\ n \notin Path(tree, m)
<1>1. /\ IsFiniteSet(DOMAIN tree) /\ DOMAIN tree \subseteq Nat /\ Root \in DOMAIN tree
      /\ tree \in [DOMAIN tree -> Node] /\ tree[Root].ref_count = 1
      /\ n # Root /\ n \in DOMAIN tree
  BY DEF IsTree, Linked, Nodes
<1>2. /\ DOMAIN tree2 = DOMAIN tree \ {n} /\ \A m \in DOMAIN tree2 : tree2[m] = tree[m]
      /\ tree2 \in [DOMAIN tree2 -> Node]
  BY <1>1
<1>3. Nodes(tree2) = Nodes(tree) \ {n}
  BY <1>1, <1>2 DEF Nodes
<1>4. \A m \in Nodes(tree2) : m \in Nodes(tree) /\ m \in DOMAIN tree2 /\ m # Root
                              /\ tree[m].parent \in DOMAIN tree2
  BY <1>2 DEF IsTree, Linked, Nodes, IsLeaf, Children
<1>5. Linked(tree2)
  <2>1. IsFiniteSet(DOMAIN tree2)
    <3>1. IsFiniteSet(DOMAIN tree \ {n})
      BY <1>1, FS_RemoveElement
    <3> QED
      BY <1>2, <3>1
  <2>2. ASSUME NEW m \in Nodes(tree2)
        PROVE  /\ tree2[m].parent \in DOMAIN tree2 /\ tree2[m].key # <<>>
               /\ Len(tree2[m].key) = PageSize * Len(tree2[m].value)
    <3>1. m \in Nodes(tree) /\ tree2[m] = tree[m] /\ tree[m].parent \in DOMAIN tree2
      BY <1>2, <1>4
    <3> QED
      BY <3>1 DEF IsTree, Linked
  <2>3. DOMAIN tree2 \subseteq Nat /\ Root \in DOMAIN tree2 /\ tree2[Root].ref_count = 1
    BY <1>1, <1>2
  <2> QED
    BY <1>2, <2>1, <2>2, <2>3 DEF Linked
<1> PICK keys : keys = [m \in DOMAIN tree2 |-> PathKey(tree, m)]
  OBVIOUS
<1> PICK values : values = [m \in DOMAIN tree2 |-> PathValue(tree, m)]
  OBVIOUS
<1> PICK f : f = [m \in DOMAIN tree2 |-> Path(tree, m)]
  OBVIOUS
<1>6. keys \in [DOMAIN tree2 -> Seq(Token)] /\ IsKeys(tree2, keys)
  <2>1. /\ PathKey(tree, Root) = <<>>
        /\ \A m \in Nodes(tree) : PathKey(tree, m) = PathKey(tree, tree[m].parent) \o tree[m].key
        /\ \A m \in DOMAIN tree2 : PathKey(tree, m) \in Seq(Token)
    BY <1>2, TreeKeys
  <2>2. ASSUME NEW m \in DOMAIN tree2
        PROVE  keys[m] = IF m = Root THEN <<>> ELSE keys[tree2[m].parent] \o tree2[m].key
    <3>1. CASE m = Root
      BY <1>1, <2>1, <3>1
    <3>2. CASE m # Root
      <4>1. m \in Nodes(tree) /\ tree[m].parent \in DOMAIN tree2 /\ tree2[m] = tree[m]
        BY <1>2, <1>4, <3>2 DEF Nodes
      <4>2. keys[m] = PathKey(tree, m) /\ keys[tree[m].parent] = PathKey(tree, tree[m].parent)
        BY <4>1
      <4>3. PathKey(tree, m) = PathKey(tree, tree[m].parent) \o tree[m].key
        BY <2>1, <4>1
      <4> QED
        BY ONLY <3>2, <4>1, <4>2, <4>3, Zenon
    <3> QED
      BY <3>1, <3>2
  <2> QED
    BY <2>1, <2>2 DEF IsKeys
<1>7. values \in [DOMAIN tree2 -> Seq(Page)] /\ IsValues(tree2, values)
  <2>1. /\ PathValue(tree, Root) = <<>>
        /\ \A m \in Nodes(tree) : PathValue(tree, m) = PathValue(tree, tree[m].parent) \o tree[m].value
        /\ \A m \in DOMAIN tree2 : PathValue(tree, m) \in Seq(Page)
    BY <1>2, TreeValues
  <2>2. ASSUME NEW m \in DOMAIN tree2
        PROVE  values[m] = IF m = Root THEN <<>> ELSE values[tree2[m].parent] \o tree2[m].value
    <3>1. CASE m = Root
      BY <1>1, <2>1, <3>1
    <3>2. CASE m # Root
      <4>1. m \in Nodes(tree) /\ tree[m].parent \in DOMAIN tree2 /\ tree2[m] = tree[m]
        BY <1>2, <1>4, <3>2 DEF Nodes
      <4>2. values[m] = PathValue(tree, m) /\ values[tree[m].parent] = PathValue(tree, tree[m].parent)
        BY <4>1
      <4>3. PathValue(tree, m) = PathValue(tree, tree[m].parent) \o tree[m].value
        BY <2>1, <4>1
      <4> QED
        BY ONLY <3>2, <4>1, <4>2, <4>3, Zenon
    <3> QED
      BY <3>1, <3>2
  <2> QED
    BY <2>1, <2>2 DEF IsValues
<1>8. /\ f \in [DOMAIN tree2 -> SUBSET Nodes(tree2)] /\ IsPaths(tree2, f)
      /\ \A m \in DOMAIN tree2 : n \notin f[m]
  <2>1. /\ Path(tree, Root) = {}
        /\ \A m \in Nodes(tree) : Path(tree, m) = {m} \cup Path(tree, tree[m].parent)
        /\ \A m \in DOMAIN tree : Path(tree, m) \subseteq Nodes(tree)
    BY TreePaths
  <2>2. ASSUME NEW m \in DOMAIN tree2
        PROVE  f[m] = IF m = Root THEN {} ELSE {m} \cup f[tree2[m].parent]
    <3>1. CASE m = Root
      BY <1>1, <2>1, <3>1
    <3>2. CASE m # Root
      <4>1. m \in Nodes(tree) /\ tree[m].parent \in DOMAIN tree2 /\ tree2[m] = tree[m]
        BY <1>2, <1>4, <3>2 DEF Nodes
      <4>2. f[m] = Path(tree, m) /\ f[tree[m].parent] = Path(tree, tree[m].parent)
        BY <4>1
      <4>3. Path(tree, m) = {m} \cup Path(tree, tree[m].parent)
        BY <2>1, <4>1
      <4> QED
        BY ONLY <3>2, <4>1, <4>2, <4>3
    <3> QED
      BY <3>1, <3>2
  <2>3. IsPaths(tree2, f)
    BY <2>2 DEF IsPaths
  <2> DEFINE S == {n} \cup {m \in DOMAIN tree2 : n \notin Path(tree, m)}
  <2>4. Root \in S
    BY <1>1, <1>2, <2>1
  <2>5. ASSUME NEW m \in Nodes(tree), tree[m].parent \in S
        PROVE  m \in S
    <3>1. CASE m = n
      BY <3>1
    <3>2. CASE m # n
      <4>1. m \in DOMAIN tree2 /\ tree[m].parent \in DOMAIN tree2
        BY <1>3, <1>4, <3>2
      <4>2. n \notin Path(tree, tree[m].parent)
        BY <1>2, <2>5, <4>1
      <4>3. n \notin Path(tree, m)
        BY <2>1, <3>2, <4>2
      <4> QED
        BY <4>1, <4>3
    <3> QED
      BY <3>1, <3>2
  <2>6. DOMAIN tree \subseteq S
    <3> HIDE DEF S
    <3> QED
      BY <2>4, <2>5, OnTree
  <2>7. \A m \in DOMAIN tree2 : n \notin f[m]
    BY <1>2, <2>6
  <2>8. f \in [DOMAIN tree2 -> SUBSET Nodes(tree2)]
    <3>1. ASSUME NEW m \in DOMAIN tree2
          PROVE  f[m] \in SUBSET Nodes(tree2)
      <4>1. f[m] = Path(tree, m) /\ m \in DOMAIN tree
        BY <1>2
      <4>2. Path(tree, m) \subseteq Nodes(tree)
        BY <2>1, <4>1
      <4>3. n \notin f[m]
        BY <2>7
      <4> QED
        BY ONLY <1>3, <4>1, <4>2, <4>3
    <3>2. f = [m \in DOMAIN tree2 |-> f[m]]
      OBVIOUS
    <3> QED
      BY ONLY <3>1, <3>2
  <2> QED
    BY <2>3, <2>7, <2>8
<1>9. /\ IsTree(tree2)
      /\ \A m \in DOMAIN tree2 : /\ PathKey(tree2, m) = keys[m]
                                 /\ PathValue(tree2, m) = values[m]
                                 /\ Path(tree2, m) = f[m]
  BY ONLY <1>5, <1>6, <1>7, <1>8, TreeIs
<1> QED
  BY <1>2, <1>8, <1>9


-----------------------------------------------------------------------------
(* Tokens *)

(* Nodes whose keys can be added up. *)
HasLengths(tree, N) == IsFiniteSet(N) /\ \A n \in N : Len(tree[n].key) \in Nat

Positions(tree, N) == [n \in N |-> 1..Len(tree[n].key)]

(* TokensIn counts the positions in the keys. *)
LEMMA TokensCount ==
    ASSUME NEW tree, NEW N, HasLengths(tree, N), NEW E,
           \A n \in N : E[n] = 1..Len(tree[n].key)
    PROVE  /\ TokensIn(tree, N) = Cardinality(Pairs(N, E)) /\ TokensIn(tree, N) \in Nat
           /\ IsFiniteSet(Pairs(N, E))
<1> DEFINE Body(it) ==
        [s \in SUBSET N |->
            IF s = {} THEN 0
            ELSE Len(tree[CHOOSE x \in s : TRUE].key) + it[s \ {CHOOSE x \in s : TRUE}]]
<1> DEFINE sum == CHOOSE it : it = Body(it)
<1>0. \A n \in N : /\ IsFiniteSet(E[n]) /\ Cardinality(E[n]) = Len(tree[n].key)
  <2> TAKE n \in N
  <2> PICK l \in Nat : l = Len(tree[n].key)
    BY DEF HasLengths
  <2>1. IsFiniteSet(1..l) /\ Cardinality(1..l) = IF 1 > l THEN 0 ELSE l - 1 + 1
    BY ONLY l \in Nat, FS_Interval
  <2>2. Cardinality(1..l) = l
    BY <2>1
  <2> QED
    BY <2>1, <2>2
<1>1. TokensIn(tree, N) = sum[N]
  BY DEF TokensIn, MapThenSumSet, MapThenFoldSet
<1>2. ASSUME NEW it
      PROVE  it = Body(it) <=> Recurs(it, N, E)
  <2>1. ASSUME NEW s \in SUBSET N, s # {}
        PROVE  Len(tree[CHOOSE x \in s : TRUE].key) = Cardinality(E[CHOOSE x \in s : TRUE])
    <3>1. (CHOOSE x \in s : TRUE) \in N
      BY <2>1
    <3> QED
      BY <1>0, <3>1
  <2>2. Body(it) = [s \in SUBSET N |->
            IF s = {} THEN 0
            ELSE Cardinality(E[CHOOSE x \in s : TRUE]) + it[s \ {CHOOSE x \in s : TRUE}]]
    BY <2>1
  <2> QED
    BY <2>2 DEF Recurs
<1>3. \E it : it = Body(it)
  <2>1. IsFiniteSet(N) /\ \A n \in N : IsFiniteSet(E[n])
    BY <1>0 DEF HasLengths
  <2>2. Recurs([s \in SUBSET N |-> Cardinality(Pairs(s, E))], N, E)
    BY ONLY <2>1, PairsRecur
  <2> HIDE DEF Body
  <2> QED
    BY <1>2, <2>2
<1>4. sum = Body(sum)
  <2> HIDE DEF Body
  <2> QED
    BY <1>3, Zenon
<1>5. Recurs(sum, N, E)
  BY <1>2, <1>4
<1> HIDE DEF sum
<1>6. sum[N] = Cardinality(Pairs(N, E)) /\ IsFiniteSet(Pairs(N, E)) /\ Cardinality(Pairs(N, E)) \in Nat
  <2>1. IsFiniteSet(N) /\ \A n \in N : IsFiniteSet(E[n])
    BY <1>0 DEF HasLengths
  <2> QED
    BY ONLY <1>5, <2>1, RecurrenceIsCount, PairsCount
<1> QED
  BY <1>1, <1>6

(* Sets of nodes apart from each other. *)
LEMMA TokensApart ==
    ASSUME NEW tree, NEW A, NEW B, HasLengths(tree, A), HasLengths(tree, B), A \cap B = {}
    PROVE  /\ TokensIn(tree, A \cup B) = TokensIn(tree, A) + TokensIn(tree, B)
           /\ TokensIn(tree, A) \in Nat /\ TokensIn(tree, B) \in Nat
           /\ HasLengths(tree, A \cup B)
<1> PICK N : N = A \cup B
  OBVIOUS
<1> PICK E : E = Positions(tree, N)
  OBVIOUS
<1>1. HasLengths(tree, N)
  <2>1. IsFiniteSet(A) /\ IsFiniteSet(B) /\ \A n \in N : Len(tree[n].key) \in Nat
    BY DEF HasLengths
  <2>2. IsFiniteSet(N)
    BY <2>1, FS_Union
  <2> QED
    BY <2>1, <2>2 DEF HasLengths
<1>2. \A n \in N : E[n] = 1..Len(tree[n].key)
  BY DEF Positions
<1>3. /\ TokensIn(tree, N) = Cardinality(Pairs(N, E))
      /\ TokensIn(tree, A) = Cardinality(Pairs(A, E)) /\ IsFiniteSet(Pairs(A, E))
      /\ TokensIn(tree, B) = Cardinality(Pairs(B, E)) /\ IsFiniteSet(Pairs(B, E))
      /\ TokensIn(tree, A) \in Nat /\ TokensIn(tree, B) \in Nat
  <2>1. TokensIn(tree, N) = Cardinality(Pairs(N, E))
    BY ONLY <1>1, <1>2, TokensCount
  <2>2. \A n \in A : E[n] = 1..Len(tree[n].key)
    BY <1>2
  <2>3. \A n \in B : E[n] = 1..Len(tree[n].key)
    BY <1>2
  <2>4. HasLengths(tree, A) /\ HasLengths(tree, B)
    OBVIOUS
  <2> QED
    BY ONLY <2>1, <2>2, <2>3, <2>4, TokensCount
<1>4. Pairs(N, E) = Pairs(A, E) \cup Pairs(B, E) /\ Pairs(A, E) \cap Pairs(B, E) = {}
  BY DEF Pairs
<1>5. Cardinality(Pairs(N, E)) = Cardinality(Pairs(A, E)) + Cardinality(Pairs(B, E))
  BY ONLY <1>3, <1>4, UnionCount
<1> QED
  BY <1>1, <1>3, <1>5

(* One node, or none. *)
LEMMA TokensOfOne ==
    ASSUME NEW tree, NEW n, Len(tree[n].key) \in Nat
    PROVE  /\ TokensIn(tree, {n}) = Len(tree[n].key) /\ HasLengths(tree, {n})
           /\ TokensIn(tree, {}) = 0 /\ HasLengths(tree, {})
<1> PICK l \in Nat : l = Len(tree[n].key)
  OBVIOUS
<1> PICK E : E = Positions(tree, {n})
  OBVIOUS
<1>1. HasLengths(tree, {n}) /\ HasLengths(tree, {})
  BY FS_EmptySet, FS_Singleton DEF HasLengths
<1>2. E[n] = 1..l
  BY DEF Positions
<1>3. TokensIn(tree, {n}) = Cardinality(Pairs({n}, E))
  BY <1>1, <1>2, TokensCount
<1>4. Pairs({n}, E) = {n} \X (1..l)
  BY <1>2 DEF Pairs
<1>5. IsFiniteSet(1..l) /\ Cardinality(1..l) = l
  <2>1. IsFiniteSet(1..l) /\ Cardinality(1..l) = IF 1 > l THEN 0 ELSE l - 1 + 1
    BY ONLY l \in Nat, FS_Interval
  <2> QED
    BY <2>1
<1>6. Cardinality({n} \X (1..l)) = l
  BY <1>5, PairCount
<1>7. TokensIn(tree, {}) = Cardinality(Pairs({}, E))
  BY <1>1, TokensCount
<1>8. Pairs({}, E) = {} /\ Cardinality({}) = 0
  BY FS_EmptySet DEF Pairs
<1> QED
  BY <1>1, <1>3, <1>4, <1>6, <1>7, <1>8

(* Keys of the same lengths. *)
LEMMA TokensSame ==
    ASSUME NEW tree, NEW tree2, NEW N, HasLengths(tree, N),
           \A n \in N : Len(tree2[n].key) = Len(tree[n].key)
    PROVE  TokensIn(tree2, N) = TokensIn(tree, N) /\ HasLengths(tree2, N)
<1> PICK E : E = Positions(tree, N)
  OBVIOUS
<1>1. \A n \in N : E[n] = 1..Len(tree[n].key) /\ E[n] = 1..Len(tree2[n].key)
  BY DEF Positions
<1>2. HasLengths(tree2, N)
  BY DEF HasLengths
<1> QED
  BY <1>1, <1>2, TokensCount

(* Any nodes of a tree have keys that can be added up. *)
LEMMA TreeLengths ==
    ASSUME NEW tree, IsTree(tree), NEW N, N \subseteq DOMAIN tree
    PROVE  HasLengths(tree, N) /\ TokensIn(tree, N) \in Nat
<1>1. IsFiniteSet(N)
  BY FS_Subset DEF IsTree, Linked
<1>2. \A n \in N : Len(tree[n].key) \in Nat
  <2> TAKE n \in N
  <2>1. tree[n].key \in Seq(Token)
    BY DEF IsTree, Linked, Node
  <2> QED
    BY <2>1, LenProperties
<1>3. HasLengths(tree, N)
  BY <1>1, <1>2 DEF HasLengths
<1> PICK E : E = Positions(tree, N)
  OBVIOUS
<1>4. \A n \in N : E[n] = 1..Len(tree[n].key)
  BY DEF Positions
<1> QED
  BY <1>3, <1>4, TokensCount


-----------------------------------------------------------------------------
(* The invariant *)

Handle == [node : Nat, cached_len : Nat]

(* Handles point into the tree hd is for, at what they cover. *)
HandlesIn(tree, hd) ==
    /\ hd \in [Client -> Handle \cup {NoHandle}]
    /\ \A c \in Client : hd[c] # NoHandle =>
          /\ hd[c].node \in DOMAIN tree
          /\ Len(PathKey(tree, hd[c].node)) = hd[c].cached_len

Holders(tree, hd, n) == {c \in Client : hd[c] # NoHandle /\ n \in Path(tree, hd[c].node)}

Counted(tree, hd) ==
    \A n \in Nodes(tree) : tree[n].ref_count = Cardinality(Holders(tree, hd, n))

Free(tree) == {n \in Nodes(tree) : tree[n].ref_count = 0}

Sized(tree, ev, pr) ==
    ev = TokensIn(tree, Free(tree)) /\ pr = TokensIn(tree, Nodes(tree) \ Free(tree))

CacheInv(tree, ev, pr, hd) ==
    IsTree(tree) /\ HandlesIn(tree, hd) /\ Counted(tree, hd) /\ Sized(tree, ev, pr)

(* A time stamp is in no count. *)
LEMMA StampInv ==
    ASSUME NEW tree, NEW ev, NEW pr, NEW hd, CacheInv(tree, ev, pr, hd),
           NEW tree2, SameShape(tree, tree2), tree2 \in [DOMAIN tree2 -> Node],
           \A n \in DOMAIN tree : tree2[n].ref_count = tree[n].ref_count
    PROVE  CacheInv(tree2, ev, pr, hd)
<1>0. IsTree(tree) /\ Root \in DOMAIN tree /\ tree[Root].ref_count = 1
  BY DEF CacheInv, IsTree, Linked
<1>1. /\ IsTree(tree2)
      /\ \A n \in DOMAIN tree : PathKey(tree2, n) = PathKey(tree, n) /\ Path(tree2, n) = Path(tree, n)
  BY <1>0, ShapeKept
<1>2. DOMAIN tree2 = DOMAIN tree /\ Nodes(tree2) = Nodes(tree) /\ Nodes(tree) \subseteq DOMAIN tree
      /\ \A n \in DOMAIN tree : tree2[n].key = tree[n].key
  BY DEF SameShape, Nodes
<1>3. HandlesIn(tree2, hd)
  BY <1>1, <1>2 DEF CacheInv, HandlesIn
<1>4. \A n : Holders(tree2, hd, n) = Holders(tree, hd, n)
  BY <1>1 DEF CacheInv, HandlesIn, Holders
<1>5. Counted(tree2, hd)
  BY <1>2, <1>4 DEF CacheInv, Counted
<1>6. Free(tree2) = Free(tree) /\ Free(tree) \subseteq Nodes(tree)
  BY <1>2 DEF Free
<1>7. /\ TokensIn(tree2, Free(tree)) = TokensIn(tree, Free(tree))
      /\ TokensIn(tree2, Nodes(tree) \ Free(tree)) = TokensIn(tree, Nodes(tree) \ Free(tree))
  <2>1. HasLengths(tree, Free(tree)) /\ HasLengths(tree, Nodes(tree) \ Free(tree))
    BY <1>0, <1>2, <1>6, TreeLengths
  <2>2. /\ \A n \in Free(tree) : Len(tree2[n].key) = Len(tree[n].key)
        /\ \A n \in Nodes(tree) \ Free(tree) : Len(tree2[n].key) = Len(tree[n].key)
    BY <1>2, <1>6
  <2> QED
    BY ONLY <2>1, <2>2, TokensSame
<1>8. Sized(tree2, ev, pr)
  BY <1>2, <1>6, <1>7 DEF CacheInv, Sized
<1> QED
  BY <1>1, <1>3, <1>5, <1>8 DEF CacheInv

(* When the keys of A grow by l tokens in all, so does their sum: of the nodes   *)
(* F, those in A are replaced by those in B.                                     *)
LEMMA TokensReplaced ==
    ASSUME NEW tree, NEW tree2, NEW F, NEW A, NEW B, A \subseteq F, B \cap (F \ A) = {},
           HasLengths(tree, F), HasLengths(tree2, B),
           \A n \in F \ A : Len(tree2[n].key) = Len(tree[n].key)
    PROVE  /\ TokensIn(tree2, (F \ A) \cup B) + TokensIn(tree, A)
                = TokensIn(tree, F) + TokensIn(tree2, B)
           /\ TokensIn(tree2, (F \ A) \cup B) \in Nat /\ TokensIn(tree, A) \in Nat
           /\ TokensIn(tree, F) \in Nat /\ TokensIn(tree2, B) \in Nat
<1> PICK G : G = F \ A
  OBVIOUS
<1>1. HasLengths(tree, G) /\ HasLengths(tree, A)
  <2>1. G \in SUBSET F /\ A \in SUBSET F /\ IsFiniteSet(F)
    BY DEF HasLengths
  <2>2. IsFiniteSet(G) /\ IsFiniteSet(A)
    BY ONLY <2>1, FS_Subset
  <2> QED
    BY <2>1, <2>2 DEF HasLengths
<1>2. TokensIn(tree2, G) = TokensIn(tree, G) /\ HasLengths(tree2, G)
  BY <1>1, TokensSame
<1>3. /\ TokensIn(tree2, G \cup B) = TokensIn(tree2, G) + TokensIn(tree2, B)
      /\ TokensIn(tree2, G) \in Nat /\ TokensIn(tree2, B) \in Nat
  <2>1. G \cap B = {} /\ HasLengths(tree2, B)
    OBVIOUS
  <2> QED
    BY ONLY <1>2, <2>1, TokensApart
<1>4. /\ TokensIn(tree, G \cup A) = TokensIn(tree, G) + TokensIn(tree, A)
      /\ TokensIn(tree, A) \in Nat
  <2>1. G \cap A = {}
    OBVIOUS
  <2> QED
    BY ONLY <1>1, <2>1, TokensApart
<1>5. G \cup A = F
  OBVIOUS
<1>6. TokensIn(tree, F) = TokensIn(tree, G) + TokensIn(tree, A)
  BY ONLY <1>4, <1>5
<1> QED
  BY ONLY <1>2, <1>3, <1>4, <1>6, G = F \ A


(* Both halves of a node are referenced as it was, and have its tokens. *)
LEMMA SplitInv ==
    ASSUME NEW tree, NEW ev, NEW pr, NEW hd, CacheInv(tree, ev, pr, hd),
           NEW n \in Nodes(tree), NEW new \in Nat \ DOMAIN tree,
           NEW k \in Nat, NEW pos, pos = PageSize * k, 0 < pos, pos < Len(tree[n].key),
           NEW tree2, IsSplit(tree, tree2, n, new, pos)
    PROVE  CacheInv(tree2, ev, pr, hd)
<1>0. IsTree(tree)
  BY DEF CacheInv
<1>1. /\ IsTree(tree2)
      /\ \A m \in DOMAIN tree :
            /\ PathKey(tree2, m) = PathKey(tree, m)
            /\ Path(tree2, m) = Path(tree, m) \cup (IF n \in Path(tree, m) THEN {new} ELSE {})
  <2>1. /\ IsTree(tree) /\ n \in Nodes(tree) /\ new \in Nat \ DOMAIN tree /\ k \in Nat
        /\ pos = PageSize * k /\ 0 < pos /\ pos < Len(tree[n].key)
        /\ IsSplit(tree, tree2, n, new, pos)
    BY <1>0
  <2>2. SplitKeeps(tree, tree2, n, new)
    BY ONLY <2>1, SplitTree
  <2> QED
    BY ONLY <2>2, Zenon DEF SplitKeeps
<1>2. Halves(tree, tree2, n, new, pos)
  <2>1. /\ IsTree(tree) /\ n \in Nodes(tree) /\ new \in Nat \ DOMAIN tree /\ k \in Nat
        /\ pos = PageSize * k /\ 0 < pos /\ pos < Len(tree[n].key)
        /\ IsSplit(tree, tree2, n, new, pos)
    BY <1>0
  <2> QED
    BY ONLY <2>1, SplitFields
<1>3. /\ Len(tree2[new].key) = pos /\ Len(tree2[n].key) = Len(tree[n].key) - pos
      /\ tree2[new].ref_count = tree[n].ref_count /\ tree2[n].ref_count = tree[n].ref_count
  BY <1>2, Zenon DEF Halves
<1>4. /\ DOMAIN tree2 = DOMAIN tree \cup {new} /\ n \in DOMAIN tree
      /\ \A m \in DOMAIN tree \ {n} : tree2[m] = tree[m]
      /\ Root \in DOMAIN tree /\ new # n /\ new # Root /\ n # Root /\ new \notin DOMAIN tree
  BY <1>0 DEF IsSplit, IsTree, Linked, Nodes
<1>5. Nodes(tree2) = Nodes(tree) \cup {new} /\ Nodes(tree) \subseteq DOMAIN tree
      /\ new \notin Nodes(tree)
  BY <1>4 DEF Nodes
<1>6. HandlesIn(tree2, hd)
  BY <1>1, <1>4 DEF CacheInv, HandlesIn
<1>7. /\ \A m \in Nodes(tree) : Holders(tree2, hd, m) = Holders(tree, hd, m)
      /\ Holders(tree2, hd, new) = Holders(tree, hd, n)
  <2>1. \A c \in Client : hd[c] # NoHandle => hd[c].node \in DOMAIN tree
    BY DEF CacheInv, HandlesIn
  <2>2. \A m \in DOMAIN tree : Path(tree, m) \subseteq Nodes(tree)
    BY <1>0, TreePaths
  <2>3. ASSUME NEW m \in DOMAIN tree
        PROVE  /\ new \in Path(tree2, m) <=> n \in Path(tree, m)
               /\ \A x \in Nodes(tree) : x \in Path(tree2, m) <=> x \in Path(tree, m)
    <3>1. Path(tree, m) \subseteq Nodes(tree)
      BY <2>2
    <3>2. Path(tree2, m) = Path(tree, m) \cup (IF n \in Path(tree, m) THEN {new} ELSE {})
      BY <1>1
    <3> QED
      BY ONLY <1>5, <3>1, <3>2
  <2>4. ASSUME NEW m \in Nodes(tree)
        PROVE  Holders(tree2, hd, m) = Holders(tree, hd, m)
    BY <2>1, <2>3 DEF Holders
  <2>5. Holders(tree2, hd, new) = Holders(tree, hd, n)
    BY <2>1, <2>3 DEF Holders
  <2> QED
    BY <2>4, <2>5
<1>8. Counted(tree2, hd)
  <2>1. \A m \in Nodes(tree) : tree[m].ref_count = Cardinality(Holders(tree, hd, m))
    BY DEF CacheInv, Counted
  <2>2. ASSUME NEW m \in Nodes(tree2)
        PROVE  tree2[m].ref_count = Cardinality(Holders(tree2, hd, m))
    <3>1. CASE m = new
      BY <1>3, <1>7, <2>1, <3>1
    <3>2. CASE m = n
      BY <1>3, <1>7, <2>1, <3>2
    <3>3. CASE m \notin {n, new}
      BY <1>4, <1>5, <1>7, <2>1, <3>3
    <3> QED
      BY <3>1, <3>2, <3>3
  <2> QED
    BY <2>2 DEF Counted
<1>9. ASSUME NEW F, F \subseteq Nodes(tree), n \in F
      PROVE  TokensIn(tree2, F \cup {new}) = TokensIn(tree, F)
  <2> PICK B : B = {n} \cup {new}
    OBVIOUS
  <2>1. HasLengths(tree, F) /\ HasLengths(tree2, B) /\ Len(tree[n].key) \in Nat
    <3>1. F \subseteq DOMAIN tree /\ B \subseteq DOMAIN tree2
      BY <1>4, <1>5, <1>9
    <3> QED
      BY <1>0, <1>1, <1>9, <3>1, TreeLengths DEF HasLengths
  <2>2. \A m \in F \ {n} : Len(tree2[m].key) = Len(tree[m].key)
    BY <1>4, <1>5, <1>9
  <2>3. TokensIn(tree2, B) = TokensIn(tree2, {n}) + TokensIn(tree2, {new})
    <3>1. Len(tree2[n].key) \in Nat /\ Len(tree2[new].key) \in Nat
      BY <2>1 DEF HasLengths
    <3>2. HasLengths(tree2, {n}) /\ HasLengths(tree2, {new}) /\ {n} \cap {new} = {}
      BY <1>4, <3>1, TokensOfOne
    <3> QED
      BY <3>2, TokensApart
  <2>4. /\ TokensIn(tree2, {n}) = Len(tree2[n].key) /\ TokensIn(tree2, {new}) = Len(tree2[new].key)
        /\ TokensIn(tree, {n}) = Len(tree[n].key)
        /\ Len(tree2[n].key) \in Nat /\ Len(tree2[new].key) \in Nat
    <3>1. Len(tree2[n].key) \in Nat /\ Len(tree2[new].key) \in Nat
      BY <2>1 DEF HasLengths
    <3> QED
      BY <2>1, <3>1, TokensOfOne
  <2>5. TokensIn(tree2, B) = TokensIn(tree, {n})
    BY ONLY <1>3, <2>1, <2>3, <2>4
  <2>6. /\ TokensIn(tree2, (F \ {n}) \cup B) + TokensIn(tree, {n})
            = TokensIn(tree, F) + TokensIn(tree2, B)
        /\ TokensIn(tree2, (F \ {n}) \cup B) \in Nat /\ TokensIn(tree, {n}) \in Nat
        /\ TokensIn(tree, F) \in Nat /\ TokensIn(tree2, B) \in Nat
    <3>1. {n} \subseteq F /\ B \cap (F \ {n}) = {}
      BY <1>4, <1>5, <1>9
    <3> QED
      BY ONLY <2>1, <2>2, <3>1, TokensReplaced
  <2>7. (F \ {n}) \cup B = F \cup {new}
    BY <1>9
  <2>8. TokensIn(tree2, F \cup {new}) = TokensIn(tree2, (F \ {n}) \cup B)
    BY ONLY <2>7
  <2> QED
    BY ONLY <2>5, <2>6, <2>8
<1>10. ASSUME NEW F, F \subseteq Nodes(tree), n \notin F
       PROVE  TokensIn(tree2, F) = TokensIn(tree, F)
  <2>1. HasLengths(tree, F)
    BY <1>0, <1>5, <1>10, TreeLengths
  <2>2. \A m \in F : Len(tree2[m].key) = Len(tree[m].key)
    BY <1>4, <1>5, <1>10
  <2> QED
    BY <2>1, <2>2, TokensSame
<1>11. Sized(tree2, ev, pr)
  <2>1. ev = TokensIn(tree, Free(tree)) /\ pr = TokensIn(tree, Nodes(tree) \ Free(tree))
    BY DEF CacheInv, Sized
  <2>2. \A m \in Nodes(tree) : m \in Free(tree2) <=> m \in Free(tree)
    BY <1>3, <1>4, <1>5 DEF Free
  <2>3. new \in Free(tree2) <=> n \in Free(tree)
    BY <1>3, <1>5 DEF Free
  <2>4. Free(tree2) \subseteq Nodes(tree2) /\ Free(tree) \subseteq Nodes(tree)
    BY DEF Free
  <2>5. CASE n \in Free(tree)
    <3>1. Free(tree2) = Free(tree) \cup {new}
      BY <1>5, <2>2, <2>3, <2>4, <2>5
    <3>2. Nodes(tree2) \ Free(tree2) = Nodes(tree) \ Free(tree)
      BY <1>5, <3>1
    <3>3. TokensIn(tree2, Free(tree) \cup {new}) = TokensIn(tree, Free(tree))
      BY <1>9, <2>4, <2>5
    <3>4. TokensIn(tree2, Nodes(tree) \ Free(tree)) = TokensIn(tree, Nodes(tree) \ Free(tree))
      BY <1>10, <2>5
    <3> QED
      BY <2>1, <3>1, <3>2, <3>3, <3>4 DEF Sized
  <2>6. CASE n \notin Free(tree)
    <3>1. Free(tree2) = Free(tree)
      BY <1>5, <2>2, <2>3, <2>4, <2>6
    <3>2. Nodes(tree2) \ Free(tree2) = (Nodes(tree) \ Free(tree)) \cup {new}
      BY <1>5, <2>4, <3>1
    <3>3. TokensIn(tree2, (Nodes(tree) \ Free(tree)) \cup {new}) = TokensIn(tree, Nodes(tree) \ Free(tree))
      BY <1>9, <2>6
    <3>4. TokensIn(tree2, Free(tree)) = TokensIn(tree, Free(tree))
      BY <1>10, <2>4, <2>6
    <3> QED
      BY <2>1, <3>1, <3>2, <3>3, <3>4 DEF Sized
  <2> QED
    BY <2>5, <2>6
<1> QED
  BY <1>1, <1>6, <1>8, <1>11 DEF CacheInv


(* A new leaf is nobody's yet. *)
LEMMA GrowInv ==
    ASSUME NEW tree, NEW ev, NEW pr, NEW hd, CacheInv(tree, ev, pr, hd),
           NEW new \in Nat \ DOMAIN tree, NEW node \in Node,
           node.parent \in DOMAIN tree, node.key # <<>>,
           Len(node.key) = PageSize * Len(node.value), node.ref_count = 0,
           NEW tree2, tree2 = Grown(tree, new, node)
    PROVE  /\ CacheInv(tree2, ev + Len(node.key), pr, hd)
           /\ GrowKeeps(tree, tree2, new, node)
<1>0. IsTree(tree)
  BY DEF CacheInv
<1>1. GrowKeeps(tree, tree2, new, node)
  <2>1. /\ IsTree(tree) /\ new \in Nat \ DOMAIN tree /\ node \in Node
        /\ node.parent \in DOMAIN tree /\ node.key # <<>>
        /\ Len(node.key) = PageSize * Len(node.value) /\ tree2 = Grown(tree, new, node)
    BY <1>0
  <2> QED
    BY ONLY <2>1, GrowTree
<1>2. /\ IsTree(tree2)
      /\ \A m \in DOMAIN tree : PathKey(tree2, m) = PathKey(tree, m) /\ Path(tree2, m) = Path(tree, m)
  BY ONLY <1>1, Zenon DEF GrowKeeps
<1>3. /\ DOMAIN tree2 = DOMAIN tree \cup {new} /\ tree2[new] = node
      /\ \A m \in DOMAIN tree : tree2[m] = tree[m]
      /\ Root \in DOMAIN tree /\ new # Root /\ new \notin DOMAIN tree
  BY <1>0 DEF Grown, IsTree, Linked
<1>4. Nodes(tree2) = Nodes(tree) \cup {new} /\ Nodes(tree) \subseteq DOMAIN tree
      /\ new \notin Nodes(tree)
  BY <1>3 DEF Nodes
<1>5. HandlesIn(tree2, hd)
  BY <1>2, <1>3 DEF CacheInv, HandlesIn
<1>6. \A m : Holders(tree2, hd, m) = Holders(tree, hd, m)
  <2>1. \A c \in Client : hd[c] # NoHandle => hd[c].node \in DOMAIN tree
    BY DEF CacheInv, HandlesIn
  <2> QED
    BY <1>2, <2>1 DEF Holders
<1>7. Holders(tree, hd, new) = {}
  <2>1. \A c \in Client : hd[c] # NoHandle => hd[c].node \in DOMAIN tree
    BY DEF CacheInv, HandlesIn
  <2>2. \A m \in DOMAIN tree : Path(tree, m) \subseteq Nodes(tree)
    BY <1>0, TreePaths
  <2> QED
    BY <1>4, <2>1, <2>2 DEF Holders
<1>8. Counted(tree2, hd)
  <2>1. Cardinality({}) = 0
    BY FS_EmptySet
  <2> QED
    BY <1>3, <1>4, <1>6, <1>7, <2>1 DEF CacheInv, Counted
<1>9. Sized(tree2, ev + Len(node.key), pr)
  <2>1. ev = TokensIn(tree, Free(tree)) /\ pr = TokensIn(tree, Nodes(tree) \ Free(tree))
    BY DEF CacheInv, Sized
  <2>2. Free(tree2) = Free(tree) \cup {new} /\ Free(tree) \subseteq Nodes(tree)
    BY <1>3, <1>4 DEF Free
  <2>3. Nodes(tree2) \ Free(tree2) = Nodes(tree) \ Free(tree)
    BY <1>4, <2>2
  <2>4. HasLengths(tree, Free(tree)) /\ HasLengths(tree, Nodes(tree) \ Free(tree))
    BY <1>0, <1>4, <2>2, TreeLengths
  <2>5. \A m \in Nodes(tree) : Len(tree2[m].key) = Len(tree[m].key)
    BY <1>3, <1>4
  <2>6. /\ TokensIn(tree2, Free(tree)) = ev /\ HasLengths(tree2, Free(tree))
        /\ TokensIn(tree2, Nodes(tree) \ Free(tree)) = pr
    BY <2>1, <2>2, <2>4, <2>5, TokensSame
  <2>7. TokensIn(tree2, {new}) = Len(node.key) /\ HasLengths(tree2, {new})
    <3>1. tree2[new].key = node.key /\ node.key \in Seq(Token)
      BY <1>3 DEF Node
    <3>2. Len(tree2[new].key) \in Nat
      BY ONLY <3>1, LenProperties
    <3> QED
      BY ONLY <3>1, <3>2, TokensOfOne
  <2>8. TokensIn(tree2, Free(tree) \cup {new}) = TokensIn(tree2, Free(tree)) + TokensIn(tree2, {new})
    <3>1. Free(tree) \cap {new} = {}
      BY <1>4, <2>2
    <3> QED
      BY ONLY <2>6, <2>7, <3>1, TokensApart
  <2> QED
    BY <2>2, <2>3, <2>6, <2>7, <2>8 DEF Sized
<1> QED
  BY ONLY <1>1, <1>2, <1>5, <1>8, <1>9 DEF CacheInv

(* A leaf that goes was nobody's. *)
LEMMA ShrinkInv ==
    ASSUME NEW tree, NEW ev, NEW pr, NEW hd, CacheInv(tree, ev, pr, hd),
           NEW n \in Nodes(tree), IsLeaf(tree, n), tree[n].ref_count = 0,
           NEW tree2, tree2 = [m \in DOMAIN tree \ {n} |-> tree[m]]
    PROVE  /\ CacheInv(tree2, ev - Len(tree[n].key), pr, hd)
           /\ Len(tree[n].key) \in Nat /\ Len(tree[n].key) <= ev /\ ev \in Nat
<1>0. IsTree(tree)
  BY DEF CacheInv
<1>1. /\ IsTree(tree2)
      /\ \A m \in DOMAIN tree \ {n} : /\ PathKey(tree2, m) = PathKey(tree, m)
                                      /\ Path(tree2, m) = Path(tree, m)
                                      /\ n \notin Path(tree, m)
  BY <1>0, ShrinkTree
<1>2. /\ DOMAIN tree2 = DOMAIN tree \ {n} /\ \A m \in DOMAIN tree2 : tree2[m] = tree[m]
      /\ Nodes(tree2) = Nodes(tree) \ {n} /\ Nodes(tree) \subseteq DOMAIN tree
  BY DEF Nodes
<1>3. \A c \in Client : hd[c] # NoHandle => hd[c].node \in DOMAIN tree /\ hd[c].node # n
  <2> TAKE c \in Client
  <2> SUFFICES ASSUME hd[c] # NoHandle PROVE hd[c].node # n
    BY DEF CacheInv, HandlesIn
  <2>1. Cardinality(Holders(tree, hd, n)) = 0
    BY DEF CacheInv, Counted
  <2>2. Holders(tree, hd, n) = {}
    <3>1. Holders(tree, hd, n) \in SUBSET Client
      BY DEF Holders
    <3>2. IsFiniteSet(Holders(tree, hd, n))
      BY ONLY <3>1, PoolAssumption, FS_Subset
    <3> QED
      BY ONLY <2>1, <3>2, FS_EmptySet
  <2>3. n \in Path(tree, n)
    <3>1. Path(tree, n) = {n} \cup Path(tree, tree[n].parent)
      BY <1>0, TreePaths
    <3> QED
      BY ONLY <3>1
  <2> QED
    BY <2>2, <2>3 DEF Holders
<1>4. HandlesIn(tree2, hd)
  BY <1>1, <1>2, <1>3 DEF CacheInv, HandlesIn
<1>5. \A m : Holders(tree2, hd, m) = Holders(tree, hd, m)
  BY <1>1, <1>3 DEF Holders
<1>6. Counted(tree2, hd)
  BY <1>2, <1>5 DEF CacheInv, Counted
<1>7. /\ Sized(tree2, ev - Len(tree[n].key), pr)
      /\ Len(tree[n].key) \in Nat /\ Len(tree[n].key) <= ev /\ ev \in Nat
  <2>1. ev = TokensIn(tree, Free(tree)) /\ pr = TokensIn(tree, Nodes(tree) \ Free(tree))
    BY DEF CacheInv, Sized
  <2>2. Free(tree2) = Free(tree) \ {n} /\ Free(tree) \subseteq Nodes(tree) /\ n \in Free(tree)
    BY <1>2 DEF Free
  <2>3. Nodes(tree2) \ Free(tree2) = Nodes(tree) \ Free(tree)
    BY <1>2, <2>2
  <2> PICK F : F = Free(tree) \ {n}
    OBVIOUS
  <2>4. HasLengths(tree, F) /\ HasLengths(tree, Nodes(tree) \ Free(tree)) /\ HasLengths(tree, {n})
    BY <1>0, <1>2, <2>2, TreeLengths
  <2>5. \A m \in Nodes(tree) \ {n} : Len(tree2[m].key) = Len(tree[m].key)
    BY <1>2
  <2>6. TokensIn(tree2, F) = TokensIn(tree, F)
    <3>1. \A m \in F : Len(tree2[m].key) = Len(tree[m].key)
      BY <2>2, <2>5
    <3> QED
      BY ONLY <2>4, <3>1, TokensSame
  <2>7. TokensIn(tree2, Nodes(tree) \ Free(tree)) = pr
    <3>1. \A m \in Nodes(tree) \ Free(tree) : Len(tree2[m].key) = Len(tree[m].key)
      BY <2>2, <2>5
    <3> QED
      BY ONLY <2>1, <2>4, <3>1, TokensSame
  <2>8. TokensIn(tree, {n}) = Len(tree[n].key) /\ Len(tree[n].key) \in Nat
    <3>1. Len(tree[n].key) \in Nat
      BY <2>4 DEF HasLengths
    <3> QED
      BY ONLY <3>1, TokensOfOne
  <2>9. /\ TokensIn(tree, F \cup {n}) = TokensIn(tree, F) + TokensIn(tree, {n})
        /\ TokensIn(tree, F) \in Nat
    <3>1. F \cap {n} = {}
      OBVIOUS
    <3> QED
      BY ONLY <2>4, <3>1, TokensApart
  <2>10. F \cup {n} = Free(tree)
    BY <2>2
  <2>11. /\ TokensIn(tree2, F) = ev - Len(tree[n].key)
         /\ Len(tree[n].key) \in Nat /\ Len(tree[n].key) <= ev /\ ev \in Nat
    <3> PICK t : t = TokensIn(tree, F)
      OBVIOUS
    <3> PICK l : l = Len(tree[n].key)
      OBVIOUS
    <3>1. ev = TokensIn(tree, F \cup {n})
      BY ONLY <2>1, <2>10
    <3>2. TokensIn(tree2, F) = t /\ t \in Nat /\ l \in Nat /\ ev = t + l
      BY ONLY <2>6, <2>8, <2>9, <3>1, t = TokensIn(tree, F), l = Len(tree[n].key)
    <3>3. t = ev - l /\ l <= ev /\ ev \in Nat
      BY ONLY <3>2
    <3> QED
      BY ONLY <3>2, <3>3, l = Len(tree[n].key)
  <2> QED
    BY <2>2, <2>3, <2>7, <2>11 DEF Sized
<1> QED
  BY ONLY <1>1, <1>4, <1>6, <1>7 DEF CacheInv


-----------------------------------------------------------------------------
(* Locking *)

(* Free nodes that are free no longer take their tokens along, and the other way. *)
LEMMA TokensMoved ==
    ASSUME NEW tree, IsTree(tree), NEW F \in SUBSET Nodes(tree), NEW M \in SUBSET F
    PROVE  /\ TokensIn(tree, F) - TokensIn(tree, M) = TokensIn(tree, F \ M)
           /\ TokensIn(tree, Nodes(tree) \ (F \ M)) = TokensIn(tree, Nodes(tree) \ F) + TokensIn(tree, M)
           /\ TokensIn(tree, F \ M) + TokensIn(tree, M) = TokensIn(tree, F)
           /\ TokensIn(tree, Nodes(tree) \ (F \ M)) - TokensIn(tree, M) = TokensIn(tree, Nodes(tree) \ F)
<1> PICK A : A = F \ M
  OBVIOUS
<1> PICK B : B = Nodes(tree) \ F
  OBVIOUS
<1>1. HasLengths(tree, A) /\ HasLengths(tree, B) /\ HasLengths(tree, M)
  <2>1. A \subseteq DOMAIN tree /\ B \subseteq DOMAIN tree /\ M \subseteq DOMAIN tree
    BY DEF Nodes
  <2> QED
    BY <2>1, TreeLengths
<1>2. A \cap M = {} /\ B \cap M = {}
  OBVIOUS
<1>3. /\ TokensIn(tree, A \cup M) = TokensIn(tree, A) + TokensIn(tree, M)
      /\ TokensIn(tree, B \cup M) = TokensIn(tree, B) + TokensIn(tree, M)
      /\ TokensIn(tree, A) \in Nat /\ TokensIn(tree, B) \in Nat /\ TokensIn(tree, M) \in Nat
  BY ONLY <1>1, <1>2, TokensApart
<1>4. A \cup M = F /\ B \cup M = Nodes(tree) \ (F \ M)
  OBVIOUS
<1> PICK a : a = TokensIn(tree, A)
  OBVIOUS
<1> PICK b : b = TokensIn(tree, B)
  OBVIOUS
<1> PICK m : m = TokensIn(tree, M)
  OBVIOUS
<1> PICK f : f = TokensIn(tree, F)
  OBVIOUS
<1> PICK g : g = TokensIn(tree, Nodes(tree) \ (F \ M))
  OBVIOUS
<1>5. a \in Nat /\ b \in Nat /\ m \in Nat
  BY ONLY <1>3, a = TokensIn(tree, A), b = TokensIn(tree, B), m = TokensIn(tree, M)
<1>6. f = a + m /\ g = b + m
  BY ONLY <1>3, <1>4, a = TokensIn(tree, A), b = TokensIn(tree, B), m = TokensIn(tree, M),
          f = TokensIn(tree, F), g = TokensIn(tree, Nodes(tree) \ (F \ M)), Zenon
<1>7. f - m = a /\ g - m = b
  BY ONLY <1>5, <1>6
<1> QED
  BY ONLY <1>6, <1>7, A = F \ M, B = Nodes(tree) \ F,
          a = TokensIn(tree, A), b = TokensIn(tree, B), m = TokensIn(tree, M),
          f = TokensIn(tree, F), g = TokensIn(tree, Nodes(tree) \ (F \ M)), Zenon

(* All of that for a tree of the same shape. *)
LEMMA SizesMoved ==
    ASSUME NEW tree, IsTree(tree), NEW tree2, SameShape(tree, tree2),
           NEW ev, NEW pr, Sized(tree, ev, pr), NEW M \in SUBSET Nodes(tree)
    PROVE  /\ M \subseteq Free(tree) /\ Free(tree2) = Free(tree) \ M
                => Sized(tree2, ev - TokensIn(tree, M), pr + TokensIn(tree, M))
           /\ M \cap Free(tree) = {} /\ Free(tree2) = Free(tree) \cup M
                => Sized(tree2, ev + TokensIn(tree, M), pr - TokensIn(tree, M))
<1>1. /\ Free(tree) \subseteq Nodes(tree) /\ Nodes(tree2) = Nodes(tree)
      /\ Free(tree2) \subseteq Nodes(tree) /\ Nodes(tree) \subseteq DOMAIN tree
  BY DEF Free, Nodes, SameShape
<1>2. ASSUME NEW N \in SUBSET Nodes(tree)
      PROVE  TokensIn(tree2, N) = TokensIn(tree, N)
  <2>1. HasLengths(tree, N)
    BY <1>1, TreeLengths
  <2>2. \A n \in N : Len(tree2[n].key) = Len(tree[n].key)
    BY <1>1 DEF SameShape
  <2> QED
    BY ONLY <2>1, <2>2, TokensSame
<1>3. /\ TokensIn(tree2, Free(tree2)) = TokensIn(tree, Free(tree2))
      /\ TokensIn(tree2, Nodes(tree2) \ Free(tree2)) = TokensIn(tree, Nodes(tree) \ Free(tree2))
  BY <1>1, <1>2
<1>4. ev = TokensIn(tree, Free(tree)) /\ pr = TokensIn(tree, Nodes(tree) \ Free(tree))
  BY DEF Sized
<1>5. ASSUME M \subseteq Free(tree), Free(tree2) = Free(tree) \ M
      PROVE  Sized(tree2, ev - TokensIn(tree, M), pr + TokensIn(tree, M))
  <2>1. /\ TokensIn(tree, Free(tree)) - TokensIn(tree, M) = TokensIn(tree, Free(tree) \ M)
        /\ TokensIn(tree, Nodes(tree) \ (Free(tree) \ M))
             = TokensIn(tree, Nodes(tree) \ Free(tree)) + TokensIn(tree, M)
    <3>1. Free(tree) \in SUBSET Nodes(tree) /\ M \in SUBSET Free(tree)
      BY <1>1, <1>5
    <3> QED
      BY <3>1, TokensMoved
  <2> QED
    BY ONLY <1>3, <1>4, <1>5, <2>1, Zenon DEF Sized
<1>6. ASSUME M \cap Free(tree) = {}, Free(tree2) = Free(tree) \cup M
      PROVE  Sized(tree2, ev + TokensIn(tree, M), pr - TokensIn(tree, M))
  <2> PICK F : F = Free(tree2)
    OBVIOUS
  <2>1. F \in SUBSET Nodes(tree) /\ M \in SUBSET F /\ Free(tree) = F \ M
    BY <1>1, <1>6
  <2>2. /\ TokensIn(tree, F \ M) + TokensIn(tree, M) = TokensIn(tree, F)
        /\ TokensIn(tree, Nodes(tree) \ (F \ M)) - TokensIn(tree, M) = TokensIn(tree, Nodes(tree) \ F)
    BY <2>1, TokensMoved
  <2> QED
    BY ONLY <1>3, <1>4, <2>1, <2>2, F = Free(tree2), Zenon DEF Sized
<1> QED
  BY <1>5, <1>6

(* The cache object, with the handles that are out. *)
RcInv(rc, hd) ==
    /\ rc = [tree |-> rc.tree, evictable_size |-> rc.evictable_size, protected_size |-> rc.protected_size]
    /\ CacheInv(rc.tree, rc.evictable_size, rc.protected_size, hd)

Gives(hd, c, h, hd2) == hd2 = [hd EXCEPT ![c] = h]

(* What a count has to be when client c's handle comes. *)
LEMMA HoldersLocked ==
    ASSUME NEW tree, NEW tree2, IsTree(tree), NEW hd, HandlesIn(tree, hd),
           \A m \in DOMAIN tree : Path(tree2, m) = Path(tree, m),
           NEW c \in Client, NEW h \in Handle, h.node \in DOMAIN tree, hd[c] = NoHandle,
           NEW hd2, Gives(hd, c, h, hd2), NEW m
    PROVE  /\ m \in Path(tree, h.node) =>
                Cardinality(Holders(tree2, hd2, m)) = Cardinality(Holders(tree, hd, m)) + 1
           /\ m \notin Path(tree, h.node) => Holders(tree2, hd2, m) = Holders(tree, hd, m)
<1>1. h # NoHandle
  BY NoHandleAssumption DEF Handle
<1>2. /\ \A d \in Client : hd[d] # NoHandle => hd[d].node \in DOMAIN tree
      /\ hd = [d \in Client |-> hd[d]]
  BY DEF HandlesIn
<1>3. IsFiniteSet(Holders(tree, hd, m))
  <2>1. Holders(tree, hd, m) \in SUBSET Client
    BY DEF Holders
  <2> QED
    BY ONLY <2>1, PoolAssumption, FS_Subset
<1>4. c \notin Holders(tree, hd, m)
  BY DEF Holders
<1>5. m \in Path(tree, h.node) => Holders(tree2, hd2, m) = Holders(tree, hd, m) \cup {c}
  BY <1>1, <1>2 DEF Holders, Gives
<1>6. m \notin Path(tree, h.node) => Holders(tree2, hd2, m) = Holders(tree, hd, m)
  BY <1>1, <1>2 DEF Holders, Gives
<1>7. Cardinality(Holders(tree, hd, m) \cup {c}) = Cardinality(Holders(tree, hd, m)) + 1
  BY <1>3, <1>4, FS_AddElement
<1> QED
  BY <1>5, <1>6, <1>7

(* And when it goes. *)
LEMMA HoldersUnlocked ==
    ASSUME NEW tree, NEW tree2, IsTree(tree), NEW hd, HandlesIn(tree, hd),
           \A m \in DOMAIN tree : Path(tree2, m) = Path(tree, m),
           NEW c \in Client, hd[c] # NoHandle,
           NEW hd2, Gives(hd, c, NoHandle, hd2), NEW m
    PROVE  /\ m \in Path(tree, hd[c].node) =>
                /\ Cardinality(Holders(tree2, hd2, m)) = Cardinality(Holders(tree, hd, m)) - 1
                /\ Cardinality(Holders(tree, hd, m)) \in Nat \ {0}
           /\ m \notin Path(tree, hd[c].node) => Holders(tree2, hd2, m) = Holders(tree, hd, m)
<1>2. /\ \A d \in Client : hd[d] # NoHandle => hd[d].node \in DOMAIN tree
      /\ hd = [d \in Client |-> hd[d]]
  BY DEF HandlesIn
<1>3. IsFiniteSet(Holders(tree, hd, m)) /\ Cardinality(Holders(tree, hd, m)) \in Nat
  <2>1. Holders(tree, hd, m) \in SUBSET Client
    BY DEF Holders
  <2> QED
    BY ONLY <2>1, PoolAssumption, FS_Subset, FS_CardinalityType
<1>4. Holders(tree2, hd2, m) = Holders(tree, hd, m) \ {c}
  BY <1>2 DEF Holders, Gives
<1>5. m \in Path(tree, hd[c].node) <=> c \in Holders(tree, hd, m)
  BY DEF Holders
<1>6. ASSUME c \in Holders(tree, hd, m)
      PROVE  /\ Cardinality(Holders(tree, hd, m) \ {c}) = Cardinality(Holders(tree, hd, m)) - 1
             /\ Cardinality(Holders(tree, hd, m)) # 0
  BY ONLY <1>3, <1>6, FS_RemoveElement, FS_EmptySet
<1> QED
  BY <1>3, <1>4, <1>5, <1>6

(* A node with its count changed is a node. *)
Recount(tree, N, count) ==
    [n \in DOMAIN tree |-> IF n \in N THEN [tree[n] EXCEPT !.ref_count = count[n]] ELSE tree[n]]

Recounts(tree, tree2, N, count) ==
    /\ SameShape(tree, tree2) /\ tree2 \in [DOMAIN tree2 -> Node]
    /\ tree2[Root] = tree[Root]
    /\ \A n \in N : tree2[n].ref_count = count[n]
    /\ \A n \in DOMAIN tree \ N : tree2[n] = tree[n]
    /\ \A n \in DOMAIN tree : tree2[n].time = tree[n].time

LEMMA Recounted ==
    ASSUME NEW tree, IsTree(tree), NEW N \in SUBSET Nodes(tree), NEW tree2,
           NEW count \in [N -> Nat], tree2 = Recount(tree, N, count)
    PROVE  Recounts(tree, tree2, N, count)
<1>1. tree \in [DOMAIN tree -> Node] /\ Root \in DOMAIN tree /\ Root \notin N /\ N \subseteq DOMAIN tree
  BY DEF IsTree, Linked, Nodes
<1>2. ASSUME NEW n \in N
      PROVE  /\ tree2[n].parent = tree[n].parent /\ tree2[n].key = tree[n].key
             /\ tree2[n].value = tree[n].value /\ tree2[n].time = tree[n].time
             /\ tree2[n].ref_count = count[n] /\ tree2[n] \in Node
  <2> PICK q \in Node : q = tree[n]
    BY <1>1
  <2>1. tree2[n] = [q EXCEPT !.ref_count = count[n]]
    BY <1>1 DEF Recount
  <2>2. count[n] \in Nat
    OBVIOUS
  <2>3. tree2[n] = [parent |-> q.parent, key |-> q.key, value |-> q.value,
                    ref_count |-> count[n], time |-> q.time]
    BY ONLY <2>1, q \in Node DEF Node
  <2>4. tree2[n] \in Node
    BY ONLY <2>2, <2>3, q \in Node DEF Node
  <2> QED
    BY ONLY <2>3, <2>4, q = tree[n]
<1>3. \A n \in DOMAIN tree \ N : tree2[n] = tree[n] /\ tree2[n] \in Node
  BY <1>1 DEF Recount
<1>4. DOMAIN tree2 = DOMAIN tree /\ tree2 = [n \in DOMAIN tree2 |-> tree2[n]]
  BY DEF Recount
<1>5. \A n \in DOMAIN tree2 : tree2[n] \in Node
  BY <1>2, <1>3, <1>4
<1>6. tree2 \in [DOMAIN tree2 -> Node]
  BY ONLY <1>4, <1>5
<1>7. SameShape(tree, tree2)
  BY ONLY <1>2, <1>3, <1>4 DEF SameShape
<1>8. \A n \in DOMAIN tree : tree2[n].time = tree[n].time
  BY ONLY <1>2, <1>3
<1>9. tree2[Root] = tree[Root]
  BY <1>1, <1>3
<1> QED
  BY ONLY <1>2, <1>3, <1>6, <1>7, <1>8, <1>9, Zenon DEF Recounts

(* A lock counts its client along the path, and what was free is protected. *)
LEMMA LockInv ==
    ASSUME NEW rc, NEW hd, RcInv(rc, hd), NEW c \in Client, hd[c] = NoHandle,
           NEW h \in Handle, h.node \in DOMAIN rc.tree,
           Len(PathKey(rc.tree, h.node)) = h.cached_len
    PROVE  /\ RcInv(LockHandle(rc, h), [hd EXCEPT ![c] = h])
           /\ SameShape(rc.tree, LockHandle(rc, h).tree)
           /\ \A n \in DOMAIN rc.tree : LockHandle(rc, h).tree[n].time = rc.tree[n].time
<1> PICK tree : tree = rc.tree
  OBVIOUS
<1>f. h.node \in DOMAIN tree
  OBVIOUS
<1> PICK rc2 : rc2 = LockHandle(rc, h)
  OBVIOUS
<1> PICK tree2 : tree2 = rc2.tree
  OBVIOUS
<1> PICK hd2 : hd2 = [hd EXCEPT ![c] = h]
  OBVIOUS
<1> PICK N : N = Path(tree, h.node)
  OBVIOUS
<1> PICK M : M = NewlyLocked(tree, N)
  OBVIOUS
<1>0. /\ IsTree(tree) /\ HandlesIn(tree, hd) /\ Counted(tree, hd)
      /\ Sized(tree, rc.evictable_size, rc.protected_size)
      /\ tree \in [DOMAIN tree -> Node] /\ Root \in DOMAIN tree
  BY DEF RcInv, CacheInv, IsTree, Linked
<1>1. /\ rc2 = [tree |-> tree2, evictable_size |-> rc.evictable_size - TokensIn(tree, M),
                protected_size |-> rc.protected_size + TokensIn(tree, M)]
      /\ tree2 = [n \in DOMAIN tree |-> IF n \in N THEN [tree[n] EXCEPT !.ref_count = @ + 1] ELSE tree[n]]
  BY DEF LockHandle
<1>2. N \in SUBSET Nodes(tree)
  BY <1>0, TreePaths
<1>3. \A n \in DOMAIN tree : tree[n].ref_count \in Nat
  BY <1>0 DEF Node
<1>4. /\ SameShape(tree, tree2) /\ tree2 \in [DOMAIN tree2 -> Node]
      /\ tree2[Root] = tree[Root]
      /\ \A n \in N : tree2[n].ref_count = tree[n].ref_count + 1
      /\ \A n \in DOMAIN tree \ N : tree2[n] = tree[n]
      /\ \A n \in DOMAIN tree : tree2[n].time = tree[n].time
  <2> PICK count : count = [n \in N |-> tree[n].ref_count + 1]
    OBVIOUS
  <2>1. count \in [N -> Nat] /\ \A n \in N : count[n] = tree[n].ref_count + 1
    BY <1>2, <1>3 DEF Nodes
  <2>2. tree2 = Recount(tree, N, count)
    BY ONLY <1>1, <2>1 DEF Recount
  <2>3. Recounts(tree, tree2, N, count)
    BY ONLY <1>0, <1>2, <2>1, <2>2, Recounted
  <2> QED
    BY ONLY <2>1, <2>3 DEF Recounts
<1>5. /\ IsTree(tree2)
      /\ \A n \in DOMAIN tree : PathKey(tree2, n) = PathKey(tree, n) /\ Path(tree2, n) = Path(tree, n)
  <2>1. tree2[Root].ref_count = 1
    BY <1>0, <1>4 DEF IsTree, Linked
  <2> QED
    BY ONLY <1>0, <1>4, <2>1, ShapeKept
<1>6. DOMAIN tree2 = DOMAIN tree /\ Nodes(tree2) = Nodes(tree) /\ Nodes(tree) \subseteq DOMAIN tree
  BY <1>4 DEF SameShape, Nodes
<1>7. HandlesIn(tree2, hd2)
  <2>1. /\ hd \in [Client -> Handle \cup {NoHandle}]
        /\ \A d \in Client : hd[d] # NoHandle =>
              /\ hd[d].node \in DOMAIN tree
              /\ Len(PathKey(tree, hd[d].node)) = hd[d].cached_len
    BY <1>0 DEF HandlesIn
  <2>2. /\ hd2 \in [Client -> Handle \cup {NoHandle}]
        /\ \A d \in Client : hd2[d] = IF d = c THEN h ELSE hd[d]
    BY <2>1
  <2> QED
    BY <1>5, <1>6, <2>1, <2>2 DEF HandlesIn
<1>8. Counted(tree2, hd2)
  <2>1. ASSUME NEW m \in Nodes(tree2)
        PROVE  tree2[m].ref_count = Cardinality(Holders(tree2, hd2, m))
    <3>1. /\ m \in N => Cardinality(Holders(tree2, hd2, m)) = Cardinality(Holders(tree, hd, m)) + 1
          /\ m \notin N => Holders(tree2, hd2, m) = Holders(tree, hd, m)
      <4>1. /\ IsTree(tree) /\ HandlesIn(tree, hd) /\ hd[c] = NoHandle
            /\ \A x \in DOMAIN tree : Path(tree2, x) = Path(tree, x)
            /\ h.node \in DOMAIN tree
        BY <1>0, <1>5
      <4>2. Gives(hd, c, h, hd2)
        BY DEF Gives
      <4> QED
        BY ONLY <4>1, <4>2, HoldersLocked, c \in Client, h \in Handle, N = Path(tree, h.node)
    <3>2. m \in DOMAIN tree /\ tree[m].ref_count = Cardinality(Holders(tree, hd, m))
      BY <1>0, <1>6 DEF Counted
    <3>3. tree[m].ref_count \in Nat
      BY <1>3, <3>2
    <3> QED
      BY ONLY <1>4, <3>1, <3>2, <3>3
  <2> QED
    BY <2>1 DEF Counted
<1>9. Sized(tree2, rc.evictable_size - TokensIn(tree, M), rc.protected_size + TokensIn(tree, M))
  <2>1. M \subseteq Free(tree) /\ M \in SUBSET Nodes(tree)
    BY <1>2 DEF NewlyLocked, Free
  <2>2. Free(tree2) = Free(tree) \ M
    <3>1. ASSUME NEW n \in Nodes(tree)
          PROVE  n \in Free(tree2) <=> n \in Free(tree) \ M
      <4>1. n \in Free(tree2) <=> tree2[n].ref_count = 0
        BY <1>6 DEF Free
      <4>2. n \in Free(tree) \ M <=> tree[n].ref_count = 0 /\ n \notin N
        BY DEF Free, NewlyLocked
      <4>3. n \in DOMAIN tree /\ tree[n].ref_count \in Nat
        BY <1>3, <1>6
      <4> QED
        BY ONLY <1>4, <4>1, <4>2, <4>3
    <3> QED
      BY <1>6, <3>1 DEF Free
  <2> QED
    BY ONLY <1>0, <1>4, <2>1, <2>2, SizesMoved
<1>10. CacheInv(tree2, rc2.evictable_size, rc2.protected_size, hd2)
  BY ONLY <1>1, <1>5, <1>7, <1>8, <1>9 DEF CacheInv
<1>11. RcInv(rc2, hd2)
  BY ONLY <1>1, <1>10, tree2 = rc2.tree DEF RcInv
<1> QED
  BY ONLY <1>4, <1>11, tree = rc.tree, rc2 = LockHandle(rc, h), tree2 = rc2.tree,
          hd2 = [hd EXCEPT ![c] = h]

(* An unlock takes its client off the path, where it was counted. *)
LEMMA UnlockInv ==
    ASSUME NEW rc, NEW hd, RcInv(rc, hd), NEW c \in Client, hd[c] # NoHandle
    PROVE  /\ RcInv(UnlockHandle(rc, hd[c]), [hd EXCEPT ![c] = NoHandle])
           /\ ~UnlockFails(rc, hd[c])
           /\ SameShape(rc.tree, UnlockHandle(rc, hd[c]).tree)
           /\ \A n \in DOMAIN rc.tree : UnlockHandle(rc, hd[c]).tree[n].time = rc.tree[n].time
<1> PICK h : h = hd[c]
  OBVIOUS
<1> PICK tree : tree = rc.tree
  OBVIOUS
<1> PICK rc2 : rc2 = UnlockHandle(rc, h)
  OBVIOUS
<1> PICK tree2 : tree2 = rc2.tree
  OBVIOUS
<1> PICK hd2 : hd2 = [hd EXCEPT ![c] = NoHandle]
  OBVIOUS
<1> PICK N : N = Path(tree, h.node)
  OBVIOUS
<1> PICK M : M = {n \in N : tree[n].ref_count = 1}
  OBVIOUS
<1>0. /\ IsTree(tree) /\ HandlesIn(tree, hd) /\ Counted(tree, hd)
      /\ Sized(tree, rc.evictable_size, rc.protected_size)
      /\ tree \in [DOMAIN tree -> Node] /\ Root \in DOMAIN tree
  BY DEF RcInv, CacheInv, IsTree, Linked
<1>h. h \in Handle /\ h.node \in DOMAIN tree
  BY <1>0 DEF HandlesIn
<1>1. /\ rc2 = [tree |-> tree2, evictable_size |-> rc.evictable_size + TokensIn(tree, M),
                protected_size |-> rc.protected_size - TokensIn(tree, M)]
      /\ tree2 = [n \in DOMAIN tree |-> IF n \in N THEN [tree[n] EXCEPT !.ref_count = @ - 1] ELSE tree[n]]
  BY DEF UnlockHandle
<1>2. N \in SUBSET Nodes(tree)
  BY <1>0, <1>h, TreePaths
<1>3. \A n \in DOMAIN tree : tree[n].ref_count \in Nat
  BY <1>0 DEF Node
<1>c. \A n \in N : tree[n].ref_count \in Nat \ {0}
  <2> TAKE n \in N
  <2>1. \A m \in DOMAIN tree : Path(tree, m) = Path(tree, m)
    OBVIOUS
  <2>2. Cardinality(Holders(tree, hd, n)) \in Nat \ {0}
    <3>1. Gives(hd, c, NoHandle, hd2)
      BY DEF Gives
    <3> QED
      BY ONLY <1>0, <2>1, <3>1, h = hd[c], hd[c] # NoHandle, N = Path(tree, h.node), c \in Client,
              n \in N, HoldersUnlocked
  <2>3. n \in Nodes(tree)
    BY <1>2
  <2> QED
    BY <1>0, <2>2, <2>3 DEF Counted
<1>4. /\ SameShape(tree, tree2) /\ tree2 \in [DOMAIN tree2 -> Node]
      /\ tree2[Root] = tree[Root]
      /\ \A n \in N : tree2[n].ref_count = tree[n].ref_count - 1
      /\ \A n \in DOMAIN tree \ N : tree2[n] = tree[n]
      /\ \A n \in DOMAIN tree : tree2[n].time = tree[n].time
  <2> PICK count : count = [n \in N |-> tree[n].ref_count - 1]
    OBVIOUS
  <2>1. count \in [N -> Nat] /\ \A n \in N : count[n] = tree[n].ref_count - 1
    BY <1>c
  <2>2. tree2 = Recount(tree, N, count)
    BY ONLY <1>1, <2>1 DEF Recount
  <2>3. Recounts(tree, tree2, N, count)
    BY ONLY <1>0, <1>2, <2>1, <2>2, Recounted
  <2> QED
    BY ONLY <2>1, <2>3 DEF Recounts
<1>5. /\ IsTree(tree2)
      /\ \A n \in DOMAIN tree : PathKey(tree2, n) = PathKey(tree, n) /\ Path(tree2, n) = Path(tree, n)
  <2>1. tree2[Root].ref_count = 1
    BY <1>0, <1>4 DEF IsTree, Linked
  <2> QED
    BY ONLY <1>0, <1>4, <2>1, ShapeKept
<1>6. DOMAIN tree2 = DOMAIN tree /\ Nodes(tree2) = Nodes(tree) /\ Nodes(tree) \subseteq DOMAIN tree
  BY <1>4 DEF SameShape, Nodes
<1>7. HandlesIn(tree2, hd2)
  <2>1. /\ hd \in [Client -> Handle \cup {NoHandle}]
        /\ \A d \in Client : hd[d] # NoHandle =>
              /\ hd[d].node \in DOMAIN tree
              /\ Len(PathKey(tree, hd[d].node)) = hd[d].cached_len
    BY <1>0 DEF HandlesIn
  <2>2. /\ hd2 \in [Client -> Handle \cup {NoHandle}]
        /\ \A d \in Client : hd2[d] = IF d = c THEN NoHandle ELSE hd[d]
    BY <2>1
  <2> QED
    BY <1>5, <1>6, <2>1, <2>2 DEF HandlesIn
<1>8. Counted(tree2, hd2)
  <2>1. ASSUME NEW m \in Nodes(tree2)
        PROVE  tree2[m].ref_count = Cardinality(Holders(tree2, hd2, m))
    <3>1. /\ m \in N => Cardinality(Holders(tree2, hd2, m)) = Cardinality(Holders(tree, hd, m)) - 1
          /\ m \notin N => Holders(tree2, hd2, m) = Holders(tree, hd, m)
      <4>1. /\ IsTree(tree) /\ HandlesIn(tree, hd) /\ hd[c] # NoHandle
            /\ \A x \in DOMAIN tree : Path(tree2, x) = Path(tree, x)
        BY <1>0, <1>5
      <4>2. Gives(hd, c, NoHandle, hd2)
        BY DEF Gives
      <4> QED
        BY ONLY <4>1, <4>2, HoldersUnlocked, c \in Client, N = Path(tree, h.node), h = hd[c]
    <3>2. m \in DOMAIN tree /\ tree[m].ref_count = Cardinality(Holders(tree, hd, m))
      BY <1>0, <1>6 DEF Counted
    <3> QED
      BY ONLY <1>4, <3>1, <3>2
  <2> QED
    BY <2>1 DEF Counted
<1>9. Sized(tree2, rc.evictable_size + TokensIn(tree, M), rc.protected_size - TokensIn(tree, M))
  <2>1. M \cap Free(tree) = {} /\ M \in SUBSET Nodes(tree)
    BY <1>2 DEF Free
  <2>2. Free(tree2) = Free(tree) \cup M
    <3>1. ASSUME NEW n \in Nodes(tree)
          PROVE  n \in Free(tree2) <=> n \in Free(tree) \cup M
      <4>1. n \in Free(tree2) <=> tree2[n].ref_count = 0
        BY <1>6 DEF Free
      <4>2. n \in Free(tree) \cup M <=> tree[n].ref_count = 0 \/ (n \in N /\ tree[n].ref_count = 1)
        BY DEF Free
      <4>3. n \in DOMAIN tree /\ tree[n].ref_count \in Nat
        BY <1>3, <1>6
      <4> QED
        BY ONLY <1>4, <1>c, <4>1, <4>2, <4>3
    <3> QED
      BY <1>2, <1>6, <3>1 DEF Free
  <2> QED
    BY ONLY <1>0, <1>4, <2>1, <2>2, SizesMoved
<1>10. CacheInv(tree2, rc2.evictable_size, rc2.protected_size, hd2)
  BY ONLY <1>1, <1>5, <1>7, <1>8, <1>9 DEF CacheInv
<1>11. RcInv(rc2, hd2)
  BY ONLY <1>1, <1>10, tree2 = rc2.tree DEF RcInv
<1>12. ~UnlockFails(rc, h)
  BY <1>c DEF UnlockFails
<1> QED
  BY ONLY <1>4, <1>11, <1>12, tree = rc.tree, rc2 = UnlockHandle(rc, h), tree2 = rc2.tree,
          hd2 = [hd EXCEPT ![c] = NoHandle], h = hd[c]


-----------------------------------------------------------------------------
(* New nodes and time stamps *)

(* Finitely many numbers have a bound: the first k of an enumeration have, for *)
(* every k.                                                                    *)
LEMMA FiniteIsBounded ==
    ASSUME NEW S, IsFiniteSet(S), S \subseteq Nat
    PROVE  \E b \in Nat : \A n \in S : n <= b
<1> PICK N : N = Cardinality(S)
  OBVIOUS
<1>1. N \in Nat
  BY FS_CardinalityType
<1>2. PICK f \in [1..N -> S] : \A s \in S : \E i \in 1..N : f[i] = s
  <2>1. PICK g : g \in Bijection(1..N, S)
    BY FS_CardinalityType DEF ExistsBijection
  <2>2. g \in [1..N -> S] /\ \A s \in S : \E i \in 1..N : g[i] = s
    BY <2>1 DEF Bijection, Injection, Surjection, IsInjective
  <2> QED
    BY <2>2
<1> DEFINE Bounds(k) == {b \in Nat : \A i \in 1..k : f[i] <= b}
<1> DEFINE Without == {k \in 0..N : Bounds(k) = {}}
<1>3. Without = {}
  <2>1. SUFFICES ASSUME Without # {} PROVE FALSE
    OBVIOUS
  <2>2. PICK k \in Without : \A l \in Without : k <= l
    <3>1. Without \subseteq Nat
      BY <1>1
    <3> HIDE DEF Without
    <3> QED
      BY <2>1, <3>1, LeastNatural
  <2>3. k # 0
    <3>1. 0 \in Bounds(0)
      OBVIOUS
    <3> QED
      BY <3>1
  <2>4. k - 1 \in 0..N /\ k \in 1..N /\ k - 1 \notin Without
    <3>1. k \in Nat /\ k <= N
      BY <1>1
    <3>2. k - 1 \in 0..N /\ k \in 1..N
      BY ONLY <1>1, <2>3, <3>1
    <3>3. ~(k <= k - 1)
      BY ONLY <3>1
    <3> QED
      BY ONLY <2>2, <3>2, <3>3
  <2>5. PICK b \in Nat : \A i \in 1..(k - 1) : f[i] <= b
    BY <2>4
  <2>6. f[k] \in Nat
    BY <1>2, <2>4
  <2>7. \A i \in 1..k : f[i] \in Nat /\ (i = k \/ f[i] <= b)
    <3> TAKE i \in 1..k
    <3>1. i \in 1..N /\ (i = k \/ i \in 1..(k - 1))
      BY ONLY <1>1, <2>4, i \in 1..k
    <3> QED
      BY <1>2, <2>5, <3>1
  <2>8. b + f[k] \in Bounds(k)
    BY <2>6, <2>7
  <2> QED
    BY <2>8
<1>4. N \in 0..N
  BY <1>1
<1>5. PICK b \in Nat : \A i \in 1..N : f[i] <= b
  BY <1>3, <1>4
<1> QED
  BY <1>2, <1>5

LEMMA MaxIs ==
    ASSUME NEW S, IsFiniteSet(S), S \subseteq Nat, S # {}
    PROVE  Max(S) \in S /\ \A n \in S : n <= Max(S)
<1>1. \E m \in S : \A n \in S : m >= n
  <2>1. PICK b \in Nat : \A n \in S : n <= b
    BY FiniteIsBounded
  <2>2. PICK m \in S : \A n \in S : n <= m
    BY <2>1, GreatestNat
  <2>3. \A n \in S : m >= n
    BY <2>2
  <2> QED
    BY <2>3
<1>2. Max(S) = CHOOSE m \in S : \A n \in S : m >= n
  BY DEF Max
<1>3. Max(S) \in S /\ \A n \in S : Max(S) >= n
  BY <1>1, <1>2
<1> QED
  BY <1>3

LEMMA MinIs ==
    ASSUME NEW S, S \subseteq Nat, S # {}
    PROVE  Min(S) \in S /\ \A n \in S : Min(S) <= n
<1>1. \E m \in S : \A n \in S : m <= n
  BY LeastNatural
<1> QED
  BY <1>1 DEF Min

(* There is always a new node: of one more number than there are nodes, one is *)
(* not a node.                                                                 *)
LEMMA FreshNodeIsNew ==
    ASSUME NEW tree, IsTree(tree)
    PROVE  FreshNode(tree) \in Nat \ DOMAIN tree
<1> PICK D : D = DOMAIN tree
  OBVIOUS
<1> PICK k : k = Cardinality(D)
  OBVIOUS
<1>1. IsFiniteSet(D) /\ k \in Nat
  BY FS_CardinalityType DEF IsTree, Linked
<1>2. IsFiniteSet(0..k) /\ Cardinality(0..k) = k + 1
  BY ONLY <1>1, FS_Interval
<1>3. (0..k) \ D # {}
  <2>1. SUFFICES ASSUME 0..k \in SUBSET D PROVE FALSE
    OBVIOUS
  <2>2. Cardinality(0..k) <= Cardinality(D)
    BY ONLY <1>1, <2>1, FS_Subset
  <2> QED
    BY ONLY <1>1, <1>2, <2>2, k = Cardinality(D)
<1>4. Min((0..k) \ D) \in (0..k) \ D
  <2>1. (0..k) \ D \subseteq Nat
    BY <1>1
  <2> QED
    BY ONLY <1>3, <2>1, MinIs
<1> QED
  BY <1>1, <1>4 DEF FreshNode

(* The time stamps. *)
Times(tree) == {tree[n].time : n \in DOMAIN tree}

LEMMA TimesAre ==
    ASSUME NEW tree, IsTree(tree)
    PROVE  IsFiniteSet(Times(tree)) /\ Times(tree) \subseteq Nat /\ Times(tree) # {}
<1>1. IsFiniteSet(DOMAIN tree) /\ Root \in DOMAIN tree /\ tree \in [DOMAIN tree -> Node]
  BY DEF IsTree, Linked
<1> PICK f : f = [n \in DOMAIN tree |-> tree[n].time]
  OBVIOUS
<1>2. f = [n \in DOMAIN tree |-> f[n]]
  OBVIOUS
<1>3. Times(tree) = {f[n] : n \in DOMAIN tree}
  BY DEF Times
<1>4. IsFiniteSet(Times(tree))
  BY ONLY <1>1, <1>2, <1>3, ImageCount
<1>5. \A n \in DOMAIN tree : tree[n].time \in Nat
  BY <1>1 DEF Node
<1>6. Times(tree) # {}
  BY <1>1 DEF Times
<1> QED
  BY <1>4, <1>5, <1>6 DEF Times

LEMMA NowIsLater ==
    ASSUME NEW tree, IsTree(tree)
    PROVE  Now(tree) \in Nat /\ \A n \in DOMAIN tree : tree[n].time < Now(tree)
<1>1. Max(Times(tree)) \in Times(tree) /\ \A t \in Times(tree) : t <= Max(Times(tree))
  BY TimesAre, MaxIs
<1>2. Times(tree) \subseteq Nat /\ \A n \in DOMAIN tree : tree[n].time \in Times(tree)
  BY TimesAre DEF Times
<1>3. Now(tree) = 1 + Max(Times(tree))
  BY DEF Now, Times
<1> QED
  BY <1>1, <1>2, <1>3

(* Ranks are times in the same order. *)
LEMMA RankedIs ==
    ASSUME NEW tree, IsTree(tree)
    PROVE  /\ SameShape(tree, Ranked(tree)) /\ Ranked(tree) \in [DOMAIN Ranked(tree) -> Node]
           /\ \A n \in DOMAIN tree : Ranked(tree)[n].ref_count = tree[n].ref_count
<1> PICK rank : rank = [n \in DOMAIN tree |-> Cardinality({t \in Times(tree) : t < tree[n].time})]
  OBVIOUS
<1>1. \A n \in DOMAIN tree : rank[n] \in Nat
  <2> TAKE n \in DOMAIN tree
  <2>1. {t \in Times(tree) : t < tree[n].time} \in SUBSET Times(tree)
    OBVIOUS
  <2>2. Cardinality({t \in Times(tree) : t < tree[n].time}) \in Nat
    BY <2>1, TimesAre, FS_Subset, FS_CardinalityType
  <2> QED
    BY <2>2
<1>2. Ranked(tree) = [n \in DOMAIN tree |-> [tree[n] EXCEPT !.time = rank[n]]]
  BY DEF Ranked, Times
<1>3. tree \in [DOMAIN tree -> Node]
  BY DEF IsTree, Linked
<1>4. ASSUME NEW n \in DOMAIN tree
      PROVE  /\ Ranked(tree)[n] \in Node
             /\ Ranked(tree)[n].parent = tree[n].parent /\ Ranked(tree)[n].key = tree[n].key
             /\ Ranked(tree)[n].value = tree[n].value /\ Ranked(tree)[n].ref_count = tree[n].ref_count
  <2> PICK q \in Node : q = tree[n]
    BY <1>3
  <2>1. Ranked(tree)[n] = [q EXCEPT !.time = rank[n]]
    BY <1>2
  <2>2. Ranked(tree)[n] = [parent |-> q.parent, key |-> q.key, value |-> q.value,
                           ref_count |-> q.ref_count, time |-> rank[n]]
    BY ONLY <2>1, q \in Node DEF Node
  <2>3. rank[n] \in Nat
    BY <1>1
  <2>4. Ranked(tree)[n] \in Node
    BY ONLY <2>2, <2>3, q \in Node DEF Node
  <2> QED
    BY ONLY <2>2, <2>4, q = tree[n]
<1>5. DOMAIN Ranked(tree) = DOMAIN tree /\ Ranked(tree) = [n \in DOMAIN tree |-> Ranked(tree)[n]]
  BY <1>2
<1>6. Ranked(tree) \in [DOMAIN Ranked(tree) -> Node]
  BY ONLY <1>4, <1>5
<1>7. SameShape(tree, Ranked(tree))
  BY ONLY <1>4, <1>5 DEF SameShape
<1> QED
  BY <1>4, <1>6, <1>7


-----------------------------------------------------------------------------
(* What keys have in common *)

(* s and t agree in their first n tokens. *)
Agree(s, t, n) == n <= Len(s) /\ n <= Len(t) /\ \A i \in 1..n : s[i] = t[i]

LEMMA CommonLenIs ==
    ASSUME NEW s \in Seq(Token), NEW t \in Seq(Token)
    PROVE  /\ CommonLen(s, t) \in Nat /\ Agree(s, t, CommonLen(s, t))
           /\ \A n \in Nat : Agree(s, t, n) => n <= CommonLen(s, t)
<1> PICK ls \in Nat : ls = Len(s)
  BY LenProperties
<1> PICK lt \in Nat : lt = Len(t)
  BY LenProperties
<1> PICK A : A = {n \in 0..Min({ls, lt}) : \A i \in 1..n : s[i] = t[i]}
  OBVIOUS
<1>1. Min({ls, lt}) \in {ls, lt} /\ Min({ls, lt}) <= ls /\ Min({ls, lt}) <= lt
  BY MinIs
<1>2. \A n \in Nat : n \in A <=> Agree(s, t, n)
  <2> TAKE n \in Nat
  <2>1. n \in 0..Min({ls, lt}) <=> n <= ls /\ n <= lt
    BY ONLY <1>1, n \in Nat, ls \in Nat, lt \in Nat
  <2> QED
    BY <2>1 DEF Agree
<1>3. A \subseteq Nat /\ 0 \in A /\ A \subseteq 0..ls
  <2>1. A \subseteq 0..Min({ls, lt})
    OBVIOUS
  <2>2. 0..Min({ls, lt}) \subseteq 0..ls /\ 0..ls \subseteq Nat
    BY ONLY <1>1, ls \in Nat, lt \in Nat
  <2>3. Agree(s, t, 0)
    BY DEF Agree
  <2> QED
    BY <1>2, <2>1, <2>2, <2>3
<1>4. IsFiniteSet(A)
  <2>1. IsFiniteSet(0..ls)
    BY ONLY ls \in Nat, FS_Interval
  <2> QED
    BY ONLY <1>3, <2>1, FS_Subset
<1>5. Max(A) \in A /\ \A n \in A : n <= Max(A)
  BY ONLY <1>3, <1>4, MaxIs
<1>6. CommonLen(s, t) = Max(A)
  BY DEF CommonLen
<1> QED
  BY <1>2, <1>3, <1>5, <1>6

(* A prefix is what it has in its places. *)
LEMMA PrefixIs ==
    ASSUME NEW T, NEW s \in Seq(T), NEW n \in Nat, n <= Len(s)
    PROVE  /\ SubSeq(s, 1, n) \in Seq(T) /\ Len(SubSeq(s, 1, n)) = n
           /\ \A i \in 1..n : SubSeq(s, 1, n)[i] = s[i] /\ s[i] \in T
<1>1. \A i \in 1..n : s[i] \in T
  <2> TAKE i \in 1..n
  <2>1. i \in 1..Len(s)
    BY LenProperties
  <2> QED
    BY <2>1, ElementOfSeq
<1>2. /\ SubSeq(s, 1, n) \in Seq(T) /\ Len(SubSeq(s, 1, n)) = IF 1 <= n THEN n - 1 + 1 ELSE 0
      /\ \A i \in 1..(n - 1 + 1) : SubSeq(s, 1, n)[i] = s[1 + i - 1]
  <2>1. 1 \in Int /\ n \in Int
    OBVIOUS
  <2> QED
    BY ONLY <1>1, <2>1, SubSeqProperties
<1>3. (IF 1 <= n THEN n - 1 + 1 ELSE 0) = n /\ n - 1 + 1 = n /\ \A i \in 1..n : 1 + i - 1 = i
  BY ONLY n \in Nat
<1>4. Len(SubSeq(s, 1, n)) = n
  BY ONLY <1>2, <1>3, Zenon
<1>5. ASSUME NEW i \in 1..n
      PROVE  SubSeq(s, 1, n)[i] = s[i]
  <2>1. i \in 1..(n - 1 + 1) /\ 1 + i - 1 = i
    BY ONLY <1>3, i \in 1..n, Zenon
  <2>2. SubSeq(s, 1, n)[i] = s[1 + i - 1]
    BY ONLY <1>2, <2>1, Zenon
  <2> QED
    BY ONLY <2>1, <2>2, Zenon
<1> QED
  BY ONLY <1>1, <1>2, <1>4, <1>5, Zenon

(* What is left after a prefix. *)
LEMMA RestIs ==
    ASSUME NEW T, NEW s \in Seq(T), NEW n \in Nat, n <= Len(s)
    PROVE  /\ SubSeq(s, n + 1, Len(s)) \in Seq(T) /\ Len(SubSeq(s, n + 1, Len(s))) = Len(s) - n
           /\ \A i \in 1..(Len(s) - n) : SubSeq(s, n + 1, Len(s))[i] = s[n + i]
<1> PICK l \in Nat : l = Len(s)
  BY LenProperties
<1>1. \A i \in (n + 1)..l : s[i] \in T
  <2> TAKE i \in (n + 1)..l
  <2>1. i \in 1..Len(s)
    OBVIOUS
  <2> QED
    BY <2>1, ElementOfSeq
<1>2. /\ SubSeq(s, n + 1, l) \in Seq(T)
      /\ Len(SubSeq(s, n + 1, l)) = IF n + 1 <= l THEN l - (n + 1) + 1 ELSE 0
      /\ \A i \in 1..(l - (n + 1) + 1) : SubSeq(s, n + 1, l)[i] = s[n + 1 + i - 1]
  <2>1. n + 1 \in Int /\ l \in Int
    OBVIOUS
  <2> QED
    BY ONLY <1>1, <2>1, SubSeqProperties
<1>3. /\ (IF n + 1 <= l THEN l - (n + 1) + 1 ELSE 0) = l - n /\ l - (n + 1) + 1 = l - n
      /\ \A i \in 1..(l - n) : n + 1 + i - 1 = n + i
  <2>1. n <= l
    OBVIOUS
  <2> QED
    BY ONLY <2>1, n \in Nat, l \in Nat
<1>4. Len(SubSeq(s, n + 1, l)) = l - n
  BY ONLY <1>2, <1>3, Zenon
<1>5. ASSUME NEW i \in 1..(l - n)
      PROVE  SubSeq(s, n + 1, l)[i] = s[n + i]
  <2>1. i \in 1..(l - (n + 1) + 1) /\ n + 1 + i - 1 = n + i
    BY ONLY <1>3, i \in 1..(l - n), Zenon
  <2>2. SubSeq(s, n + 1, l)[i] = s[n + 1 + i - 1]
    BY ONLY <1>2, <2>1, Zenon
  <2> QED
    BY ONLY <2>1, <2>2, Zenon
<1> QED
  BY ONLY <1>2, <1>4, <1>5, l = Len(s), Zenon

(* A match grows by what a key has in common with what is left. *)
LEMMA MatchGrows ==
    ASSUME NEW ids \in Seq(Token), NEW pl \in Nat, pl <= Len(ids),
           NEW rest, rest = SubSeq(ids, pl + 1, Len(ids)),
           NEW key \in Seq(Token), NEW l \in Nat, Agree(key, rest, l)
    PROVE  SubSeq(ids, 1, pl) \o SubSeq(key, 1, l) = SubSeq(ids, 1, pl + l) /\ pl + l <= Len(ids)
<1> PICK a : a = SubSeq(ids, 1, pl)
  OBVIOUS
<1> PICK b : b = SubSeq(key, 1, l)
  OBVIOUS
<1> PICK c : c = SubSeq(ids, 1, pl + l)
  OBVIOUS
<1> PICK n \in Nat : n = Len(ids)
  BY LenProperties
<1>1. a \in Seq(Token) /\ Len(a) = pl /\ \A i \in 1..pl : a[i] = ids[i]
  BY PrefixIs
<1>2. b \in Seq(Token) /\ Len(b) = l /\ \A i \in 1..l : b[i] = key[i]
  BY PrefixIs DEF Agree
<1>3. /\ rest \in Seq(Token) /\ Len(rest) = n - pl
      /\ \A i \in 1..(n - pl) : rest[i] = ids[pl + i]
  BY RestIs
<1>4. pl + l <= n /\ l <= n - pl /\ pl <= n
  <2>1. l <= n - pl
    BY <1>3 DEF Agree
  <2> QED
    BY ONLY <2>1, n \in Nat, pl \in Nat, l \in Nat
<1>5. c \in Seq(Token) /\ Len(c) = pl + l /\ \A i \in 1..(pl + l) : c[i] = ids[i]
  <2>1. pl + l \in Nat /\ pl + l <= Len(ids)
    BY <1>4
  <2> QED
    BY <2>1, PrefixIs
<1> PICK d : d = a \o b
  OBVIOUS
<1>6. /\ d \in Seq(Token) /\ Len(d) = pl + l
      /\ \A i \in 1..(pl + l) : d[i] = IF i <= pl THEN a[i] ELSE b[i - pl]
  <2>1. a \in Seq(Token) /\ b \in Seq(Token)
    BY <1>1, <1>2
  <2>2. /\ a \o b \in Seq(Token) /\ Len(a \o b) = Len(a) + Len(b)
        /\ \A i \in 1..(Len(a) + Len(b)) : (a \o b)[i] = IF i <= Len(a) THEN a[i] ELSE b[i - Len(a)]
    BY ONLY <2>1, ConcatProperties
  <2>3. Len(a) = pl /\ Len(b) = l
    BY <1>1, <1>2
  <2> QED
    BY ONLY <2>2, <2>3, d = a \o b, Zenon
<1>7. ASSUME NEW i \in 1..(pl + l)
      PROVE  d[i] = c[i]
  <2>1. CASE i <= pl
    <3>1. i \in 1..pl
      BY ONLY <2>1, i \in 1..(pl + l), pl \in Nat, l \in Nat
    <3> QED
      BY ONLY <1>1, <1>5, <1>6, <2>1, <3>1, i \in 1..(pl + l)
  <2>2. CASE ~(i <= pl)
    <3> PICK j : j = i - pl
      OBVIOUS
    <3>1. j \in 1..l /\ pl + j = i /\ j \in 1..(n - pl)
      BY ONLY <1>4, <2>2, i \in 1..(pl + l), pl \in Nat, l \in Nat, n \in Nat, j = i - pl
    <3>2. key[j] = rest[j]
      BY <3>1 DEF Agree
    <3>3. b[j] = key[j] /\ rest[j] = ids[i]
      BY ONLY <1>2, <1>3, <3>1
    <3>4. d[i] = b[j] /\ c[i] = ids[i]
      BY ONLY <1>5, <1>6, <2>2, i \in 1..(pl + l), j = i - pl
    <3> QED
      BY ONLY <3>2, <3>3, <3>4
  <2> QED
    BY <2>1, <2>2
<1>8. d = c
  BY ONLY <1>5, <1>6, <1>7, SeqEqual
<1> QED
  BY ONLY <1>4, <1>8, a = SubSeq(ids, 1, pl), b = SubSeq(key, 1, l), c = SubSeq(ids, 1, pl + l),
          d = a \o b, n = Len(ids), Zenon

(* Two keys with the same first page agree in it. *)
LEMMA SameFirstPage ==
    ASSUME NEW s \in Seq(Token), NEW t \in Seq(Token), PageSize <= Len(s)
    PROVE  FirstPage(s) = FirstPage(t) <=> Agree(s, t, PageSize)
<1> PICK ls \in Nat : ls = Len(s)
  BY LenProperties
<1> PICK lt \in Nat : lt = Len(t)
  BY LenProperties
<1>1. PageSize \in Nat \ {0} /\ PageSize <= ls
  BY PageSizeAssumption
<1> PICK a : a = FirstPage(s)
  OBVIOUS
<1> PICK b : b = FirstPage(t)
  OBVIOUS
<1>2. a \in Seq(Token) /\ Len(a) = PageSize /\ \A i \in 1..PageSize : a[i] = s[i]
  <2>1. a = SubSeq(s, 1, PageSize)
    <3>1. (IF ls < PageSize THEN ls ELSE PageSize) = PageSize
      BY ONLY <1>1, ls \in Nat
    <3> QED
      BY ONLY <3>1, a = FirstPage(s), ls = Len(s), Zenon DEF FirstPage
  <2> QED
    BY <1>1, <2>1, PrefixIs
<1> PICK k : k = IF lt < PageSize THEN lt ELSE PageSize
  OBVIOUS
<1>3. k \in Nat /\ k <= lt /\ k <= PageSize /\ (k = PageSize <=> PageSize <= lt)
  BY ONLY <1>1, lt \in Nat, k = IF lt < PageSize THEN lt ELSE PageSize
<1>4. b \in Seq(Token) /\ Len(b) = k /\ \A i \in 1..k : b[i] = t[i]
  <2>1. b = SubSeq(t, 1, k)
    BY Zenon DEF FirstPage
  <2> QED
    BY <1>3, <2>1, PrefixIs
<1>5. ASSUME a = b PROVE Agree(s, t, PageSize)
  <2>1. k = PageSize
    BY <1>2, <1>4, <1>5
  <2>2. \A i \in 1..PageSize : s[i] = t[i]
    BY ONLY <1>2, <1>4, <1>5, <2>1
  <2> QED
    BY <1>1, <1>3, <2>1, <2>2 DEF Agree
<1>6. ASSUME Agree(s, t, PageSize) PROVE a = b
  <2>1. k = PageSize
    BY <1>3, <1>6 DEF Agree
  <2>2. \A i \in 1..PageSize : a[i] = b[i]
    BY <1>2, <1>4, <1>6, <2>1 DEF Agree
  <2> QED
    BY ONLY <1>2, <1>4, <2>1, <2>2, SeqEqual
<1> QED
  BY <1>5, <1>6


-----------------------------------------------------------------------------
(* A round of a walk *)

(* The walk has come to a node that stands for the first prefix_len tokens. *)
Arrived(w, ids) ==
    /\ w.node \in DOMAIN w.tree /\ w.prefix_len \in Nat /\ w.prefix_len <= Len(ids)
    /\ PathKey(w.tree, w.node) = SubSeq(ids, 1, w.prefix_len)
    /\ w.done \in BOOLEAN

Rest(w, ids) == SubSeq(ids, w.prefix_len + 1, Len(ids))

(* The child that holds the next page; there is at most one. *)
NextKids(w, ids) ==
    {m \in Children(w.tree, w.node) : FirstPage(w.tree[m].key) = FirstPage(Rest(w, ids))}

(* It stops, goes on to a child of which the whole key agrees, or splits the child. *)
Stuck(w, ids) == w.done \/ w.prefix_len >= Len(ids) \/ NextKids(w, ids) = {}

Descends(w, ids, tic, w2, m) ==
    /\ m \in Children(w.tree, w.node) /\ m \in Nodes(w.tree)
    /\ Agree(w.tree[m].key, Rest(w, ids), Len(w.tree[m].key))
    /\ Len(w.tree[m].key) \in Nat \ {0}
    /\ w2 = [tree |-> [w.tree EXCEPT ![m].time = tic], node |-> m,
             prefix_len |-> w.prefix_len + Len(w.tree[m].key), done |-> FALSE]

Splits(w, ids, tic, w2, m, pos) ==
    /\ m \in Children(w.tree, w.node) /\ m \in Nodes(w.tree)
    /\ pos \in Nat \ {0} /\ pos < Len(w.tree[m].key)
    /\ \E k \in Nat : pos = PageSize * k
    /\ Agree(w.tree[m].key, Rest(w, ids), pos)
    /\ ~Agree(w.tree[m].key, Rest(w, ids), pos + PageSize)
    /\ w2 = [tree |-> [SplitAt(w.tree, m, pos).tree EXCEPT ![SplitAt(w.tree, m, pos).node].time = tic],
             node |-> SplitAt(w.tree, m, pos).node,
             prefix_len |-> w.prefix_len + pos, done |-> TRUE]

LEMMA WalkStepIs ==
    ASSUME NEW w, NEW ids \in Seq(Token), NEW tic, IsTree(w.tree), Arrived(w, ids),
           NEW w2, w2 = WalkStep(w, ids, tic)
    PROVE  \/ Stuck(w, ids) /\ w2 = w
           \/ ~Stuck(w, ids) /\ \E m : Descends(w, ids, tic, w2, m)
           \/ ~Stuck(w, ids) /\ \E m, pos : Splits(w, ids, tic, w2, m, pos)
<1> PICK rest : rest = Rest(w, ids)
  OBVIOUS
<1> PICK kids : kids = NextKids(w, ids)
  OBVIOUS
<1>1. kids = {m \in Children(w.tree, w.node) : FirstPage(w.tree[m].key) = FirstPage(rest)}
  BY DEF NextKids
<1>2. rest \in Seq(Token)
  BY RestIs DEF Arrived, Rest
<1>3. CASE Stuck(w, ids)
  <2>1. w.done \/ w.prefix_len >= Len(ids) \/ kids = {}
    BY <1>3 DEF Stuck
  <2>2. WalkStep(w, ids, tic) = w
    BY <1>1, <2>1, rest = Rest(w, ids), Zenon DEF WalkStep, Rest
  <2> QED
    BY <1>3, <2>2
<1>4. CASE ~Stuck(w, ids)
  <2>1. ~w.done /\ ~(w.prefix_len >= Len(ids)) /\ kids # {}
    BY <1>4 DEF Stuck
  <2> PICK m : m = CHOOSE x \in kids : TRUE
    OBVIOUS
  <2> PICK key : key = w.tree[m].key
    OBVIOUS
  <2> PICK ml : ml = AlignDown(CommonLen(key, rest))
    OBVIOUS
  <2> PICK s : s = SplitAt(w.tree, m, ml)
    OBVIOUS
  <2>2. m \in kids
    BY <2>1
  <2>3. m \in Children(w.tree, w.node) /\ FirstPage(key) = FirstPage(rest)
    BY <1>1, <2>2
  <2>4. m \in Nodes(w.tree) /\ m \in DOMAIN w.tree
    BY <2>3 DEF Children, Nodes
  <2>5. w2 = IF ml # Len(key)
             THEN [tree |-> [s.tree EXCEPT ![s.node].time = tic], node |-> s.node,
                   prefix_len |-> w.prefix_len + ml, done |-> TRUE]
             ELSE [tree |-> [w.tree EXCEPT ![m].time = tic], node |-> m,
                   prefix_len |-> w.prefix_len + ml, done |-> FALSE]
    <3>1. w2 = WalkStep(w, ids, tic)
      OBVIOUS
    <3> QED
      BY ONLY <1>1, <2>1, <3>1, rest = Rest(w, ids), m = (CHOOSE x \in kids : TRUE), key = w.tree[m].key,
              ml = AlignDown(CommonLen(key, rest)), s = SplitAt(w.tree, m, ml), Zenon
         DEF WalkStep, Rest, Length
  <2>6. key \in Seq(Token) /\ PageSize \in Nat \ {0} /\ PageSize <= Len(key) /\ Len(key) \in Nat
    <3>1. key \in Seq(Token) /\ key # <<>> /\ w.tree[m].value \in Seq(Page)
          /\ Len(key) = PageSize * Len(w.tree[m].value)
      BY <2>4 DEF IsTree, Linked, Node
    <3>2. Len(key) \in Nat \ {0} /\ Len(w.tree[m].value) \in Nat
      BY <3>1, EmptySeq, LenProperties
    <3> QED
      BY <3>1, <3>2, PageSizeAssumption
  <2> PICK c : c = CommonLen(key, rest)
    OBVIOUS
  <2>7. c \in Nat /\ Agree(key, rest, c) /\ (\A n \in Nat : Agree(key, rest, n) => n <= c) /\ PageSize <= c
    <3>1. Agree(key, rest, PageSize)
      BY <1>2, <2>3, <2>6, SameFirstPage
    <3> QED
      BY <1>2, <2>6, <3>1, CommonLenIs
  <2> PICK k : k = c \div PageSize
    OBVIOUS
  <2>8. k \in Nat /\ ml = PageSize * k /\ ml \in Nat \ {0} /\ ml <= c /\ c < ml + PageSize
    <3>1. ml = PageSize * k
      BY DEF AlignDown
    <3>2. k \in Nat
      BY <2>7, PageArithmetic
    <3>3. PageSize * k \in Nat /\ PageSize * k <= c /\ 1 <= k
      <4>1. k <= c \div PageSize
        BY <3>2
      <4>2. 1 <= c \div PageSize
        <5>1. PageSize * 1 <= c
          BY ONLY <2>6, <2>7
        <5> QED
          BY ONLY <2>7, <5>1, 1 \in Nat, PageArithmetic
      <4> QED
        BY ONLY <2>7, <3>2, <4>1, <4>2, k = c \div PageSize, PageArithmetic
    <3>4. c < PageSize * k + PageSize
      <4>1. ~(k + 1 <= c \div PageSize)
        BY ONLY <3>2, k = c \div PageSize
      <4>2. ~(PageSize * (k + 1) <= c)
        BY ONLY <2>7, <3>2, <4>1, k + 1 \in Nat, PageArithmetic
      <4>3. PageSize * (k + 1) = PageSize * k + PageSize
        BY ONLY <2>6, <3>2
      <4> QED
        BY ONLY <2>6, <2>7, <3>3, <4>2, <4>3
    <3>5. PageSize * k >= 1
      BY ONLY <3>2, <3>3, PageArithmetic
    <3> QED
      BY ONLY <3>1, <3>2, <3>3, <3>4, <3>5
  <2>9. \A n \in Nat : n <= c => Agree(key, rest, n)
    <3> SUFFICES ASSUME NEW n \in Nat, n <= c PROVE Agree(key, rest, n)
      OBVIOUS
    <3>1. Len(rest) \in Nat
      BY <1>2, LenProperties
    <3>2. c <= Len(key) /\ c <= Len(rest) /\ \A i \in 1..c : key[i] = rest[i]
      BY <2>7 DEF Agree
    <3>3. \A i \in 1..n : i \in 1..c
      BY ONLY <2>7, n \in Nat, n <= c
    <3>4. n <= Len(key) /\ n <= Len(rest)
      BY ONLY <2>6, <2>7, <3>1, <3>2, n \in Nat, n <= c
    <3> QED
      BY ONLY <3>2, <3>3, <3>4 DEF Agree
  <2>10. Agree(key, rest, ml) /\ ~Agree(key, rest, ml + PageSize)
    <3>1. ml \in Nat /\ ml + PageSize \in Nat /\ ~(ml + PageSize <= c)
      BY ONLY <2>6, <2>7, <2>8
    <3> QED
      BY <2>7, <2>8, <2>9, <3>1
  <2>11. CASE ml = Len(key)
    <3>1. w2 = [tree |-> [w.tree EXCEPT ![m].time = tic], node |-> m,
                prefix_len |-> w.prefix_len + Len(key), done |-> FALSE]
      BY ONLY <2>5, <2>11, Zenon
    <3>2. Descends(w, ids, tic, w2, m)
      BY ONLY <2>3, <2>4, <2>8, <2>10, <2>11, <3>1, rest = Rest(w, ids), key = w.tree[m].key, Zenon
         DEF Descends
    <3> QED
      BY <1>4, <3>2
  <2>12. CASE ml # Len(key)
    <3>1. w2 = [tree |-> [s.tree EXCEPT ![s.node].time = tic], node |-> s.node,
                prefix_len |-> w.prefix_len + ml, done |-> TRUE]
      BY ONLY <2>5, <2>12, Zenon
    <3>2. ml < Len(key)
      <4>1. c <= Len(key)
        BY <2>7 DEF Agree
      <4> QED
        BY ONLY <2>6, <2>7, <2>8, <2>12, <4>1
    <3>3. Splits(w, ids, tic, w2, m, ml)
      BY ONLY <2>3, <2>4, <2>8, <2>10, <3>1, <3>2, rest = Rest(w, ids), key = w.tree[m].key,
              s = SplitAt(w.tree, m, ml), Zenon DEF Splits
    <3> QED
      BY <1>4, <3>3
  <2> QED
    BY <2>11, <2>12
<1> QED
  BY <1>3, <1>4


(* A node with a new time stamp. *)
Stamped(tree, n, tic) == [tree EXCEPT ![n].time = tic]

StampedAt(tree, tree2, n, tic) ==
    /\ SameShape(tree, tree2) /\ tree2 \in [DOMAIN tree2 -> Node]
    /\ \A m \in DOMAIN tree : tree2[m].ref_count = tree[m].ref_count
    /\ \A m \in DOMAIN tree : tree2[m].time = IF m = n THEN tic ELSE tree[m].time

LEMMA StampedIs ==
    ASSUME NEW tree, IsTree(tree), NEW n \in DOMAIN tree, NEW tic \in Nat
    PROVE  StampedAt(tree, Stamped(tree, n, tic), n, tic)
<1> PICK tree2 : tree2 = Stamped(tree, n, tic)
  OBVIOUS
<1>1. tree \in [DOMAIN tree -> Node]
  BY DEF IsTree, Linked
<1>2. tree2 = [tree EXCEPT ![n].time = tic]
  BY DEF Stamped
<1> PICK q \in Node : q = tree[n]
  BY <1>1
<1>3. tree2[n] = [parent |-> q.parent, key |-> q.key, value |-> q.value,
                  ref_count |-> q.ref_count, time |-> tic]
  <2>1. tree2[n] = [q EXCEPT !.time = tic]
    BY <1>1, <1>2
  <2> QED
    BY ONLY <2>1, q \in Node DEF Node
<1>4. tree2[n] \in Node
  BY ONLY <1>3, q \in Node, tic \in Nat DEF Node
<1>5. DOMAIN tree2 = DOMAIN tree /\ \A m \in DOMAIN tree \ {n} : tree2[m] = tree[m]
  BY <1>1, <1>2
<1>6. tree2 = [m \in DOMAIN tree |-> tree2[m]]
  BY <1>1, <1>2
<1>7. tree2 \in [DOMAIN tree2 -> Node]
  <2>1. \A m \in DOMAIN tree : tree2[m] \in Node
    BY <1>1, <1>4, <1>5
  <2> QED
    BY ONLY <1>5, <1>6, <2>1
<1>8. SameShape(tree, tree2)
  BY ONLY <1>3, <1>5, q = tree[n] DEF SameShape
<1>9. \A m \in DOMAIN tree : tree2[m].ref_count = tree[m].ref_count
  BY ONLY <1>3, <1>5, q = tree[n]
<1>10. \A m \in DOMAIN tree : tree2[m].time = IF m = n THEN tic ELSE tree[m].time
  BY ONLY <1>3, <1>5
<1> QED
  BY ONLY <1>7, <1>8, <1>9, <1>10, tree2 = Stamped(tree, n, tic), Zenon DEF StampedAt

LEMMA SplitAtIs ==
    ASSUME NEW tree, IsTree(tree), NEW n \in Nodes(tree), NEW pos,
           NEW s, s = SplitAt(tree, n, pos)
    PROVE  /\ s.node \in Nat \ DOMAIN tree
           /\ IsSplit(tree, s.tree, n, s.node, pos)
<1> PICK new : new = FreshNode(tree)
  OBVIOUS
<1> PICK head : head = HeadOf(tree[n], pos)
  OBVIOUS
<1> PICK tail : tail = [TailOf(tree[n], pos) EXCEPT !.parent = new]
  OBVIOUS
<1>1. new \in Nat \ DOMAIN tree /\ n \in DOMAIN tree /\ tree = [m \in DOMAIN tree |-> tree[m]]
  BY FreshNodeIsNew DEF Nodes, IsTree, Linked
<1>2. s = [node |-> new, tree |-> Grown([tree EXCEPT ![n] = tail], new, head)]
  BY DEF SplitAt
<1>3. s.node = new /\ s.tree = Grown([tree EXCEPT ![n] = tail], new, head)
  BY ONLY <1>2
<1> PICK tree2 : tree2 = s.tree
  OBVIOUS
<1>4. tree2 = [m \in DOMAIN tree \cup {new} |->
                IF m = new THEN head ELSE IF m = n THEN tail ELSE tree[m]]
  BY ONLY <1>1, <1>3, tree2 = s.tree DEF Grown
<1>5. /\ tree2 = [m \in DOMAIN tree \cup {new} |-> tree2[m]]
      /\ \A m \in DOMAIN tree \ {n} : tree2[m] = tree[m]
      /\ tree2[new] = head /\ tree2[n] = tail
  BY ONLY <1>1, <1>4
<1> QED
  BY ONLY <1>1, <1>3, <1>5, tree2 = s.tree, head = HeadOf(tree[n], pos),
          tail = [TailOf(tree[n], pos) EXCEPT !.parent = new], Zenon DEF IsSplit

(* What a path stands for is not changed by a walk. *)
Keeps(tree, tree2) ==
    /\ DOMAIN tree \subseteq DOMAIN tree2
    /\ \A n \in DOMAIN tree : /\ PathKey(tree2, n) = PathKey(tree, n)
                              /\ PathValue(tree2, n) = PathValue(tree, n)

LEMMA DescendKeeps ==
    ASSUME NEW w, NEW ids \in Seq(Token), NEW tic \in Nat, NEW w2, NEW m,
           NEW ev, NEW pr, NEW hd, CacheInv(w.tree, ev, pr, hd),
           Arrived(w, ids), Descends(w, ids, tic, w2, m)
    PROVE  /\ CacheInv(w2.tree, ev, pr, hd) /\ Arrived(w2, ids) /\ Keeps(w.tree, w2.tree)
           /\ w2.prefix_len > w.prefix_len
<1> PICK tree : tree = w.tree
  OBVIOUS
<1> PICK tree2 : tree2 = w2.tree
  OBVIOUS
<1> PICK key : key = tree[m].key
  OBVIOUS
<1>1. /\ m \in Children(tree, w.node) /\ m \in Nodes(tree) /\ m \in DOMAIN tree
      /\ tree[m].parent = w.node
      /\ Agree(key, Rest(w, ids), Len(key)) /\ Len(key) \in Nat \ {0}
      /\ w2 = [tree |-> Stamped(tree, m, tic), node |-> m,
               prefix_len |-> w.prefix_len + Len(key), done |-> FALSE]
  BY DEF Descends, Children, Nodes, Stamped
<1>2. /\ tree2 = Stamped(tree, m, tic) /\ w2.node = m
      /\ w2.prefix_len = w.prefix_len + Len(key) /\ w2.done = FALSE
  BY ONLY <1>1, tree2 = w2.tree
<1>3. IsTree(tree) /\ CacheInv(tree, ev, pr, hd) /\ Root \in DOMAIN tree /\ tree[Root].ref_count = 1
      /\ tree \in [DOMAIN tree -> Node]
  BY DEF CacheInv, IsTree, Linked
<1>4. StampedAt(tree, tree2, m, tic)
  BY <1>1, <1>2, <1>3, StampedIs
<1>5. /\ SameShape(tree, tree2) /\ tree2 \in [DOMAIN tree2 -> Node]
      /\ \A n \in DOMAIN tree : tree2[n].ref_count = tree[n].ref_count
  BY ONLY <1>4, Zenon DEF StampedAt
<1>6. CacheInv(tree2, ev, pr, hd)
  BY ONLY <1>3, <1>5, StampInv
<1>7. /\ DOMAIN tree2 = DOMAIN tree
      /\ \A n \in DOMAIN tree : /\ PathKey(tree2, n) = PathKey(tree, n)
                                /\ PathValue(tree2, n) = PathValue(tree, n)
  <2>1. tree2[Root].ref_count = 1
    BY ONLY <1>3, <1>5
  <2> QED
    BY ONLY <1>3, <1>5, <2>1, ShapeKept, Zenon DEF SameShape
<1>8. PathKey(tree2, m) = SubSeq(ids, 1, w.prefix_len + Len(key)) /\ w.prefix_len + Len(key) <= Len(ids)
  <2> PICK l : l = Len(key)
    OBVIOUS
  <2>1. /\ w.prefix_len \in Nat /\ w.prefix_len <= Len(ids) /\ key \in Seq(Token) /\ l \in Nat
        /\ Agree(key, SubSeq(ids, w.prefix_len + 1, Len(ids)), l)
        /\ PathKey(tree, w.node) = SubSeq(ids, 1, w.prefix_len)
    BY <1>1, <1>3 DEF Arrived, Node, Rest
  <2>2. SubSeq(ids, 1, w.prefix_len) \o SubSeq(key, 1, l) = SubSeq(ids, 1, w.prefix_len + l)
        /\ w.prefix_len + l <= Len(ids)
    BY ONLY <2>1, ids \in Seq(Token), MatchGrows
  <2>3. SubSeq(key, 1, l) = key
    BY <2>1, SubSeqFull
  <2>4. PathKey(tree, m) = PathKey(tree, w.node) \o key
    <3>1. PathKey(tree, m) = PathKey(tree, tree[m].parent) \o tree[m].key
      BY <1>1, <1>3, TreeKeys, Zenon
    <3> QED
      BY ONLY <1>1, <3>1, key = tree[m].key, Zenon
  <2> QED
    BY ONLY <1>1, <1>7, <2>1, <2>2, <2>3, <2>4, l = Len(key), Zenon
<1>9. Arrived(w2, ids)
  <2>1. w2.prefix_len \in Nat
    BY <1>1, <1>2 DEF Arrived
  <2>2. w2.node \in DOMAIN w2.tree /\ w2.done \in BOOLEAN
    BY <1>1, <1>2, <1>7
  <2> QED
    BY ONLY <1>2, <1>8, <2>1, <2>2, tree2 = w2.tree, Zenon DEF Arrived
<1>10. w2.prefix_len > w.prefix_len
  BY <1>1, <1>2 DEF Arrived
<1>11. Keeps(tree, tree2)
  BY ONLY <1>7, Zenon DEF Keeps
<1> QED
  BY ONLY <1>6, <1>9, <1>10, <1>11, tree = w.tree, tree2 = w2.tree

LEMMA SplitKeepsWalk ==
    ASSUME NEW w, NEW ids \in Seq(Token), NEW tic \in Nat, NEW w2, NEW n, NEW pos,
           NEW ev, NEW pr, NEW hd, CacheInv(w.tree, ev, pr, hd),
           Arrived(w, ids), Splits(w, ids, tic, w2, n, pos)
    PROVE  /\ CacheInv(w2.tree, ev, pr, hd) /\ Arrived(w2, ids) /\ Keeps(w.tree, w2.tree)
           /\ w2.prefix_len > w.prefix_len
<1> PICK tree : tree = w.tree
  OBVIOUS
<1> PICK tree2 : tree2 = w2.tree
  OBVIOUS
<1> PICK key : key = tree[n].key
  OBVIOUS
<1> PICK s : s = SplitAt(tree, n, pos)
  OBVIOUS
<1> PICK tree1 : tree1 = s.tree
  OBVIOUS
<1> PICK new : new = s.node
  OBVIOUS
<1>1. /\ n \in Children(tree, w.node) /\ n \in Nodes(tree) /\ n \in DOMAIN tree
      /\ tree[n].parent = w.node
      /\ pos \in Nat \ {0} /\ pos < Len(key)
      /\ Agree(key, Rest(w, ids), pos)
      /\ w2 = [tree |-> Stamped(tree1, new, tic), node |-> new,
               prefix_len |-> w.prefix_len + pos, done |-> TRUE]
  BY DEF Splits, Children, Nodes, Stamped
<1>2. /\ tree2 = Stamped(tree1, new, tic) /\ w2.node = new
      /\ w2.prefix_len = w.prefix_len + pos /\ w2.done = TRUE
  BY ONLY <1>1, tree2 = w2.tree
<1>3. IsTree(tree) /\ CacheInv(tree, ev, pr, hd) /\ tree \in [DOMAIN tree -> Node]
  BY DEF CacheInv, IsTree, Linked
<1> PICK k \in Nat : pos = PageSize * k
  BY DEF Splits
<1>4. new \in Nat \ DOMAIN tree /\ IsSplit(tree, tree1, n, new, pos)
  BY <1>1, <1>3, SplitAtIs
<1>5. /\ IsTree(tree) /\ n \in Nodes(tree) /\ new \in Nat \ DOMAIN tree /\ k \in Nat
      /\ pos = PageSize * k /\ 0 < pos /\ pos < Len(tree[n].key)
      /\ IsSplit(tree, tree1, n, new, pos) /\ CacheInv(tree, ev, pr, hd)
  BY <1>1, <1>3, <1>4
<1>6. CacheInv(tree1, ev, pr, hd)
  BY ONLY <1>5, SplitInv
<1>7. SplitKeeps(tree, tree1, n, new) /\ Halves(tree, tree1, n, new, pos)
  BY ONLY <1>5, SplitTree, SplitFields
<1>8. IsTree(tree1) /\ new \in DOMAIN tree1 /\ DOMAIN tree1 = DOMAIN tree \cup {new}
      /\ Root \in DOMAIN tree1 /\ tree1[Root].ref_count = 1
  BY <1>4, <1>6 DEF CacheInv, IsSplit, IsTree, Linked
<1>9. StampedAt(tree1, tree2, new, tic)
  BY <1>2, <1>8, StampedIs
<1>10. /\ SameShape(tree1, tree2) /\ tree2 \in [DOMAIN tree2 -> Node]
       /\ \A m \in DOMAIN tree1 : tree2[m].ref_count = tree1[m].ref_count
  BY ONLY <1>9, Zenon DEF StampedAt
<1>11. CacheInv(tree2, ev, pr, hd)
  BY ONLY <1>6, <1>10, StampInv
<1>12. /\ DOMAIN tree2 = DOMAIN tree1
       /\ \A m \in DOMAIN tree1 : /\ PathKey(tree2, m) = PathKey(tree1, m)
                                  /\ PathValue(tree2, m) = PathValue(tree1, m)
  <2>1. tree2[Root].ref_count = 1
    BY ONLY <1>8, <1>10
  <2> QED
    BY ONLY <1>8, <1>10, <2>1, ShapeKept, Zenon DEF SameShape
<1>13. Keeps(tree, tree2)
  <2>1. \A m \in DOMAIN tree : PathKey(tree1, m) = PathKey(tree, m) /\ PathValue(tree1, m) = PathValue(tree, m)
    BY ONLY <1>7, Zenon DEF SplitKeeps
  <2>2. \A m \in DOMAIN tree : m \in DOMAIN tree1
    BY <1>8
  <2> QED
    BY ONLY <1>12, <2>1, <2>2 DEF Keeps
<1>14. PathKey(tree2, new) = SubSeq(ids, 1, w.prefix_len + pos) /\ w.prefix_len + pos <= Len(ids)
  <2>1. /\ w.prefix_len \in Nat /\ w.prefix_len <= Len(ids) /\ key \in Seq(Token) /\ pos \in Nat
        /\ Agree(key, SubSeq(ids, w.prefix_len + 1, Len(ids)), pos)
        /\ PathKey(tree, w.node) = SubSeq(ids, 1, w.prefix_len)
    BY <1>1, <1>3 DEF Arrived, Node, Rest
  <2>2. SubSeq(ids, 1, w.prefix_len) \o SubSeq(key, 1, pos) = SubSeq(ids, 1, w.prefix_len + pos)
        /\ w.prefix_len + pos <= Len(ids)
    BY ONLY <2>1, ids \in Seq(Token), MatchGrows
  <2>3. PathKey(tree1, new) = PathKey(tree, tree[n].parent) \o tree1[new].key
    BY ONLY <1>7, Zenon DEF SplitKeeps
  <2>4. tree1[new].key = SubSeq(tree[n].key, 1, pos)
    BY ONLY <1>7, Zenon DEF Halves
  <2> QED
    BY ONLY <1>1, <1>8, <1>12, <2>1, <2>2, <2>3, <2>4, key = tree[n].key, Zenon
<1>15. Arrived(w2, ids)
  <2>1. w2.prefix_len \in Nat
    BY <1>1, <1>2 DEF Arrived
  <2>2. w2.node \in DOMAIN w2.tree /\ w2.done \in BOOLEAN
    BY <1>2, <1>8, <1>12
  <2> QED
    BY ONLY <1>2, <1>14, <2>1, <2>2, tree2 = w2.tree, Zenon DEF Arrived
<1>16. w2.prefix_len > w.prefix_len
  BY <1>1, <1>2 DEF Arrived
<1> QED
  BY ONLY <1>11, <1>13, <1>15, <1>16, tree = w.tree, tree2 = w2.tree


-----------------------------------------------------------------------------
(* Whole walks *)

(* What holds at 0 and goes on holding does so for a while. *)
LEMMA UpTo ==
    ASSUME NEW N \in Nat, NEW S, 0 \in S, \A k \in 1..N : k - 1 \in S => k \in S
    PROVE  \A k \in 0..N : k \in S
<1> DEFINE Out == {k \in 0..N : k \notin S}
<1>1. SUFFICES ASSUME Out # {} PROVE FALSE
  OBVIOUS
<1>2. PICK k \in Out : \A l \in Out : k <= l
  <2>1. Out \subseteq Nat
    OBVIOUS
  <2> HIDE DEF Out
  <2> QED
    BY <1>1, <2>1, LeastNatural
<1>3. k \in 0..N /\ k \notin S
  OBVIOUS
<1>4. k # 0
  BY <1>3
<1>5. k \in 1..N /\ k - 1 \in 0..N /\ ~(k <= k - 1)
  BY ONLY N \in Nat, <1>3, <1>4
<1>6. k - 1 \notin S
  BY <1>3, <1>5
<1> QED
  BY <1>2, <1>5, <1>6

(* The rounds of a walk. *)
AtRoot(tree) == [tree |-> tree, node |-> Root, prefix_len |-> 0, done |-> FALSE]

IsWalk(f, tree, ids, n) ==
    f = [k \in 0..n |-> IF k = 0 THEN AtRoot(tree) ELSE WalkStep(f[k - 1], ids, Now(tree))]

LEMMA WalkExists ==
    ASSUME NEW tree, NEW ids, NEW N \in Nat
    PROVE  \E f : IsWalk(f, tree, ids, N)
<1> DEFINE S == {k \in 0..N : \E f : IsWalk(f, tree, ids, k)}
<1>1. 0 \in S
  <2> PICK f : f = [k \in 0..0 |-> AtRoot(tree)]
    OBVIOUS
  <2>1. f = [k \in 0..0 |-> IF k = 0 THEN AtRoot(tree) ELSE WalkStep(f[k - 1], ids, Now(tree))]
    OBVIOUS
  <2> QED
    BY <2>1 DEF IsWalk
<1>2. ASSUME NEW n \in 1..N, n - 1 \in S
      PROVE  n \in S
  <2>1. PICK f : IsWalk(f, tree, ids, n - 1)
    BY <1>2
  <2> PICK next : next = WalkStep(f[n - 1], ids, Now(tree))
    OBVIOUS
  <2> PICK g : g = [k \in 0..n |-> IF k = n THEN next ELSE f[k]]
    OBVIOUS
  <2>2. ASSUME NEW k \in 0..n
        PROVE  g[k] = IF k = 0 THEN AtRoot(tree) ELSE WalkStep(g[k - 1], ids, Now(tree))
    <3>1. CASE k = n
      <4>1. n - 1 \in 0..n /\ n - 1 # n /\ n # 0
        OBVIOUS
      <4>2. g[n - 1] = f[n - 1] /\ g[n] = next
        BY <4>1
      <4> QED
        BY <3>1, <4>1, <4>2
    <3>2. CASE k # n
      <4>1. k \in 0..(n - 1)
        BY <3>2
      <4>2. f[k] = IF k = 0 THEN AtRoot(tree) ELSE WalkStep(f[k - 1], ids, Now(tree))
        BY <2>1, <4>1 DEF IsWalk
      <4>3. k # 0 => g[k - 1] = f[k - 1]
        <5>1. k # 0 => k - 1 \in 0..n /\ k - 1 # n
          BY <3>2
        <5> QED
          BY <5>1
      <4>4. g[k] = f[k]
        BY <3>2
      <4> QED
        BY ONLY <4>2, <4>3, <4>4, Zenon
    <3> QED
      BY <3>1, <3>2
  <2>3. g = [k \in 0..n |-> g[k]]
    OBVIOUS
  <2>4. g = [k \in 0..n |-> IF k = 0 THEN AtRoot(tree) ELSE WalkStep(g[k - 1], ids, Now(tree))]
    BY ONLY <2>2, <2>3
  <2>5. IsWalk(g, tree, ids, n)
    BY ONLY <2>4, Zenon DEF IsWalk
  <2> QED
    BY <2>5
<1>3. N \in 0..N
  OBVIOUS
<1>4. \A k \in 0..N : k \in S
  <2> HIDE DEF S
  <2> QED
    BY <1>1, <1>2, UpTo
<1> QED
  BY <1>3, <1>4

LEMMA TreeWalkIs ==
    ASSUME NEW tree, NEW ids \in Seq(Token)
    PROVE  \E f : /\ TreeWalk(tree, ids) = f[Len(ids)] /\ f[0] = AtRoot(tree)
                  /\ \A k \in 1..Len(ids) : f[k] = WalkStep(f[k - 1], ids, Now(tree))
<1> PICK N \in Nat : N = Len(ids)
  BY LenProperties
<1> PICK f : f = CHOOSE g : IsWalk(g, tree, ids, N)
  OBVIOUS
<1>1. IsWalk(f, tree, ids, N)
  <2>1. \E g : IsWalk(g, tree, ids, N)
    BY WalkExists
  <2> QED
    BY ONLY <2>1, f = CHOOSE g : IsWalk(g, tree, ids, N)
<1>2. TreeWalk(tree, ids) = f[N]
  BY Zenon DEF TreeWalk, IsWalk, AtRoot
<1>3. f[0] = AtRoot(tree)
  BY <1>1 DEF IsWalk
<1>4. \A k \in 1..N : f[k] = WalkStep(f[k - 1], ids, Now(tree))
  <2> TAKE k \in 1..N
  <2>1. k \in 0..N /\ k # 0
    OBVIOUS
  <2> QED
    BY ONLY <1>1, <2>1 DEF IsWalk
<1> QED
  BY <1>2, <1>3, <1>4

(* After k rounds: the walk has stopped or has matched k tokens. *)
Walking(w, tree, ids, k, ev, pr, hd) ==
    /\ CacheInv(w.tree, ev, pr, hd) /\ Arrived(w, ids) /\ Keeps(tree, w.tree)
    /\ Stuck(w, ids) \/ k <= w.prefix_len

LEMMA WalkingOn ==
    ASSUME NEW w, NEW tree, NEW ids \in Seq(Token), NEW k \in Nat, NEW ev, NEW pr, NEW hd,
           Walking(w, tree, ids, k, ev, pr, hd), NEW tic \in Nat
    PROVE  Walking(WalkStep(w, ids, tic), tree, ids, k + 1, ev, pr, hd)
<1> PICK w2 : w2 = WalkStep(w, ids, tic)
  OBVIOUS
<1>1. CacheInv(w.tree, ev, pr, hd) /\ Arrived(w, ids) /\ IsTree(w.tree) /\ Keeps(tree, w.tree)
      /\ w.prefix_len \in Nat
  BY DEF Walking, CacheInv, Arrived
<1>2. \/ Stuck(w, ids) /\ w2 = w
      \/ ~Stuck(w, ids) /\ \E m : Descends(w, ids, tic, w2, m)
      \/ ~Stuck(w, ids) /\ \E m, pos : Splits(w, ids, tic, w2, m, pos)
  BY <1>1, WalkStepIs
<1>3. CASE Stuck(w, ids) /\ w2 = w
  BY <1>1, <1>3 DEF Walking
<1>4. CASE /\ ~Stuck(w, ids)
           /\ (\E m : Descends(w, ids, tic, w2, m)) \/ (\E m, pos : Splits(w, ids, tic, w2, m, pos))
  <2>1. /\ CacheInv(w2.tree, ev, pr, hd) /\ Arrived(w2, ids) /\ Keeps(w.tree, w2.tree)
        /\ w2.prefix_len > w.prefix_len
    <3>1. CASE \E m : Descends(w, ids, tic, w2, m)
      BY ONLY <1>1, <3>1, ids \in Seq(Token), tic \in Nat, DescendKeeps
    <3>2. CASE \E m, pos : Splits(w, ids, tic, w2, m, pos)
      BY ONLY <1>1, <3>2, ids \in Seq(Token), tic \in Nat, SplitKeepsWalk
    <3> QED
      BY <1>4, <3>1, <3>2
  <2>2. Keeps(tree, w2.tree)
    BY <1>1, <2>1 DEF Keeps
  <2>3. k <= w.prefix_len
    BY <1>4 DEF Walking
  <2>4. k + 1 <= w2.prefix_len
    <3>1. w2.prefix_len \in Nat
      BY <2>1 DEF Arrived
    <3> QED
      BY ONLY <1>1, <2>1, <2>3, <3>1, k \in Nat
  <2> QED
    BY <2>1, <2>2, <2>4 DEF Walking
<1> QED
  BY <1>2, <1>3, <1>4

Rounds(f, N, tree, ids, ev, pr, hd) ==
    /\ TreeWalk(tree, ids) = f[N] /\ f[0] = AtRoot(tree)
    /\ \A k \in 1..N : f[k] = WalkStep(f[k - 1], ids, Now(tree))
    /\ \A k \in 0..N : Walking(f[k], tree, ids, k, ev, pr, hd)

LEMMA WalkRounds ==
    ASSUME NEW tree, NEW ids \in Seq(Token), NEW ev, NEW pr, NEW hd, CacheInv(tree, ev, pr, hd)
    PROVE  \E f, N : N \in Nat /\ N = Len(ids) /\ Rounds(f, N, tree, ids, ev, pr, hd)
<1> PICK N \in Nat : N = Len(ids)
  BY LenProperties
<1> PICK f : /\ TreeWalk(tree, ids) = f[N] /\ f[0] = AtRoot(tree)
             /\ \A k \in 1..N : f[k] = WalkStep(f[k - 1], ids, Now(tree))
  BY TreeWalkIs
<1> DEFINE S == {k \in 0..N : Walking(f[k], tree, ids, k, ev, pr, hd)}
<1>0. IsTree(tree)
  BY DEF CacheInv
<1>1. 0 \in S
  <2>1. /\ f[0].tree = tree /\ f[0].node = Root /\ f[0].prefix_len = 0 /\ f[0].done = FALSE
    BY DEF AtRoot
  <2>2. PathKey(tree, Root) = SubSeq(ids, 1, 0) /\ Root \in DOMAIN tree
    <3>1. SubSeq(ids, 1, 0) = <<>>
      BY SubSeqEmpty
    <3>2. PathKey(tree, Root) = <<>> /\ Root \in DOMAIN tree
      BY <1>0, TreeKeys
    <3> QED
      BY ONLY <3>1, <3>2, Zenon
  <2>3. 0 <= Len(ids) /\ 0 \in Nat /\ FALSE \in BOOLEAN
    OBVIOUS
  <2>4. Arrived(f[0], ids)
    BY ONLY <2>1, <2>2, <2>3, Zenon DEF Arrived
  <2>5. Keeps(tree, tree) /\ 0 <= 0
    BY DEF Keeps
  <2>6. Walking(f[0], tree, ids, 0, ev, pr, hd)
    BY <2>1, <2>4, <2>5 DEF Walking
  <2> QED
    BY <2>6
<1>2. ASSUME NEW k \in 1..N, k - 1 \in S
      PROVE  k \in S
  <2>1. k - 1 \in Nat /\ k - 1 + 1 = k /\ k \in 0..N
    OBVIOUS
  <2>2. Walking(f[k - 1], tree, ids, k - 1, ev, pr, hd)
    BY <1>2
  <2>3. Now(tree) \in Nat
    BY <1>0, NowIsLater
  <2>4. Walking(WalkStep(f[k - 1], ids, Now(tree)), tree, ids, k - 1 + 1, ev, pr, hd)
    BY ONLY <2>1, <2>2, <2>3, ids \in Seq(Token), WalkingOn
  <2>5. Walking(f[k], tree, ids, k, ev, pr, hd)
    BY <2>1, <2>4
  <2> QED
    BY <2>1, <2>5
<1>3. \A k \in 0..N : Walking(f[k], tree, ids, k, ev, pr, hd)
  <2>1. \A k \in 0..N : k \in S
    <3> HIDE DEF S
    <3> QED
      BY <1>1, <1>2, UpTo
  <2> QED
    BY <2>1
<1>4. Rounds(f, N, tree, ids, ev, pr, hd)
  BY <1>3 DEF Rounds
<1> QED
  BY <1>4

(* A walk keeps every count and every path, and ends where it stops. *)
LEMMA WalkKeeps ==
    ASSUME NEW tree, NEW ids \in Seq(Token), NEW ev, NEW pr, NEW hd, CacheInv(tree, ev, pr, hd),
           NEW w, w = TreeWalk(tree, ids)
    PROVE  /\ CacheInv(w.tree, ev, pr, hd) /\ Arrived(w, ids) /\ Keeps(tree, w.tree)
           /\ Stuck(w, ids)
<1>1. PICK f, N : N \in Nat /\ N = Len(ids) /\ Rounds(f, N, tree, ids, ev, pr, hd)
  BY WalkRounds
<1>4. Walking(w, tree, ids, N, ev, pr, hd)
  <2>1. N \in 0..N
    BY ONLY <1>1
  <2> QED
    BY ONLY <1>1, <2>1, w = TreeWalk(tree, ids), Zenon DEF Rounds
<1>5. Stuck(w, ids)
  <2>1. CASE N <= w.prefix_len
    <3>1. w.prefix_len >= Len(ids)
      BY <1>1, <1>4, <2>1 DEF Walking, Arrived
    <3> QED
      BY <3>1 DEF Stuck
  <2> QED
    BY <1>4, <2>1 DEF Walking
<1> QED
  BY <1>4, <1>5 DEF Walking


(* A path has a page for each page of its tokens. *)
LEMMA PathLengths ==
    ASSUME NEW tree, IsTree(tree)
    PROVE  \A n \in DOMAIN tree : Len(PathKey(tree, n)) = PageSize * Len(PathValue(tree, n))
<1> DEFINE S == {n \in DOMAIN tree : Len(PathKey(tree, n)) = PageSize * Len(PathValue(tree, n))}
<1>1. Root \in S
  <2>1. /\ Root \in DOMAIN tree /\ PathKey(tree, Root) = <<>> /\ PathValue(tree, Root) = <<>>
    BY TreeKeys, TreeValues
  <2>2. Len(<<>>) = 0 /\ PageSize * 0 = 0
    BY EmptySeq, PageSizeAssumption
  <2> QED
    BY <2>1, <2>2
<1>2. ASSUME NEW n \in Nodes(tree), tree[n].parent \in S
      PROVE  n \in S
  <2> PICK p : p = tree[n].parent
    OBVIOUS
  <2> PICK key : key = tree[n].key
    OBVIOUS
  <2> PICK value : value = tree[n].value
    OBVIOUS
  <2> PICK k : k = PathKey(tree, p)
    OBVIOUS
  <2> PICK v : v = PathValue(tree, p)
    OBVIOUS
  <2>1. /\ n \in DOMAIN tree /\ p \in DOMAIN tree /\ key \in Seq(Token) /\ value \in Seq(Page)
        /\ Len(key) = PageSize * Len(value) /\ Len(k) = PageSize * Len(v)
    BY <1>2 DEF IsTree, Linked, Nodes, Node
  <2>2. k \in Seq(Token) /\ v \in Seq(Page)
    BY <2>1, TreeKeys, TreeValues
  <2>3. PathKey(tree, n) = k \o key /\ PathValue(tree, n) = v \o value
    <3>1. PathKey(tree, n) = PathKey(tree, tree[n].parent) \o tree[n].key
      BY TreeKeys, Zenon
    <3>2. PathValue(tree, n) = PathValue(tree, tree[n].parent) \o tree[n].value
      BY TreeValues, Zenon
    <3> QED
      BY ONLY <3>1, <3>2, p = tree[n].parent, key = tree[n].key, value = tree[n].value,
              k = PathKey(tree, p), v = PathValue(tree, p), Zenon
  <2>4. Len(k \o key) = Len(k) + Len(key) /\ Len(v \o value) = Len(v) + Len(value)
    BY ONLY <2>1, <2>2, ConcatProperties
  <2>5. Len(k \o key) = PageSize * Len(v \o value)
    <3>1. Len(v) \in Nat /\ Len(value) \in Nat
      BY <2>1, <2>2, LenProperties
    <3>2. \A a, b \in Nat : PageSize * a + PageSize * b = PageSize * (a + b)
      BY PageSizeAssumption
    <3> QED
      BY ONLY <2>1, <2>4, <3>1, <3>2, Zenon
  <2> QED
    BY ONLY <2>1, <2>3, <2>5, Zenon
<1>3. DOMAIN tree \subseteq S
  <2> HIDE DEF S
  <2> QED
    BY <1>1, <1>2, OnTree
<1> QED
  BY <1>3

-----------------------------------------------------------------------------
(* Matching and inserting *)

(* A handle that a lock may take. *)
Points(h, tree) ==
    h \in Handle /\ h.node \in DOMAIN tree /\ Len(PathKey(tree, h.node)) = h.cached_len

LEMMA MatchInv ==
    ASSUME NEW rc, NEW hd, RcInv(rc, hd), NEW ids \in Seq(Token),
           NEW m, m = MatchPrefix(rc, ids)
    PROVE  /\ RcInv(m.radix, hd) /\ Points(m.handle, m.radix.tree)
           /\ Keeps(rc.tree, m.radix.tree)
<1> PICK w : w = TreeWalk(rc.tree, ids)
  OBVIOUS
<1>1. CacheInv(rc.tree, rc.evictable_size, rc.protected_size, hd)
  BY DEF RcInv
<1>2. /\ CacheInv(w.tree, rc.evictable_size, rc.protected_size, hd)
      /\ Arrived(w, ids) /\ Keeps(rc.tree, w.tree)
  BY <1>1, WalkKeeps
<1>3. /\ m.radix = [tree |-> w.tree, evictable_size |-> rc.evictable_size,
                    protected_size |-> rc.protected_size]
      /\ m.handle = [node |-> w.node, cached_len |-> w.prefix_len]
  <2>1. rc = [tree |-> rc.tree, evictable_size |-> rc.evictable_size,
              protected_size |-> rc.protected_size]
    BY DEF RcInv
  <2>2. m = [radix |-> [rc EXCEPT !.tree = w.tree],
             handle |-> [node |-> w.node, cached_len |-> w.prefix_len]]
    BY DEF MatchPrefix
  <2> QED
    BY ONLY <2>1, <2>2
<1>4. RcInv(m.radix, hd)
  BY ONLY <1>2, <1>3 DEF RcInv
<1>5. Len(PathKey(w.tree, w.node)) = w.prefix_len
  <2>1. Len(SubSeq(ids, 1, w.prefix_len)) = w.prefix_len
    BY <1>2, PrefixIs DEF Arrived
  <2> QED
    BY <1>2, <2>1, Zenon DEF Arrived
<1>6. w.node \in Nat /\ w.prefix_len \in Nat /\ w.node \in DOMAIN w.tree
  BY <1>2 DEF Arrived, CacheInv, IsTree, Linked
<1>7. Points(m.handle, m.radix.tree)
  BY ONLY <1>3, <1>5, <1>6 DEF Points, Handle
<1>8. Keeps(rc.tree, m.radix.tree)
  BY ONLY <1>2, <1>3
<1> QED
  BY <1>4, <1>7, <1>8

(* Whole pages of a sequence. *)
LEMMA AlignedIs ==
    ASSUME NEW ids \in Seq(Token)
    PROVE  /\ Aligned(ids) \in Seq(Token)
           /\ \E k \in Nat : Len(Aligned(ids)) = PageSize * k
<1> PICK n \in Nat : n = Len(ids)
  BY LenProperties
<1> PICK k : k = n \div PageSize
  OBVIOUS
<1>1. k \in Nat /\ PageSize * k \in Nat /\ PageSize * k <= n
  <2>1. k \in Nat
    BY PageArithmetic
  <2>2. k <= n \div PageSize
    BY <2>1
  <2> QED
    BY ONLY <2>1, <2>2, n \in Nat, PageArithmetic
<1>2. Aligned(ids) = SubSeq(ids, 1, PageSize * k)
  BY Zenon DEF Aligned, AlignDown
<1>3. SubSeq(ids, 1, PageSize * k) \in Seq(Token) /\ Len(SubSeq(ids, 1, PageSize * k)) = PageSize * k
  BY <1>1, PrefixIs
<1> QED
  BY <1>1, <1>2, <1>3

(* The pages for what a walk has not found. *)
Fits(fresh, tree, ids) ==
    fresh \in Injection(1..((Len(Aligned(ids)) - TreeWalk(tree, Aligned(ids)).prefix_len) \div PageSize),
                        Page \ PagesInUse(tree))

Inserted(rc, ids, ins, hd) ==
    /\ RcInv(ins.radix, hd) /\ Points(ins.handle, ins.radix.tree)
    /\ Keeps(rc.tree, ins.radix.tree)
    /\ PathKey(ins.radix.tree, ins.handle.node) = Aligned(ids)

(* It adds a leaf below the node that the walk w has ended at, unless all was found. *)
Leaf(w, key, fresh, tree2, new, node) ==
    /\ new \in Nat \ DOMAIN w.tree
    /\ node.parent = w.node /\ node.key = key /\ node.value = fresh
    /\ tree2 = Grown(w.tree, new, node) /\ GrowKeeps(w.tree, tree2, new, node)
    /\ node.time = Now(w.tree)

Inserts(w, ids, fresh, tree2) ==
    \/ Rest(w, ids) = <<>> /\ tree2 = w.tree
    \/ /\ Rest(w, ids) # <<>> /\ Len(Rest(w, ids)) = PageSize * Len(fresh) /\ fresh \in Seq(Page)
       /\ \E new, node : Leaf(w, Rest(w, ids), fresh, tree2, new, node)

LEMMA InsertInv ==
    ASSUME NEW rc, NEW hd, RcInv(rc, hd), NEW ids \in Seq(Token),
           NEW fresh, Fits(fresh, rc.tree, ids),
           NEW ins, ins = InsertPrefix(rc, ids, fresh)
    PROVE  /\ Inserted(rc, ids, ins, hd)
           /\ Inserts(TreeWalk(rc.tree, Aligned(ids)), Aligned(ids), fresh, ins.radix.tree)
<1> PICK al : al = Aligned(ids)
  OBVIOUS
<1> PICK w : w = TreeWalk(rc.tree, al)
  OBVIOUS
<1> PICK key : key = SubSeq(al, w.prefix_len + 1, Len(al))
  OBVIOUS
<1> PICK new : new = FreshNode(w.tree)
  OBVIOUS
<1> PICK now : now = Now(w.tree)
  OBVIOUS
<1>1. CacheInv(rc.tree, rc.evictable_size, rc.protected_size, hd)
  BY DEF RcInv
<1>2. al \in Seq(Token) /\ (\E k \in Nat : Len(al) = PageSize * k) /\ Len(al) \in Nat
  BY AlignedIs, LenProperties
<1>3. /\ CacheInv(w.tree, rc.evictable_size, rc.protected_size, hd)
      /\ Arrived(w, al) /\ Keeps(rc.tree, w.tree)
  BY <1>1, <1>2, WalkKeeps
<1>4. /\ w.node \in DOMAIN w.tree /\ w.node \in Nat /\ w.prefix_len \in Nat /\ w.prefix_len <= Len(al)
      /\ PathKey(w.tree, w.node) = SubSeq(al, 1, w.prefix_len)
      /\ IsTree(w.tree)
  BY <1>3 DEF Arrived, CacheInv, IsTree, Linked
<1>5. rc = [tree |-> rc.tree, evictable_size |-> rc.evictable_size,
            protected_size |-> rc.protected_size]
  BY DEF RcInv
<1>6. key \in Seq(Token) /\ Len(key) = Len(al) - w.prefix_len
  BY <1>2, <1>4, RestIs
<1>7. SubSeq(al, 1, w.prefix_len) \o key = al
  <2>1. 1 \in 1..(Len(al) + 1) /\ w.prefix_len \in (1 - 1)..Len(al) /\ Len(al) \in w.prefix_len..Len(al)
    BY <1>2, <1>4
  <2>2. SubSeq(al, 1, w.prefix_len) \o SubSeq(al, w.prefix_len + 1, Len(al)) = SubSeq(al, 1, Len(al))
    BY ONLY <1>2, <2>1, ConcatAdjacentSubSeq
  <2>3. SubSeq(al, 1, Len(al)) = al
    BY <1>2, SubSeqFull
  <2> QED
    BY ONLY <2>2, <2>3, key = SubSeq(al, w.prefix_len + 1, Len(al)), Zenon
<1>8. ins = IF key = <<>>
            THEN [radix |-> [rc EXCEPT !.tree = w.tree],
                  handle |-> [node |-> w.node, cached_len |-> Len(al)]]
            ELSE [radix |-> [rc EXCEPT
                    !.tree = Grown(w.tree, new, [parent |-> w.node, key |-> key, value |-> fresh,
                                                 ref_count |-> 0, time |-> now]),
                    !.evictable_size = @ + Len(key)],
                  handle |-> [node |-> new, cached_len |-> Len(al)]]
  <2>1. ins = InsertPrefix(rc, ids, fresh)
    OBVIOUS
  <2> QED
    BY ONLY <2>1, al = Aligned(ids), w = TreeWalk(rc.tree, al), new = FreshNode(w.tree),
            key = SubSeq(al, w.prefix_len + 1, Len(al)), now = Now(w.tree), Zenon DEF InsertPrefix
<1>9. CASE key = <<>>
  <2>1. /\ ins.radix = [tree |-> w.tree, evictable_size |-> rc.evictable_size,
                        protected_size |-> rc.protected_size]
        /\ ins.handle = [node |-> w.node, cached_len |-> Len(al)]
    BY ONLY <1>5, <1>8, <1>9
  <2>2. PathKey(w.tree, w.node) = al
    <3>1. Len(key) = 0
      BY <1>9, EmptySeq
    <3>2. w.prefix_len = Len(al)
      <4>1. Len(al) \in Nat /\ w.prefix_len \in Nat /\ Len(key) = Len(al) - w.prefix_len
        BY ONLY <1>2, <1>4, <1>6
      <4> QED
        BY ONLY <3>1, <4>1
    <3>3. SubSeq(al, 1, Len(al)) = al
      BY <1>2, SubSeqFull
    <3> QED
      BY ONLY <1>4, <3>2, <3>3, Zenon
  <2>3. RcInv(ins.radix, hd)
    BY ONLY <1>3, <2>1 DEF RcInv
  <2>4. Points(ins.handle, ins.radix.tree)
    <3>1. Len(PathKey(w.tree, w.node)) = Len(al)
      BY ONLY <2>2, Zenon
    <3> QED
      BY ONLY <1>2, <1>4, <2>1, <3>1 DEF Points, Handle
  <2>5. ins.radix.tree = w.tree /\ ins.handle.node = w.node
    BY ONLY <2>1
  <2>6. Inserts(w, al, fresh, ins.radix.tree)
    BY ONLY <1>9, <2>5, key = SubSeq(al, w.prefix_len + 1, Len(al)), Zenon DEF Inserts, Rest
  <2>7. Inserted(rc, ids, ins, hd)
    BY ONLY <1>3, <2>2, <2>3, <2>4, <2>5, al = Aligned(ids), Zenon DEF Inserted
  <2> QED
    BY ONLY <2>6, <2>7, al = Aligned(ids), w = TreeWalk(rc.tree, al), Zenon
<1>10. CASE key # <<>>
  <2> PICK node : node = [parent |-> w.node, key |-> key, value |-> fresh, ref_count |-> 0, time |-> now]
    OBVIOUS
  <2> PICK tree2 : tree2 = Grown(w.tree, new, node)
    OBVIOUS
  <2>1. /\ ins.radix = [tree |-> tree2, evictable_size |-> rc.evictable_size + Len(key),
                        protected_size |-> rc.protected_size]
        /\ ins.handle = [node |-> new, cached_len |-> Len(al)]
    <3>1. ins = [radix |-> [rc EXCEPT !.tree = tree2, !.evictable_size = @ + Len(key)],
                 handle |-> [node |-> new, cached_len |-> Len(al)]]
      BY ONLY <1>8, <1>10, Zenon, tree2 = Grown(w.tree, new, node),
              node = [parent |-> w.node, key |-> key, value |-> fresh, ref_count |-> 0, time |-> now]
    <3> QED
      BY ONLY <1>5, <3>1
  <2>2. fresh \in Seq(Page) /\ Len(key) = PageSize * Len(fresh)
    <3> PICK d : d = Len(al) - w.prefix_len
      OBVIOUS
    <3>1. \E j \in Nat : d = PageSize * j
      <4>1. PICK a \in Nat : Len(al) = PageSize * a
        BY <1>2
      <4>2. PICK b \in Nat : w.prefix_len = PageSize * b
        <5>1. Len(PathKey(w.tree, w.node)) = PageSize * Len(PathValue(w.tree, w.node))
          BY <1>4, PathLengths
        <5>2. PathValue(w.tree, w.node) \in Seq(Page)
          BY <1>4, TreeValues
        <5>3. Len(SubSeq(al, 1, w.prefix_len)) = w.prefix_len
          BY <1>2, <1>4, PrefixIs
        <5>4. Len(PathValue(w.tree, w.node)) \in Nat
          BY <5>2, LenProperties
        <5>5. w.prefix_len = PageSize * Len(PathValue(w.tree, w.node))
          BY ONLY <1>4, <5>1, <5>3, Zenon
        <5> QED
          BY ONLY <5>4, <5>5
      <4>3. PageSize * b <= PageSize * a
        BY ONLY <1>4, <4>1, <4>2
      <4>4. b <= a
        <5>1. b <= (PageSize * a) \div PageSize
          BY ONLY <4>3, a \in Nat, b \in Nat, PageArithmetic
        <5> QED
          BY ONLY <5>1, a \in Nat, PageArithmetic
      <4>5. a - b \in Nat /\ PageSize * (a - b) = PageSize * a - PageSize * b
        BY ONLY <4>4, a \in Nat, b \in Nat, PageSizeAssumption
      <4> QED
        BY ONLY <4>1, <4>2, <4>5, d = Len(al) - w.prefix_len
    <3>2. PICK j \in Nat : d = PageSize * j
      BY <3>1
    <3>3. d \div PageSize = j
      BY ONLY <3>2, j \in Nat, PageArithmetic
    <3>4. fresh \in [1..j -> Page]
      <4>1. fresh \in Injection(1..j, Page \ PagesInUse(rc.tree))
        BY <3>3 DEF Fits
      <4> QED
        BY <4>1 DEF Injection
    <3>5. fresh \in Seq(Page) /\ Len(fresh) = j
      BY ONLY <3>4, j \in Nat
    <3> QED
      BY ONLY <1>6, <3>2, <3>5, d = Len(al) - w.prefix_len
  <2>3. new \in Nat \ DOMAIN w.tree /\ now \in Nat
    BY <1>4, FreshNodeIsNew, NowIsLater
  <2>4. /\ node \in Node /\ node.parent \in DOMAIN w.tree /\ node.key # <<>>
        /\ Len(node.key) = PageSize * Len(node.value) /\ node.ref_count = 0
        /\ node.key = key /\ node.parent = w.node /\ node.value = fresh /\ node.time = now
    <3>1. /\ node.key = key /\ node.parent = w.node /\ node.value = fresh /\ node.ref_count = 0
          /\ node.time = now
      OBVIOUS
    <3>2. node \in Node
      BY ONLY <1>4, <1>6, <2>2, <2>3, 0 \in Nat,
              node = [parent |-> w.node, key |-> key, value |-> fresh, ref_count |-> 0, time |-> now]
         DEF Node
    <3> QED
      BY ONLY <1>4, <1>10, <2>2, <3>1, <3>2
  <2>5. /\ CacheInv(tree2, rc.evictable_size + Len(node.key), rc.protected_size, hd)
        /\ GrowKeeps(w.tree, tree2, new, node)
    BY ONLY <1>3, <2>3, <2>4, tree2 = Grown(w.tree, new, node), GrowInv
  <2>6. RcInv(ins.radix, hd)
    BY ONLY <2>1, <2>4, <2>5 DEF RcInv
  <2>7. PathKey(tree2, new) = al
    <3>1. PathKey(tree2, new) = PathKey(w.tree, node.parent) \o node.key
      BY ONLY <2>5, Zenon DEF GrowKeeps
    <3> QED
      BY ONLY <1>4, <1>7, <2>4, <3>1, Zenon
  <2>8. Points(ins.handle, ins.radix.tree)
    <3>1. Len(PathKey(tree2, new)) = Len(al)
      BY ONLY <2>7, Zenon
    <3>2. new \in DOMAIN tree2
      BY DEF Grown
    <3> QED
      BY ONLY <1>2, <2>1, <2>3, <3>1, <3>2 DEF Points, Handle
  <2>9. Keeps(rc.tree, tree2)
    <3>1. DOMAIN w.tree \subseteq DOMAIN tree2
      BY DEF Grown
    <3>2. \A m \in DOMAIN w.tree : /\ PathKey(tree2, m) = PathKey(w.tree, m)
                                   /\ PathValue(tree2, m) = PathValue(w.tree, m)
      BY ONLY <2>5, Zenon DEF GrowKeeps
    <3> QED
      BY ONLY <1>3, <3>1, <3>2 DEF Keeps
  <2>10. ins.radix.tree = tree2 /\ ins.handle.node = new
    BY ONLY <2>1
  <2>11. Leaf(w, key, fresh, tree2, new, node)
    BY ONLY <2>3, <2>4, <2>5, tree2 = Grown(w.tree, new, node), now = Now(w.tree), Zenon DEF Leaf
  <2>12. Inserts(w, al, fresh, tree2)
    <3>1. key = Rest(w, al)
      BY ONLY key = SubSeq(al, w.prefix_len + 1, Len(al)), Zenon DEF Rest
    <3> QED
      BY ONLY <1>10, <2>2, <2>11, <3>1, Zenon DEF Inserts
  <2>13. Inserted(rc, ids, ins, hd)
    BY ONLY <2>6, <2>7, <2>8, <2>9, <2>10, al = Aligned(ids), Zenon DEF Inserted
  <2> QED
    BY ONLY <2>10, <2>12, <2>13, al = Aligned(ids), w = TreeWalk(rc.tree, al), Zenon
<1> QED
  BY <1>9, <1>10


-----------------------------------------------------------------------------
(* Evicting *)

(* A path goes up to the root. *)
LEMMA PathsGoUp ==
    ASSUME NEW tree, IsTree(tree), NEW n \in DOMAIN tree, NEW m \in Path(tree, n)
    PROVE  tree[m].parent = Root \/ tree[m].parent \in Path(tree, n)
<1> DEFINE S == {k \in DOMAIN tree :
                    \A j \in Path(tree, k) : tree[j].parent = Root \/ tree[j].parent \in Path(tree, k)}
<1>1. Root \in S
  BY TreeKeys, TreePaths
<1>2. \A k \in Nodes(tree) : tree[k].parent \in S => k \in S
  <2> SUFFICES ASSUME NEW k \in Nodes(tree), tree[k].parent \in S,
                      NEW j \in Path(tree, k)
               PROVE  tree[j].parent = Root \/ tree[j].parent \in Path(tree, k)
    BY TreeKeys
  <2> PICK p : p = tree[k].parent
    OBVIOUS
  <2>1. Path(tree, k) = {k} \cup Path(tree, p)
    BY TreePaths
  <2>2. p = Root \/ p \in Path(tree, p)
    <3>1. p \in DOMAIN tree
      BY TreeKeys
    <3> QED
      <4>1. CASE p # Root
        <5>1. Path(tree, p) = {p} \cup Path(tree, tree[p].parent)
          BY <3>1, <4>1, TreePaths DEF Nodes
        <5> QED
          BY <5>1
      <4> QED
        BY <4>1
  <2>3. CASE j = k
    BY <2>1, <2>2, <2>3
  <2>4. CASE j \in Path(tree, p)
    BY <2>1, <2>4
  <2> QED
    BY <2>1, <2>3, <2>4
<1>3. DOMAIN tree \subseteq S
  <2> HIDE DEF S
  <2> QED
    BY <1>1, <1>2, OnTree
<1> QED
  BY <1>3

(* Below a free node all nodes are free: who holds a node holds its parent. *)
LEMMA FreeBelow ==
    ASSUME NEW tree, IsTree(tree), NEW hd, HandlesIn(tree, hd), Counted(tree, hd),
           NEW n \in Free(tree), NEW m \in Children(tree, n)
    PROVE  m \in Free(tree)
<1>1. /\ n \in Nodes(tree) /\ tree[n].ref_count = 0
      /\ m \in Nodes(tree) /\ tree[m].parent = n /\ n # Root
  BY DEF Free, Children, Nodes
<1>2. Holders(tree, hd, m) \subseteq Holders(tree, hd, n)
  <2> SUFFICES ASSUME NEW c \in Client, hd[c] # NoHandle, m \in Path(tree, hd[c].node)
               PROVE  n \in Path(tree, hd[c].node)
    BY DEF Holders
  <2>1. hd[c].node \in DOMAIN tree
    BY DEF HandlesIn
  <2> QED
    BY <1>1, <2>1, PathsGoUp
<1>3. IsFiniteSet(Holders(tree, hd, n))
  BY PoolAssumption, FS_Subset DEF Holders
<1>4. Holders(tree, hd, n) = {}
  BY <1>1, <1>3, FS_EmptySet DEF Counted
<1>5. Holders(tree, hd, m) = {}
  BY <1>2, <1>4
<1>6. tree[m].ref_count = 0
  BY <1>1, <1>5, FS_EmptySet DEF Counted
<1> QED
  BY <1>1, <1>6 DEF Free

(* So where a node is free, a leaf is: a free node with the longest key. *)
LEMMA FreeLeaf ==
    ASSUME NEW tree, IsTree(tree), NEW hd, HandlesIn(tree, hd), Counted(tree, hd),
           Free(tree) # {}
    PROVE  EvictableLeaves(tree) # {}
<1> PICK f : f = [n \in Free(tree) |-> Len(PathKey(tree, n))]
  OBVIOUS
<1> PICK L : L = {f[n] : n \in Free(tree)}
  OBVIOUS
<1>1. Free(tree) \subseteq DOMAIN tree /\ IsFiniteSet(Free(tree))
  <2>1. IsFiniteSet(DOMAIN tree)
    BY DEF IsTree, Linked
  <2>2. Free(tree) \subseteq DOMAIN tree
    BY DEF Free, Nodes
  <2> QED
    BY <2>1, <2>2, FS_Subset
<1>2. \A n \in Free(tree) : f[n] = Len(PathKey(tree, n)) /\ f[n] \in Nat
  BY <1>1, TreeKeys, LenProperties
<1>3. IsFiniteSet(L) /\ L \subseteq Nat /\ L # {}
  <2>1. f = [n \in Free(tree) |-> f[n]]
    OBVIOUS
  <2>2. IsFiniteSet(L)
    BY ONLY <1>1, <2>1, L = {f[n] : n \in Free(tree)}, ImageCount
  <2> QED
    BY <1>2, <2>2
<1>4. PICK n \in Free(tree) : \A m \in Free(tree) : f[m] <= f[n]
  BY ONLY <1>3, L = {f[n] : n \in Free(tree)}, MaxIs
<1>5. Children(tree, n) = {}
  <2> SUFFICES ASSUME NEW m \in Children(tree, n)
               PROVE  FALSE
    OBVIOUS
  <2>1. m \in Free(tree)
    BY FreeBelow
  <2>2. m \in Nodes(tree) /\ tree[m].parent = n
    BY DEF Children, Nodes
  <2> PICK a, b : a = PathKey(tree, n) /\ b = tree[m].key
    OBVIOUS
  <2>3. a \in Seq(Token) /\ b \in Seq(Token) /\ b # <<>>
    <3>1. tree[m] \in Node /\ tree[m].key # <<>>
      BY <2>2 DEF IsTree, Linked, Nodes
    <3> QED
      BY <1>1, <3>1, TreeKeys DEF Node
  <2>4. PathKey(tree, m) = a \o b
    BY <2>2, TreeKeys
  <2>5. Len(a \o b) = Len(a) + Len(b)
    BY ONLY <2>3, ConcatProperties
  <2>6. Len(b) \in Nat \ {0} /\ Len(a) \in Nat
    BY ONLY <2>3, LenProperties, EmptySeq
  <2>7. f[m] = Len(a) + Len(b) /\ f[n] = Len(a)
    BY <1>2, <2>1, <2>4, <2>5
  <2> QED
    BY ONLY <1>4, <2>1, <2>6, <2>7
<1> QED
  BY <1>1, <1>5 DEF EvictableLeaves, IsLeaf, Free

(* What eviction has in hand: all the leaves it may take, and no more to do *)
(* than there is to take.                                                   *)
Evicting(e, hd) ==
    /\ e = [radix |-> e.radix, leaves |-> e.leaves, size |-> e.size]
    /\ RcInv(e.radix, hd)
    /\ e.leaves = EvictableLeaves(e.radix.tree)
    /\ e.size \in Int /\ e.size <= e.radix.evictable_size

(* One of the leaves with the earliest time stamp goes. *)
Evicts(e, e2, n) ==
    /\ n \in EvictableLeaves(e.radix.tree) /\ n \in Nodes(e.radix.tree)
    /\ \A m \in EvictableLeaves(e.radix.tree) :
          e.radix.tree[n].time <= e.radix.tree[m].time
    /\ e2.radix.tree = [m \in DOMAIN e.radix.tree \ {n} |-> e.radix.tree[m]]

(* The leaves when a leaf is gone. *)
LEMMA LeavesNext ==
    ASSUME NEW tree, IsTree(tree), NEW n \in EvictableLeaves(tree), n \in Nodes(tree),
           NEW tree2, tree2 = [m \in DOMAIN tree \ {n} |-> tree[m]]
    PROVE  (EvictableLeaves(tree) \ {n})
               \cup {p \in {tree[n].parent} : IsLeaf(tree2, p) /\ tree2[p].ref_count = 0}
             = EvictableLeaves(tree2)
<1> PICK p : p = tree[n].parent
  OBVIOUS
<1>1. p \in DOMAIN tree /\ p # n /\ Children(tree, n) = {} /\ n # Root
  BY TreeKeys DEF EvictableLeaves, IsLeaf, Children, Nodes
<1>2. DOMAIN tree2 = DOMAIN tree \ {n} /\ \A m \in DOMAIN tree2 : tree2[m] = tree[m]
  OBVIOUS
<1>3. \A m : Children(tree2, m) = Children(tree, m) \ {n}
  BY ONLY <1>1, <1>2 DEF Children
<1>4. \A m : m # p => n \notin Children(tree, m)
  BY DEF Children
<1>5. \A m \in DOMAIN tree2 : m # p => (IsLeaf(tree2, m) <=> IsLeaf(tree, m))
  BY ONLY <1>3, <1>4 DEF IsLeaf
<1>6. n \in Children(tree, p)
  BY DEF Children, Nodes
<1>7. p \notin EvictableLeaves(tree)
  BY ONLY <1>6 DEF EvictableLeaves, IsLeaf
<1>8. \A m : m \in EvictableLeaves(tree2) <=>
              m \in DOMAIN tree2 /\ IsLeaf(tree2, m) /\ tree2[m].ref_count = 0
  BY DEF EvictableLeaves
<1>9. \A m : m \in EvictableLeaves(tree) <=>
              m \in DOMAIN tree /\ IsLeaf(tree, m) /\ tree[m].ref_count = 0
  BY DEF EvictableLeaves
<1> QED
  BY ONLY <1>1, <1>2, <1>5, <1>7, <1>8, <1>9, p = tree[n].parent

(* A round of the loop stops when it has done its work, or does some. *)
LEMMA EvictStepIs ==
    ASSUME NEW e, NEW hd, Evicting(e, hd), NEW e2, e2 = EvictStep(e)
    PROVE  /\ Evicting(e2, hd)
           /\ \/ e.size <= 0 /\ e2 = e
              \/ ~(e.size <= 0) /\ \E n : Evicts(e, e2, n)
<1> PICK tree, ev, pr : /\ tree = e.radix.tree /\ ev = e.radix.evictable_size
                        /\ pr = e.radix.protected_size
  OBVIOUS
<1>1. e.radix = [tree |-> tree, evictable_size |-> ev, protected_size |-> pr] /\ CacheInv(tree, ev, pr, hd)
  BY DEF Evicting, RcInv
<1>2. IsTree(tree) /\ HandlesIn(tree, hd) /\ Counted(tree, hd) /\ ev = TokensIn(tree, Free(tree))
  BY <1>1 DEF CacheInv, Sized
<1>3. CASE e.size <= 0
  BY <1>3 DEF EvictStep
<1>4. CASE ~(e.size <= 0)
  <2>1. Free(tree) # {}
    <3>1. ASSUME Free(tree) = {} PROVE FALSE
      <4>1. Len(tree[Root].key) \in Nat
        BY <1>2, TreeLengths DEF HasLengths
      <4>2. TokensIn(tree, {}) = 0
        BY <4>1, TokensOfOne
      <4>3. ev = 0
        BY ONLY <1>2, <3>1, <4>2, Zenon
      <4> QED
        BY <1>4, <4>3 DEF Evicting
    <3> QED
      BY <3>1
  <2>2. e.leaves = EvictableLeaves(tree) /\ e.leaves # {}
    BY <1>2, <2>1, FreeLeaf DEF Evicting
  <2> PICK n : n = LeastRecent(tree, e.leaves)
    OBVIOUS
  <2>3. n \in e.leaves /\ \A m \in e.leaves : tree[n].time <= tree[m].time
    <3>1. \A m \in e.leaves : tree[m].time \in Nat
      BY <1>2, <2>2 DEF EvictableLeaves, IsTree, Linked, Node
    <3> PICK T : T = {tree[m].time : m \in e.leaves}
      OBVIOUS
    <3>2. T \subseteq Nat /\ T # {}
      BY <2>2, <3>1
    <3>3. Min(T) \in T /\ \A t \in T : Min(T) <= t
      BY <3>2, MinIs
    <3>4. \E k \in e.leaves : \A m \in e.leaves : tree[k].time <= tree[m].time
      BY <3>3
    <3> QED
      BY <3>4 DEF LeastRecent
  <2>4. n \in Nodes(tree) /\ IsLeaf(tree, n) /\ tree[n].ref_count = 0
    <3>1. tree[Root].ref_count = 1
      BY <1>2 DEF IsTree, Linked
    <3> QED
      <4>1. n \in DOMAIN tree /\ IsLeaf(tree, n) /\ tree[n].ref_count = 0
        BY <2>2, <2>3, Zenon DEF EvictableLeaves
      <4>2. n # Root
        BY ONLY <3>1, <4>1
      <4> QED
        BY ONLY <4>1, <4>2 DEF Nodes
  <2> PICK tree2 : tree2 = [m \in DOMAIN tree \ {n} |-> tree[m]]
    OBVIOUS
  <2> PICK len : len = Len(tree[n].key)
    OBVIOUS
  <2>5. e2 = [radix |-> [e.radix EXCEPT !.tree = tree2, !.evictable_size = @ - len],
              leaves |-> (e.leaves \ {n})
                  \cup {p \in {tree[n].parent} : IsLeaf(tree2, p) /\ tree2[p].ref_count = 0},
              size |-> e.size - len]
    <3>1. Length(tree, n) = len
      BY DEF Length
    <3> PICK grown : grown = {p \in {tree[n].parent} : IsLeaf(tree2, p) /\ tree2[p].ref_count = 0}
      OBVIOUS
    <3>2. EvictStep(e) = IF e.size <= 0 \/ e.leaves = {} THEN e
                         ELSE [radix |-> [e.radix EXCEPT !.tree = tree2, !.evictable_size = @ - len],
                               leaves |-> (e.leaves \ {n}) \cup grown,
                               size |-> e.size - len]
      BY ONLY <3>1, tree = e.radix.tree, n = LeastRecent(tree, e.leaves),
              tree2 = [m \in DOMAIN tree \ {n} |-> tree[m]],
              grown = {p \in {tree[n].parent} : IsLeaf(tree2, p) /\ tree2[p].ref_count = 0},
              Zenon DEF EvictStep
    <3> QED
      BY ONLY <1>4, <2>2, <3>2, e2 = EvictStep(e),
              grown = {p \in {tree[n].parent} : IsLeaf(tree2, p) /\ tree2[p].ref_count = 0}, Zenon
  <2>6. /\ CacheInv(tree2, ev - len, pr, hd) /\ len \in Nat /\ len <= ev /\ ev \in Nat
    BY ONLY <1>1, <2>4, tree2 = [m \in DOMAIN tree \ {n} |-> tree[m]], len = Len(tree[n].key), ShrinkInv
  <2>7. e2.radix = [tree |-> tree2, evictable_size |-> ev - len, protected_size |-> pr]
        /\ e2.size = e.size - len
        /\ e2 = [radix |-> e2.radix, leaves |-> e2.leaves, size |-> e2.size]
    <3> PICK radix2 : radix2 = [tree |-> tree2, evictable_size |-> ev - len, protected_size |-> pr]
      OBVIOUS
    <3>1. [e.radix EXCEPT !.tree = tree2, !.evictable_size = @ - len] = radix2
      <4> PICK rc : rc = e.radix
        OBVIOUS
      <4> PICK ev2 : ev2 = ev - len
        OBVIOUS
      <4>1. rc = [tree |-> tree, evictable_size |-> ev, protected_size |-> pr]
        BY <1>1
      <4>2. rc.evictable_size - len = ev2
        BY ONLY <4>1, ev2 = ev - len
      <4>3. [rc EXCEPT !.tree = tree2, !.evictable_size = ev2]
              = [tree |-> tree2, evictable_size |-> ev2, protected_size |-> pr]
        <5> PICK r1 : r1 = [tree |-> tree2, evictable_size |-> ev, protected_size |-> pr]
          OBVIOUS
        <5>1. [rc EXCEPT !.tree = tree2] = r1
          BY ONLY <4>1, r1 = [tree |-> tree2, evictable_size |-> ev, protected_size |-> pr]
        <5>2. [r1 EXCEPT !.evictable_size = ev2]
                = [tree |-> tree2, evictable_size |-> ev2, protected_size |-> pr]
          BY ONLY r1 = [tree |-> tree2, evictable_size |-> ev, protected_size |-> pr]
        <5>3. [[rc EXCEPT !.tree = tree2] EXCEPT !.evictable_size = ev2]
                = [tree |-> tree2, evictable_size |-> ev2, protected_size |-> pr]
          BY ONLY <5>1, <5>2, Zenon
        <5> QED
          BY <5>3
      <4>4. [rc EXCEPT !.tree = tree2, !.evictable_size = rc.evictable_size - len]
              = [rc EXCEPT !.tree = tree2, !.evictable_size = @ - len]
        OBVIOUS
      <4> QED
        BY ONLY <4>2, <4>3, <4>4, rc = e.radix, ev2 = ev - len, Zenon,
                radix2 = [tree |-> tree2, evictable_size |-> ev - len, protected_size |-> pr]
    <3> PICK leaves2 : leaves2 = (e.leaves \ {n})
                  \cup {p \in {tree[n].parent} : IsLeaf(tree2, p) /\ tree2[p].ref_count = 0}
      OBVIOUS
    <3>2. e2 = [radix |-> radix2, leaves |-> leaves2, size |-> e.size - len]
      BY ONLY <2>5, <3>1, Zenon,
              leaves2 = (e.leaves \ {n})
                  \cup {p \in {tree[n].parent} : IsLeaf(tree2, p) /\ tree2[p].ref_count = 0}
    <3> QED
      BY ONLY <3>2, radix2 = [tree |-> tree2, evictable_size |-> ev - len, protected_size |-> pr]
  <2>8. e2.leaves = EvictableLeaves(tree2)
    <3>1. e2.leaves = (EvictableLeaves(tree) \ {n})
                  \cup {p \in {tree[n].parent} : IsLeaf(tree2, p) /\ tree2[p].ref_count = 0}
      BY ONLY <2>2, <2>5
    <3> QED
      BY <1>2, <2>2, <2>3, <2>4, <3>1, LeavesNext
  <2>9. RcInv(e2.radix, hd)
    BY ONLY <2>6, <2>7 DEF RcInv
  <2>10. e2.size \in Int /\ e2.size <= e2.radix.evictable_size
    <3>1. e.size \in Int /\ e.size <= ev
      BY DEF Evicting
    <3>2. e2.radix.evictable_size = ev - len
      BY ONLY <2>7
    <3> QED
      BY ONLY <2>6, <2>7, <3>1, <3>2
  <2>11. e2.radix.tree = tree2
    BY ONLY <2>7
  <2>12. Evicting(e2, hd)
    BY ONLY <2>7, <2>8, <2>9, <2>10, <2>11, Zenon DEF Evicting
  <2>13. Evicts(e, e2, n)
    BY ONLY <2>2, <2>3, <2>4, <2>11, tree = e.radix.tree, tree2 = [m \in DOMAIN tree \ {n} |-> tree[m]],
            Zenon DEF Evicts
  <2> QED
    BY <1>4, <2>12, <2>13
<1> QED
  BY <1>3, <1>4


(* The rounds of an eviction. *)
AtLeaves(rc, size) == [radix |-> rc, leaves |-> EvictableLeaves(rc.tree), size |-> size]

IsEviction(f, rc, size, n) ==
    f = [k \in 0..n |-> IF k = 0 THEN AtLeaves(rc, size) ELSE EvictStep(f[k - 1])]

LEMMA EvictionExists ==
    ASSUME NEW rc, NEW size, NEW N \in Nat
    PROVE  \E f : IsEviction(f, rc, size, N)
<1> DEFINE S == {k \in 0..N : \E f : IsEviction(f, rc, size, k)}
<1>1. 0 \in S
  <2> PICK f : f = [k \in 0..0 |-> AtLeaves(rc, size)]
    OBVIOUS
  <2>1. f = [k \in 0..0 |-> IF k = 0 THEN AtLeaves(rc, size) ELSE EvictStep(f[k - 1])]
    OBVIOUS
  <2> QED
    BY <2>1 DEF IsEviction
<1>2. ASSUME NEW n \in 1..N, n - 1 \in S
      PROVE  n \in S
  <2>1. PICK f : IsEviction(f, rc, size, n - 1)
    BY <1>2
  <2> PICK next : next = EvictStep(f[n - 1])
    OBVIOUS
  <2> PICK g : g = [k \in 0..n |-> IF k = n THEN next ELSE f[k]]
    OBVIOUS
  <2>2. ASSUME NEW k \in 0..n
        PROVE  g[k] = IF k = 0 THEN AtLeaves(rc, size) ELSE EvictStep(g[k - 1])
    <3>1. CASE k = n
      <4>1. n - 1 \in 0..n /\ n - 1 # n /\ n # 0
        OBVIOUS
      <4>2. g[n - 1] = f[n - 1] /\ g[n] = next
        BY <4>1
      <4> QED
        BY <3>1, <4>1, <4>2
    <3>2. CASE k # n
      <4>1. k \in 0..(n - 1)
        BY <3>2
      <4>2. f[k] = IF k = 0 THEN AtLeaves(rc, size) ELSE EvictStep(f[k - 1])
        BY <2>1, <4>1 DEF IsEviction
      <4>3. k # 0 => g[k - 1] = f[k - 1]
        <5>1. k # 0 => k - 1 \in 0..n /\ k - 1 # n
          BY <3>2
        <5> QED
          BY <5>1
      <4>4. g[k] = f[k]
        BY <3>2
      <4> QED
        BY ONLY <4>2, <4>3, <4>4, Zenon
    <3> QED
      BY <3>1, <3>2
  <2>3. g = [k \in 0..n |-> g[k]]
    OBVIOUS
  <2>4. g = [k \in 0..n |-> IF k = 0 THEN AtLeaves(rc, size) ELSE EvictStep(g[k - 1])]
    BY ONLY <2>2, <2>3
  <2>5. IsEviction(g, rc, size, n)
    BY ONLY <2>4, Zenon DEF IsEviction
  <2> QED
    BY <2>5
<1>3. N \in 0..N
  OBVIOUS
<1>4. \A k \in 0..N : k \in S
  <2> HIDE DEF S
  <2> QED
    BY <1>1, <1>2, UpTo
<1> QED
  BY <1>3, <1>4

LEMMA EvictLoopIs ==
    ASSUME NEW rc, NEW size, IsTree(rc.tree)
    PROVE  \E f, N : /\ N \in Nat /\ N = Cardinality(DOMAIN rc.tree)
                     /\ EvictLoop(rc, size) = f[N] /\ f[0] = AtLeaves(rc, size)
                     /\ \A k \in 1..N : f[k] = EvictStep(f[k - 1])
<1> PICK N \in Nat : N = Cardinality(DOMAIN rc.tree)
  <2>1. IsFiniteSet(DOMAIN rc.tree)
    BY DEF IsTree, Linked
  <2> QED
    BY <2>1, FS_CardinalityType
<1> PICK f : f = CHOOSE g : IsEviction(g, rc, size, N)
  OBVIOUS
<1>1. IsEviction(f, rc, size, N)
  <2>1. \E g : IsEviction(g, rc, size, N)
    BY EvictionExists
  <2> QED
    BY ONLY <2>1, f = CHOOSE g : IsEviction(g, rc, size, N)
<1>2. EvictLoop(rc, size) = f[N]
  BY Zenon DEF EvictLoop, IsEviction, AtLeaves
<1>3. f[0] = AtLeaves(rc, size)
  BY <1>1 DEF IsEviction
<1>4. \A k \in 1..N : f[k] = EvictStep(f[k - 1])
  <2> TAKE k \in 1..N
  <2>1. k \in 0..N /\ k # 0
    OBVIOUS
  <2> QED
    BY ONLY <1>1, <2>1 DEF IsEviction
<1> QED
  BY <1>2, <1>3, <1>4

(* After k rounds: size tokens are gone or k nodes are. *)
EvictingOn(e, rc, k, hd) ==
    /\ Evicting(e, hd)
    /\ \/ e.size <= 0
       \/ Cardinality(DOMAIN e.radix.tree) + k <= Cardinality(DOMAIN rc.tree)

LEMMA EvictsOn ==
    ASSUME NEW e, NEW rc, NEW k \in Nat, NEW hd, EvictingOn(e, rc, k, hd),
           IsFiniteSet(DOMAIN rc.tree)
    PROVE  EvictingOn(EvictStep(e), rc, k + 1, hd)
<1> PICK e2 : e2 = EvictStep(e)
  OBVIOUS
<1>1. /\ Evicting(e2, hd)
      /\ \/ e.size <= 0 /\ e2 = e
         \/ ~(e.size <= 0) /\ \E n : Evicts(e, e2, n)
  BY EvictStepIs DEF EvictingOn
<1>2. ASSUME e.size <= 0, e2 = e PROVE EvictingOn(e2, rc, k + 1, hd)
  BY ONLY <1>1, <1>2 DEF EvictingOn
<1>3. ASSUME NEW n, Evicts(e, e2, n), ~(e.size <= 0) PROVE EvictingOn(e2, rc, k + 1, hd)
  <2> PICK A, B : A = DOMAIN e.radix.tree /\ B = DOMAIN e2.radix.tree
    OBVIOUS
  <2>1. B = A \ {n} /\ n \in A
    BY <1>3 DEF Evicts, Nodes
  <2>2. IsFiniteSet(A)
    BY DEF EvictingOn, Evicting, RcInv, CacheInv, IsTree, Linked
  <2>3. Cardinality(B) = Cardinality(A) - 1 /\ Cardinality(A) \in Nat
    BY <2>1, <2>2, FS_RemoveElement, FS_CardinalityType
  <2>4. Cardinality(DOMAIN rc.tree) \in Nat
    BY FS_CardinalityType
  <2>5. Cardinality(A) + k <= Cardinality(DOMAIN rc.tree)
    BY <1>3 DEF EvictingOn
  <2>6. Cardinality(B) + (k + 1) <= Cardinality(DOMAIN rc.tree)
    BY ONLY <2>3, <2>4, <2>5, k \in Nat
  <2> QED
    BY ONLY <1>1, <2>6, B = DOMAIN e2.radix.tree, Zenon DEF EvictingOn
<1>4. EvictingOn(e2, rc, k + 1, hd)
  BY ONLY <1>1, <1>2, <1>3, Zenon
<1> QED
  BY ONLY <1>4, e2 = EvictStep(e), Zenon

(* Eviction frees what it was asked for: the leaves do not run out. *)
LEMMA EvictInv ==
    ASSUME NEW rc, NEW hd, RcInv(rc, hd), NEW size \in Nat, size <= rc.evictable_size,
           NEW e, e = EvictLoop(rc, size)
    PROVE  RcInv(e.radix, hd) /\ ~(e.size > 0)
<1>0. IsTree(rc.tree)
  BY DEF RcInv, CacheInv
<1>1. PICK f, N : /\ N \in Nat /\ N = Cardinality(DOMAIN rc.tree)
                  /\ EvictLoop(rc, size) = f[N] /\ f[0] = AtLeaves(rc, size)
                  /\ \A k \in 1..N : f[k] = EvictStep(f[k - 1])
  BY <1>0, EvictLoopIs
<1>2. IsFiniteSet(DOMAIN rc.tree) /\ DOMAIN rc.tree # {}
  BY <1>0 DEF IsTree, Linked
<1> DEFINE S == {k \in 0..N : EvictingOn(f[k], rc, k, hd)}
<1>3. 0 \in S
  <2>1. f[0] = [radix |-> rc, leaves |-> EvictableLeaves(rc.tree), size |-> size]
    BY <1>1 DEF AtLeaves
  <2>2. f[0].radix = rc /\ f[0].leaves = EvictableLeaves(rc.tree) /\ f[0].size = size
    BY ONLY <2>1
  <2>3. Evicting(f[0], hd)
    <3>1. size \in Int
      OBVIOUS
    <3> QED
      BY ONLY <2>1, <2>2, <3>1, RcInv(rc, hd), size <= rc.evictable_size, Zenon DEF Evicting
  <2>4. Cardinality(DOMAIN f[0].radix.tree) + 0 <= Cardinality(DOMAIN rc.tree)
    BY ONLY <1>1, <2>2
  <2>5. EvictingOn(f[0], rc, 0, hd)
    BY ONLY <2>3, <2>4, Zenon DEF EvictingOn
  <2> QED
    BY <1>1, <2>5
<1>4. ASSUME NEW k \in 1..N, k - 1 \in S
      PROVE  k \in S
  <2>1. k - 1 \in Nat /\ k - 1 + 1 = k /\ k \in 0..N
    BY <1>1
  <2>2. EvictingOn(f[k - 1], rc, k - 1, hd)
    BY <1>4
  <2>3. EvictingOn(EvictStep(f[k - 1]), rc, k - 1 + 1, hd)
    BY ONLY <1>2, <2>1, <2>2, EvictsOn
  <2>4. EvictingOn(f[k], rc, k, hd)
    BY <1>1, <2>1, <2>3
  <2> QED
    BY <2>1, <2>4
<1>5. EvictingOn(f[N], rc, N, hd)
  <2>1. \A k \in 0..N : k \in S
    <3> HIDE DEF S
    <3> QED
      BY <1>1, <1>3, <1>4, UpTo
  <2> QED
    BY <1>1, <2>1
<1>6. EvictingOn(e, rc, N, hd)
  BY <1>1, <1>5
<1>7. RcInv(e.radix, hd) /\ e.size \in Int
  BY <1>6 DEF EvictingOn, Evicting
<1>8. ~(Cardinality(DOMAIN e.radix.tree) + N <= Cardinality(DOMAIN rc.tree))
  <2>1. IsFiniteSet(DOMAIN e.radix.tree) /\ DOMAIN e.radix.tree # {}
    BY <1>7 DEF RcInv, CacheInv, IsTree, Linked
  <2>2. Cardinality(DOMAIN e.radix.tree) \in Nat \ {0}
    BY <2>1, FS_EmptySet, FS_CardinalityType
  <2> QED
    BY ONLY <1>1, <2>2
<1>9. e.size <= 0
  BY <1>6, <1>8 DEF EvictingOn
<1> QED
  BY <1>7, <1>9


-----------------------------------------------------------------------------
(* The operations *)

Settled(rc) == [rc EXCEPT !.tree = Ranked(@)]

(* Ranks for time stamps change nothing else. *)
LEMMA SettledInv ==
    ASSUME NEW rc, NEW hd, RcInv(rc, hd)
    PROVE  RcInv(Settled(rc), hd) /\ Settled(rc).tree = Ranked(rc.tree)
<1> PICK tree, ev, pr : /\ tree = rc.tree /\ ev = rc.evictable_size
                        /\ pr = rc.protected_size
  OBVIOUS
<1>1. rc = [tree |-> tree, evictable_size |-> ev, protected_size |-> pr] /\ CacheInv(tree, ev, pr, hd)
  BY DEF RcInv
<1>2. IsTree(tree)
  BY <1>1 DEF CacheInv
<1> PICK ranked : ranked = Ranked(tree)
  OBVIOUS
<1>3. /\ SameShape(tree, ranked) /\ ranked \in [DOMAIN ranked -> Node]
      /\ \A n \in DOMAIN tree : ranked[n].ref_count = tree[n].ref_count
  BY <1>2, RankedIs
<1>4. CacheInv(ranked, ev, pr, hd)
  BY <1>1, <1>3, StampInv
<1>5. Settled(rc) = [rc EXCEPT !.tree = ranked]
  BY ONLY ranked = Ranked(tree), tree = rc.tree, Zenon DEF Settled
<1>6. Settled(rc) = [tree |-> ranked, evictable_size |-> ev, protected_size |-> pr]
  BY ONLY <1>1, <1>5
<1>7. Settled(rc).tree = ranked /\ Settled(rc).evictable_size = ev /\ Settled(rc).protected_size = pr
  BY ONLY <1>6
<1> QED
  BY ONLY <1>4, <1>6, <1>7, ranked = Ranked(tree), tree = rc.tree, Zenon DEF RcInv

(* A handle given after it was taken back. *)
LEMMA GivenTwice ==
    ASSUME NEW hd, hd = [c \in Client |-> hd[c]], NEW c \in Client, NEW h
    PROVE  /\ [[hd EXCEPT ![c] = NoHandle] EXCEPT ![c] = h] = [hd EXCEPT ![c] = h]
           /\ [hd EXCEPT ![c] = NoHandle][c] = NoHandle
OBVIOUS

(* What a request of the cache stores, with the handle it goes on with. *)
Stored(ins, h, finished) ==
    IF finished THEN UnlockHandle(ins.radix, h) ELSE LockHandle(UnlockHandle(ins.radix, h), ins.handle)

LEMMA StoreInv ==
    ASSUME NEW rc, NEW hd, RcInv(rc, hd), NEW ids \in Seq(Token), NEW c \in Client,
           hd[c] # NoHandle, NEW fresh, Fits(fresh, rc.tree, ids), NEW finished \in BOOLEAN,
           NEW ins, ins = InsertPrefix(rc, ids, fresh)
    PROVE  /\ RcInv(Stored(ins, hd[c], finished),
                    [hd EXCEPT ![c] = IF finished THEN NoHandle ELSE ins.handle])
           /\ ~UnlockFails(ins.radix, hd[c])
<1>1. RcInv(ins.radix, hd) /\ Points(ins.handle, ins.radix.tree)
  BY InsertInv DEF Inserted
<1> PICK unlocked : unlocked = UnlockHandle(ins.radix, hd[c])
  OBVIOUS
<1> PICK hd1 : hd1 = [hd EXCEPT ![c] = NoHandle]
  OBVIOUS
<1>2. /\ RcInv(unlocked, hd1) /\ ~UnlockFails(ins.radix, hd[c])
      /\ SameShape(ins.radix.tree, unlocked.tree)
  BY <1>1, UnlockInv
<1>3. CASE finished
  BY <1>2, <1>3 DEF Stored
<1>4. CASE ~finished
  <2>1. hd = [b \in Client |-> hd[b]]
    BY DEF RcInv, CacheInv, HandlesIn
  <2>2. hd1[c] = NoHandle /\ [hd1 EXCEPT ![c] = ins.handle] = [hd EXCEPT ![c] = ins.handle]
    BY <2>1, GivenTwice
  <2>3. /\ ins.handle \in Handle /\ ins.handle.node \in DOMAIN unlocked.tree
        /\ Len(PathKey(unlocked.tree, ins.handle.node)) = ins.handle.cached_len
    <3>1. IsTree(ins.radix.tree) /\ IsTree(unlocked.tree)
      BY <1>1, <1>2 DEF RcInv, CacheInv
    <3>2. unlocked.tree \in [DOMAIN unlocked.tree -> Node] /\ unlocked.tree[Root].ref_count = 1
      BY <3>1 DEF IsTree, Linked
    <3>3. \A n \in DOMAIN ins.radix.tree : PathKey(unlocked.tree, n) = PathKey(ins.radix.tree, n)
      BY <1>2, <3>1, <3>2, ShapeKept
    <3>4. DOMAIN unlocked.tree = DOMAIN ins.radix.tree
      BY <1>2 DEF SameShape
    <3> QED
      BY <1>1, <3>3, <3>4 DEF Points
  <2>4. RcInv(LockHandle(unlocked, ins.handle), [hd1 EXCEPT ![c] = ins.handle])
    BY <1>2, <2>2, <2>3, LockInv
  <2> QED
    BY <1>2, <1>4, <2>2, <2>4 DEF Stored
<1> QED
  BY <1>3, <1>4

(* The inductive invariant. *)
Inv == RcInv(radix, handle) /\ failed = FALSE

(* The tree that is only its root. *)
LEMMA InitInv ==
    ASSUME Init
    PROVE  Inv
<1> PICK tree : tree = [n \in {Root} |-> [parent |-> Root, key |-> <<>>, value |-> <<>>,
                                          ref_count |-> 1, time |-> 0]]
  OBVIOUS
<1>1. /\ radix = [tree |-> tree, evictable_size |-> 0, protected_size |-> 0]
      /\ handle = [c \in Client |-> NoHandle] /\ failed = FALSE
  BY DEF Init
<1>2. DOMAIN tree = {Root} /\ Nodes(tree) = {} /\ tree[Root].ref_count = 1 /\ tree[Root].key = <<>>
  BY DEF Nodes
<1>3. Linked(tree)
  <2>1. tree[Root] \in Node
    <3>1. <<>> \in Seq(Token) /\ <<>> \in Seq(Page)
      BY EmptySeq
    <3>2. tree[Root] = [parent |-> Root, key |-> <<>>, value |-> <<>>, ref_count |-> 1, time |-> 0]
      OBVIOUS
    <3> QED
      BY ONLY <3>1, <3>2 DEF Node, Root
  <2>2. tree \in [DOMAIN tree -> Node]
    BY <1>2, <2>1
  <2>3. IsFiniteSet({Root}) /\ Root \in Nat
    BY FS_Singleton DEF Root
  <2> QED
    BY <1>2, <2>2, <2>3 DEF Linked
<1>4. IsTree(tree)
  <2> PICK f : f = [m \in DOMAIN tree |-> <<>>]
    OBVIOUS
  <2> PICK g : g = [m \in DOMAIN tree |-> {}]
    OBVIOUS
  <2>1. f \in [DOMAIN tree -> Seq(Token)] /\ f \in [DOMAIN tree -> Seq(Page)]
    BY EmptySeq
  <2>2. \A m \in DOMAIN tree : m = Root
    BY <1>2
  <2>3. IsKeys(tree, f) /\ IsValues(tree, f)
    <3>1. f = [m \in DOMAIN tree |-> IF m = Root THEN <<>> ELSE f[tree[m].parent] \o tree[m].key]
      BY ONLY <2>2, f = [m \in DOMAIN tree |-> <<>>]
    <3>2. f = [m \in DOMAIN tree |-> IF m = Root THEN <<>> ELSE f[tree[m].parent] \o tree[m].value]
      BY ONLY <2>2, f = [m \in DOMAIN tree |-> <<>>]
    <3> QED
      BY ONLY <3>1, <3>2, Zenon DEF IsKeys, IsValues
  <2>4. g \in [DOMAIN tree -> SUBSET Nodes(tree)] /\ IsPaths(tree, g)
    BY <2>2 DEF IsPaths
  <2> QED
    BY <1>3, <2>1, <2>3, <2>4 DEF IsTree
<1>5. HandlesIn(tree, handle) /\ Counted(tree, handle)
  BY <1>1, <1>2 DEF HandlesIn, Counted
<1>6. Sized(tree, 0, 0)
  <2>1. Free(tree) = {} /\ Nodes(tree) \ Free(tree) = {}
    BY <1>2 DEF Free
  <2>2. TokensIn(tree, {}) = 0
    <3>1. Len(tree[Root].key) \in Nat
      BY <1>4, <1>2, TreeLengths DEF HasLengths
    <3> QED
      BY <3>1, TokensOfOne
  <2> QED
    BY ONLY <2>1, <2>2, Zenon DEF Sized
<1>7. radix.tree = tree /\ radix.evictable_size = 0 /\ radix.protected_size = 0
  BY ONLY <1>1
<1> QED
  BY ONLY <1>1, <1>4, <1>5, <1>6, <1>7, Zenon DEF Inv, RcInv, CacheInv

(* Every operation keeps it. *)
LEMMA NextInv ==
    ASSUME Inv, [Next]_vars
    PROVE  Inv'
<1>1. CASE UNCHANGED vars
  BY <1>1 DEF vars, Inv
<1>2. ASSUME NEW ids \in Input, Match(ids) PROVE Inv'
  <2>1. ids \in Seq(Token)
    BY InputAssumption
  <2> PICK m : m = MatchPrefix(radix, ids)
    OBVIOUS
  <2>2. RcInv(m.radix, handle)
    BY <2>1, MatchInv DEF Inv
  <2>3. RcInv(Settled(m.radix), handle)
    BY <2>2, SettledInv
  <2>4. radix' = Settled(m.radix) /\ handle' = handle /\ failed' = failed
    BY <1>2, Zenon DEF Match, Settle, Settled
  <2> QED
    BY <2>3, <2>4 DEF Inv
<1>3. ASSUME NEW c \in Client, NEW ids \in Input, Acquire(c, ids) PROVE Inv'
  <2>1. ids \in Seq(Token)
    BY InputAssumption
  <2> PICK m : m = MatchPrefix(radix, ids)
    OBVIOUS
  <2>2. RcInv(m.radix, handle) /\ Points(m.handle, m.radix.tree)
    BY <2>1, MatchInv DEF Inv
  <2>3. handle[c] = NoHandle
    BY <1>3 DEF Acquire
  <2>4. RcInv(LockHandle(m.radix, m.handle), [handle EXCEPT ![c] = m.handle])
    BY <2>2, <2>3, LockInv DEF Points
  <2>5. RcInv(Settled(LockHandle(m.radix, m.handle)), [handle EXCEPT ![c] = m.handle])
    BY <2>4, SettledInv
  <2>6. /\ radix' = Settled(LockHandle(m.radix, m.handle))
        /\ handle' = [handle EXCEPT ![c] = m.handle] /\ failed' = failed
    BY <1>3, Zenon DEF Acquire, Settle, Settled
  <2> QED
    BY ONLY <2>5, <2>6, Inv, Zenon DEF Inv
<1>4. ASSUME NEW c \in Client, Release(c) PROVE Inv'
  <2>1. handle[c] # NoHandle
    BY <1>4 DEF Release
  <2>2. /\ RcInv(UnlockHandle(radix, handle[c]), [handle EXCEPT ![c] = NoHandle])
        /\ ~UnlockFails(radix, handle[c])
    BY <2>1, UnlockInv DEF Inv
  <2>3. RcInv(Settled(UnlockHandle(radix, handle[c])), [handle EXCEPT ![c] = NoHandle])
    BY <2>2, SettledInv
  <2>4. /\ radix' = Settled(UnlockHandle(radix, handle[c]))
        /\ handle' = [handle EXCEPT ![c] = NoHandle]
        /\ failed' = (failed \/ UnlockFails(radix, handle[c]))
    BY <1>4, Zenon DEF Release, Settle, Settled
  <2>5. failed' = FALSE
    BY ONLY <2>2, <2>4, Inv, Zenon DEF Inv
  <2> QED
    BY ONLY <2>3, <2>4, <2>5, Zenon DEF Inv
<1>5. ASSUME NEW c \in Client, NEW ids \in Input, NEW finished \in BOOLEAN, Store(c, ids, finished)
      PROVE  Inv'
  <2>1. ids \in Seq(Token) /\ handle[c] # NoHandle
    BY <1>5, InputAssumption DEF Store
  <2>2. PICK fresh : /\ Fits(fresh, radix.tree, ids)
                     /\ failed' = (failed \/ UnlockFails(InsertPrefix(radix, ids, fresh).radix, handle[c]))
                     /\ radix' = Settled(Stored(InsertPrefix(radix, ids, fresh), handle[c], finished))
                     /\ handle' = [handle EXCEPT ![c] = IF finished THEN NoHandle
                                                        ELSE InsertPrefix(radix, ids, fresh).handle]
    BY <1>5, Zenon DEF Store, Settle, Settled, Stored, Fits
  <2> PICK ins : ins = InsertPrefix(radix, ids, fresh)
    OBVIOUS
  <2>3. /\ RcInv(Stored(ins, handle[c], finished),
                 [handle EXCEPT ![c] = IF finished THEN NoHandle ELSE ins.handle])
        /\ ~UnlockFails(ins.radix, handle[c])
    BY <2>1, <2>2, StoreInv DEF Inv
  <2>4. RcInv(Settled(Stored(ins, handle[c], finished)),
              [handle EXCEPT ![c] = IF finished THEN NoHandle ELSE ins.handle])
    BY ONLY <2>3, SettledInv
  <2>5. failed' = FALSE
    BY ONLY <2>2, <2>3, ins = InsertPrefix(radix, ids, fresh), Inv, Zenon DEF Inv
  <2> QED
    BY ONLY <2>2, <2>4, <2>5, ins = InsertPrefix(radix, ids, fresh), Zenon DEF Inv
<1>6. ASSUME NEW pages \in 1..Cardinality(Page), Evict(pages) PROVE Inv'
  <2> PICK size : size = PageSize * pages
    OBVIOUS
  <2> PICK e : e = EvictLoop(radix, size)
    OBVIOUS
  <2>1. /\ size <= radix.evictable_size
        /\ radix' = Settled(e.radix) /\ failed' = (failed \/ e.size > 0) /\ handle' = handle
    BY <1>6, Zenon DEF Evict, Settle, Settled
  <2>2. size \in Nat
    <3>1. pages \in Nat
      OBVIOUS
    <3> QED
      BY <3>1, PageSizeAssumption
  <2>3. RcInv(e.radix, handle) /\ ~(e.size > 0)
    BY <2>1, <2>2, EvictInv DEF Inv
  <2>4. RcInv(Settled(e.radix), handle)
    BY <2>3, SettledInv
  <2>5. failed' = FALSE
    BY ONLY <2>1, <2>3, Inv, Zenon DEF Inv
  <2> QED
    BY ONLY <2>1, <2>4, <2>5, Zenon DEF Inv
<1> QED
  BY <1>1, <1>2, <1>3, <1>4, <1>5, <1>6 DEF Next

THEOREM Invariance == Spec => []Inv
<1>1. Init => Inv
  BY InitInv
<1>2. Inv /\ [Next]_vars => Inv'
  BY NextInv
<1> QED
  BY <1>1, <1>2, PTL DEF Spec


-----------------------------------------------------------------------------
(* What follows *)

(* The tree is well-formed. *)
THEOREM TypeCorrectness == Spec => []TypeOK
<1>1. Inv => TypeOK
  <2> SUFFICES ASSUME Inv PROVE TypeOK
    OBVIOUS
  <2>1. Linked(radix.tree) /\ HandlesIn(radix.tree, handle)
    BY DEF Inv, RcInv, CacheInv, IsTree
  <2>2. ASSUME NEW n \in DOMAIN radix.tree \ {Root}
        PROVE  /\ radix.tree[n].parent \in DOMAIN radix.tree
               /\ radix.tree[n].key \in Seq(Token) /\ radix.tree[n].value \in Seq(Page)
               /\ radix.tree[n].key # <<>>
               /\ Len(radix.tree[n].key) = PageSize * Len(radix.tree[n].value)
               /\ radix.tree[n].ref_count \in Nat /\ radix.tree[n].time \in Nat
    <3>1. radix.tree[n] \in Node
      BY <2>1 DEF Linked
    <3>2. /\ radix.tree[n].key \in Seq(Token) /\ radix.tree[n].value \in Seq(Page)
          /\ radix.tree[n].ref_count \in Nat /\ radix.tree[n].time \in Nat
      BY ONLY <3>1 DEF Node
    <3> QED
      BY <2>1, <3>2 DEF Linked, Nodes
  <2>3. \A c \in Client : handle[c] # NoHandle => handle[c].node \in DOMAIN radix.tree
    BY <2>1 DEF HandlesIn
  <2>4. /\ Root \in DOMAIN radix.tree
        /\ IsFiniteSet(DOMAIN radix.tree) /\ DOMAIN radix.tree \subseteq Nat
    BY <2>1 DEF Linked
  <2> QED
    BY ONLY <2>2, <2>3, <2>4, Zenon DEF TypeOK
<1> QED
  BY <1>1, Invariance, PTL

(* No reference count goes below zero, and eviction frees what it was asked for: *)
(* "assert node.ref_count >= 0" and "Cannot evict enough cache" never fail.       *)
THEOREM TreeAssertionsHold == Spec => []NoAssertionFails
<1>1. Inv => NoAssertionFails
  BY DEF Inv, NoAssertionFails
<1> QED
  BY <1>1, Invariance, PTL

(* A handle covers what it did when it was given, whatever is split above it. *)
THEOREM HandlesCover == Spec => []HandlesKeepTheirPrefix
<1>1. Inv => HandlesKeepTheirPrefix
  BY DEF Inv, RcInv, CacheInv, HandlesIn, HandlesKeepTheirPrefix
<1> QED
  BY <1>1, Invariance, PTL

(* Each node is referenced once by every handle at or below it. *)
THEOREM ReferencesCounted == Spec => []RefCountsExact
<1>1. Inv => RefCountsExact
  BY DEF Inv, RcInv, CacheInv, Counted, Holders, Nodes, RefCountsExact
<1> QED
  BY <1>1, Invariance, PTL

(* The two totals are what a recount of the tree would give. *)
THEOREM TotalsNeverDrift == Spec => []SizesExact
<1>1. Inv => SizesExact
  BY DEF Inv, RcInv, CacheInv, Sized, Free, Nodes, SizesExact
<1> QED
  BY <1>1, Invariance, PTL


-----------------------------------------------------------------------------
(* What a path holds *)

(* Agreeing is symmetric and transitive, and less is easier. *)
LEMMA Agreeing ==
    ASSUME NEW T, NEW s \in Seq(T), NEW t \in Seq(T), NEW n \in Nat
    PROVE  /\ Agree(s, t, n) => Agree(t, s, n)
           /\ \A u : Agree(s, t, n) /\ Agree(t, u, n) => Agree(s, u, n)
           /\ \A m \in Nat : m <= n /\ Agree(s, t, n) => Agree(s, t, m)
<1>1. Len(s) \in Nat /\ Len(t) \in Nat
  BY LenProperties
<1>2. Agree(s, t, n) => Agree(t, s, n)
  BY DEF Agree
<1>3. \A u : Agree(s, t, n) /\ Agree(t, u, n) => Agree(s, u, n)
  BY DEF Agree
<1>4. ASSUME NEW m \in Nat, m <= n, Agree(s, t, n) PROVE Agree(s, t, m)
  <2>1. m <= Len(s) /\ m <= Len(t)
    BY <1>1, <1>4 DEF Agree
  <2>2. \A i \in 1..m : i \in 1..n
    BY ONLY <1>4
  <2> QED
    BY <1>4, <2>1, <2>2 DEF Agree
<1> QED
  BY <1>2, <1>3, <1>4

(* t goes on where s ends. *)
Extends(s, t) == Agree(s, t, Len(s))

Joins(s, u, t) ==
    /\ Len(t) = Len(s) + Len(u) /\ Len(s) \in Nat /\ Len(u) \in Nat
    /\ Extends(s, t)
    /\ \A i \in 1..Len(u) : t[Len(s) + i] = u[i]

LEMMA ConcatExtends ==
    ASSUME NEW T, NEW s \in Seq(T), NEW u \in Seq(T), NEW t, t = s \o u
    PROVE  Joins(s, u, t)
<1> PICK a \in Nat : a = Len(s)
  BY LenProperties
<1> PICK b \in Nat : b = Len(u)
  BY LenProperties
<1>1. /\ t \in Seq(T) /\ Len(t) = a + b
      /\ \A i \in 1..(a + b) : t[i] = IF i <= a THEN s[i] ELSE u[i - a]
  <2>1. /\ s \o u \in Seq(T) /\ Len(s \o u) = Len(s) + Len(u)
        /\ \A i \in 1..(Len(s) + Len(u)) : (s \o u)[i] = IF i <= Len(s) THEN s[i] ELSE u[i - Len(s)]
    BY ConcatProperties
  <2> QED
    BY ONLY <2>1, t = s \o u, a = Len(s), b = Len(u), Zenon
<1>2. \A i \in 1..a : i \in 1..(a + b) /\ i <= a
  BY ONLY a \in Nat, b \in Nat
<1>4. \A i \in 1..a : s[i] = t[i]
  BY ONLY <1>1, <1>2, Zenon
<1>5. \A i \in 1..b : t[a + i] = u[i]
  <2> TAKE i \in 1..b
  <2> PICK j : j = a + i
    OBVIOUS
  <2>1. j \in 1..(a + b) /\ ~(j <= a) /\ j - a = i
    BY ONLY a \in Nat, b \in Nat, i \in 1..b, j = a + i
  <2>2. t[j] = IF j <= a THEN s[j] ELSE u[j - a]
    BY ONLY <1>1, <2>1, Zenon
  <2> QED
    BY ONLY <2>1, <2>2, j = a + i, Zenon
<1>6. a <= Len(t) /\ a <= Len(s)
  BY ONLY <1>1, a \in Nat, b \in Nat, a = Len(s)
<1>7. Extends(s, t)
  BY ONLY <1>4, <1>6, a = Len(s), Zenon DEF Extends, Agree
<1> QED
  BY ONLY <1>1, <1>5, <1>7, a \in Nat, b \in Nat, a = Len(s), b = Len(u), Zenon DEF Joins

(* What a node adds to its parent. *)
Adds(tree, n, p) ==
    /\ n \in DOMAIN tree /\ p \in DOMAIN tree /\ p = tree[n].parent
    /\ tree[n].key \in Seq(Token) /\ tree[n].value \in Seq(Page)
    /\ PathKey(tree, n) = PathKey(tree, p) \o tree[n].key
    /\ PathValue(tree, n) = PathValue(tree, p) \o tree[n].value
    /\ Extends(PathKey(tree, p), PathKey(tree, n))
    /\ Extends(PathValue(tree, p), PathValue(tree, n))
    /\ Len(PathKey(tree, n)) = Len(PathKey(tree, p)) + Len(tree[n].key)
    /\ Len(PathKey(tree, p)) \in Nat
    /\ Len(tree[n].key) \in Nat \ {0} /\ PageSize <= Len(tree[n].key)
    /\ \A i \in 1..Len(tree[n].key) :
          PathKey(tree, n)[Len(PathKey(tree, p)) + i] = tree[n].key[i]

LEMMA NodeAdds ==
    ASSUME NEW tree, IsTree(tree), NEW n \in Nodes(tree)
    PROVE  Adds(tree, n, tree[n].parent)
<1> PICK p : p = tree[n].parent
  OBVIOUS
<1>1. n \in DOMAIN tree /\ p \in DOMAIN tree /\ PathKey(tree, n) = PathKey(tree, p) \o tree[n].key
  BY TreeKeys
<1>2. PathValue(tree, n) = PathValue(tree, p) \o tree[n].value
  BY TreeValues
<1>3. PathKey(tree, p) \in Seq(Token) /\ PathValue(tree, p) \in Seq(Page)
  BY <1>1, TreeKeys, TreeValues
<1>4. /\ tree[n].key \in Seq(Token) /\ tree[n].value \in Seq(Page) /\ tree[n].key # <<>>
      /\ Len(tree[n].key) = PageSize * Len(tree[n].value)
  <2>1. tree[n] \in Node
    BY <1>1 DEF IsTree, Linked
  <2>2. tree[n].key \in Seq(Token) /\ tree[n].value \in Seq(Page)
    BY ONLY <2>1 DEF Node
  <2> QED
    BY <2>2 DEF IsTree, Linked
<1> PICK key, k, t : key = tree[n].key /\ k = PathKey(tree, p) /\ t = PathKey(tree, n)
  OBVIOUS
<1>5. /\ Len(t) = Len(k) + Len(key) /\ Len(k) \in Nat /\ Len(key) \in Nat
      /\ Extends(k, t) /\ \A i \in 1..Len(key) : t[Len(k) + i] = key[i]
  <2>1. key \in Seq(Token) /\ k \in Seq(Token) /\ t = k \o key
    BY ONLY <1>1, <1>3, <1>4, key = tree[n].key, k = PathKey(tree, p), t = PathKey(tree, n), Zenon
  <2>2. Joins(k, key, t)
    BY ONLY <2>1, ConcatExtends
  <2> QED
    BY ONLY <2>2, Zenon DEF Joins
<1>6. Extends(PathValue(tree, p), PathValue(tree, n))
  <2> PICK a, b, c : a = PathValue(tree, p) /\ b = tree[n].value /\ c = PathValue(tree, n)
    OBVIOUS
  <2>1. a \in Seq(Page) /\ b \in Seq(Page) /\ c = a \o b
    BY ONLY <1>2, <1>3, <1>4, a = PathValue(tree, p), b = tree[n].value, c = PathValue(tree, n), Zenon
  <2>2. Extends(a, c)
    BY ONLY <2>1, ConcatExtends DEF Joins
  <2> QED
    BY ONLY <2>2, a = PathValue(tree, p), c = PathValue(tree, n), Zenon
<1>7. Len(key) # 0 /\ PageSize <= Len(key)
  <2>1. Len(key) # 0
    BY <1>4, EmptySeq
  <2>2. Len(tree[n].value) \in Nat /\ Len(key) = PageSize * Len(tree[n].value)
    BY <1>4, LenProperties
  <2>3. \A v \in Nat : PageSize * v # 0 => PageSize <= PageSize * v
    BY ONLY PageSizeAssumption
  <2> QED
    BY ONLY <2>1, <2>2, <2>3, Zenon
<1>8. Len(key) \in Nat \ {0}
  BY ONLY <1>5, <1>7
<1> QED
  BY ONLY <1>1, <1>2, <1>4, <1>5, <1>6, <1>7, <1>8, p = tree[n].parent,
          key = tree[n].key, k = PathKey(tree, p), t = PathKey(tree, n), Zenon DEF Adds

(* A node extends all nodes on its path. *)
LEMMA PathExtends ==
    ASSUME NEW tree, IsTree(tree), NEW n \in DOMAIN tree, NEW a \in Path(tree, n)
    PROVE  /\ a \in Nodes(tree)
           /\ Extends(PathKey(tree, a), PathKey(tree, n))
           /\ Extends(PathValue(tree, a), PathValue(tree, n))
<1> DEFINE S == {k \in DOMAIN tree : \A b \in Path(tree, k) :
                    /\ Extends(PathKey(tree, b), PathKey(tree, k))
                    /\ Extends(PathValue(tree, b), PathValue(tree, k))}
<1>1. Root \in S
  BY TreeKeys, TreePaths
<1>2. \A k \in Nodes(tree) : tree[k].parent \in S => k \in S
  <2> SUFFICES ASSUME NEW k \in Nodes(tree), tree[k].parent \in S, NEW b \in Path(tree, k)
               PROVE  /\ Extends(PathKey(tree, b), PathKey(tree, k))
                      /\ Extends(PathValue(tree, b), PathValue(tree, k))
    BY TreeKeys
  <2> PICK p : p = tree[k].parent
    OBVIOUS
  <2>1. Path(tree, k) = {k} \cup Path(tree, p)
    BY TreePaths
  <2>2. b \in DOMAIN tree /\ k \in DOMAIN tree /\ p \in DOMAIN tree
    BY TreePaths, TreeKeys DEF Nodes
  <2>3. /\ PathKey(tree, b) \in Seq(Token) /\ PathKey(tree, p) \in Seq(Token) /\ PathKey(tree, k) \in Seq(Token)
        /\ PathValue(tree, b) \in Seq(Page) /\ PathValue(tree, p) \in Seq(Page) /\ PathValue(tree, k) \in Seq(Page)
    BY <2>2, TreeKeys, TreeValues
  <2>4. CASE b = k
    <3>1. \A s : s \in Seq(Token) \/ s \in Seq(Page) => Extends(s, s)
      BY LenProperties DEF Extends, Agree
    <3> QED
      BY ONLY <2>3, <2>4, <3>1, Zenon
  <2>5. CASE b \in Path(tree, p)
    <3>1. Extends(PathKey(tree, b), PathKey(tree, p)) /\ Extends(PathValue(tree, b), PathValue(tree, p))
      BY <2>5
    <3>2. Extends(PathKey(tree, p), PathKey(tree, k)) /\ Extends(PathValue(tree, p), PathValue(tree, k))
      BY NodeAdds DEF Adds
    <3>3. ASSUME NEW T, NEW s \in Seq(T), NEW t \in Seq(T), NEW u \in Seq(T), Extends(s, t), Extends(t, u)
          PROVE  Extends(s, u)
      <4>1. Len(s) \in Nat /\ Len(t) \in Nat /\ Len(s) <= Len(t)
        BY <3>3, LenProperties DEF Extends, Agree
      <4>2. Agree(t, u, Len(s))
        BY ONLY <4>1, Extends(t, u), t \in Seq(T), u \in Seq(T), Agreeing DEF Extends
      <4> QED
        BY ONLY <4>1, <4>2, Extends(s, t), t \in Seq(T), s \in Seq(T), Agreeing DEF Extends
    <3>4. Extends(PathKey(tree, b), PathKey(tree, k))
      BY ONLY <2>3, <3>1, <3>2, <3>3
    <3>5. Extends(PathValue(tree, b), PathValue(tree, k))
      BY ONLY <2>3, <3>1, <3>2, <3>3
    <3> QED
      BY <3>4, <3>5
  <2> QED
    BY <2>1, <2>4, <2>5
<1>3. DOMAIN tree \subseteq S
  <2> HIDE DEF S
  <2> QED
    BY <1>1, <1>2, OnTree
<1> QED
  BY <1>3, TreePaths

(* n is a or below it. *)
Below(tree, n, a) == a = Root \/ a \in Path(tree, n)

(* If it is not a itself, it is below a child of a. *)
LEMMA ChildAbove ==
    ASSUME NEW tree, IsTree(tree), NEW n \in DOMAIN tree, NEW a, Below(tree, n, a), n # a
    PROVE  \E m \in Children(tree, a) : m \in Path(tree, n)
<1> DEFINE S == {k \in DOMAIN tree : Below(tree, k, a) /\ k # a =>
                                        \E m \in Children(tree, a) : m \in Path(tree, k)}
<1>1. Root \in S
  BY TreeKeys, TreePaths DEF Below
<1>2. \A k \in Nodes(tree) : tree[k].parent \in S => k \in S
  <2> SUFFICES ASSUME NEW k \in Nodes(tree), tree[k].parent \in S, Below(tree, k, a), k # a
               PROVE  \E m \in Children(tree, a) : m \in Path(tree, k)
    BY TreeKeys
  <2> PICK p : p = tree[k].parent
    OBVIOUS
  <2>1. Path(tree, k) = {k} \cup Path(tree, p)
    BY TreePaths
  <2>2. CASE p = a
    <3>1. k \in Children(tree, a)
      BY <2>2 DEF Children, Nodes
    <3> QED
      BY <2>1, <3>1
  <2>3. CASE p # a
    <3>1. Below(tree, p, a)
      BY <2>1 DEF Below
    <3> QED
      BY <2>1, <2>3, <3>1
  <2> QED
    BY <2>2, <2>3
<1>3. DOMAIN tree \subseteq S
  <2> HIDE DEF S
  <2> QED
    BY <1>1, <1>2, OnTree
<1> QED
  BY <1>3

(* A path is a chain. *)
LEMMA PathIsChain ==
    ASSUME NEW tree, IsTree(tree), NEW n \in DOMAIN tree, NEW a \in Path(tree, n), NEW b \in Path(tree, n)
    PROVE  a \in Path(tree, b) \/ b \in Path(tree, a)
<1> DEFINE S == {k \in DOMAIN tree : \A c, d \in Path(tree, k) : c \in Path(tree, d) \/ d \in Path(tree, c)}
<1>1. Root \in S
  BY TreeKeys, TreePaths
<1>2. \A k \in Nodes(tree) : tree[k].parent \in S => k \in S
  <2> SUFFICES ASSUME NEW k \in Nodes(tree), tree[k].parent \in S,
                      NEW c \in Path(tree, k), NEW d \in Path(tree, k)
               PROVE  c \in Path(tree, d) \/ d \in Path(tree, c)
    BY TreeKeys
  <2>1. Path(tree, k) = {k} \cup Path(tree, tree[k].parent)
    BY TreePaths
  <2>2. CASE c = k \/ d = k
    BY <2>2
  <2>3. CASE c # k /\ d # k
    <3>1. c \in Path(tree, tree[k].parent) /\ d \in Path(tree, tree[k].parent)
      BY <2>1, <2>3
    <3> QED
      BY <3>1
  <2> QED
    BY <2>2, <2>3
<1>3. DOMAIN tree \subseteq S
  <2> HIDE DEF S
  <2> QED
    BY <1>1, <1>2, OnTree
<1> QED
  BY <1>3


-----------------------------------------------------------------------------
(* What a round of a walk does to the tree *)

(* It marks a child. *)
Descended(w, ids, tic, w2, m) ==
    /\ IsTree(w.tree) /\ IsTree(w2.tree) /\ StampedAt(w.tree, w2.tree, m, tic)
    /\ DOMAIN w2.tree = DOMAIN w.tree
    /\ \A k \in DOMAIN w.tree : /\ PathKey(w2.tree, k) = PathKey(w.tree, k)
                                /\ PathValue(w2.tree, k) = PathValue(w.tree, k)
                                /\ Path(w2.tree, k) = Path(w.tree, k)
    /\ m \in Children(w.tree, w.node) /\ m \in Nodes(w.tree) /\ w.tree[m].parent = w.node
    /\ w2.node = m /\ w2.done = FALSE
    /\ w2.prefix_len = w.prefix_len + Len(w.tree[m].key)
    /\ Agree(w.tree[m].key, Rest(w, ids), Len(w.tree[m].key))

LEMMA DescendedIs ==
    ASSUME NEW w, NEW ids \in Seq(Token), NEW tic \in Nat, NEW w2, NEW m, IsTree(w.tree),
           Descends(w, ids, tic, w2, m)
    PROVE  Descended(w, ids, tic, w2, m)
<1> PICK tree : tree = w.tree
  OBVIOUS
<1> PICK tree2 : tree2 = w2.tree
  OBVIOUS
<1>1. /\ m \in Children(tree, w.node) /\ m \in Nodes(tree) /\ m \in DOMAIN tree
      /\ tree[m].parent = w.node
      /\ Agree(tree[m].key, Rest(w, ids), Len(tree[m].key))
      /\ w2 = [tree |-> Stamped(tree, m, tic), node |-> m,
               prefix_len |-> w.prefix_len + Len(tree[m].key), done |-> FALSE]
  BY DEF Descends, Children, Nodes, Stamped
<1>2. /\ tree2 = Stamped(tree, m, tic) /\ w2.node = m
      /\ w2.prefix_len = w.prefix_len + Len(tree[m].key) /\ w2.done = FALSE
  BY ONLY <1>1, tree2 = w2.tree
<1>3. IsTree(tree) /\ Root \in DOMAIN tree /\ tree[Root].ref_count = 1
  BY DEF IsTree, Linked
<1>4. StampedAt(tree, tree2, m, tic)
  BY <1>1, <1>2, <1>3, StampedIs
<1>5. /\ SameShape(tree, tree2) /\ tree2 \in [DOMAIN tree2 -> Node]
      /\ \A n \in DOMAIN tree : tree2[n].ref_count = tree[n].ref_count
  BY ONLY <1>4, Zenon DEF StampedAt
<1>6. /\ IsTree(tree2) /\ DOMAIN tree2 = DOMAIN tree
      /\ \A n \in DOMAIN tree : /\ PathKey(tree2, n) = PathKey(tree, n)
                                /\ PathValue(tree2, n) = PathValue(tree, n)
                                /\ Path(tree2, n) = Path(tree, n)
  <2>1. tree2[Root].ref_count = 1
    BY ONLY <1>3, <1>5
  <2> QED
    BY ONLY <1>3, <1>5, <2>1, ShapeKept, Zenon DEF SameShape
<1> QED
  BY ONLY <1>1, <1>2, <1>3, <1>4, <1>6, tree = w.tree, tree2 = w2.tree, Zenon DEF Descended

(* Or puts a node between two, and marks it. *)
Cut(tree, tree2, n, new, pos, tic) ==
    /\ IsTree(tree) /\ IsTree(tree2)
    /\ new \in Nat \ DOMAIN tree /\ DOMAIN tree2 = DOMAIN tree \cup {new}
    /\ \A m \in DOMAIN tree :
          /\ PathKey(tree2, m) = PathKey(tree, m)
          /\ PathValue(tree2, m) = PathValue(tree, m)
          /\ Path(tree2, m) = Path(tree, m) \cup (IF n \in Path(tree, m) THEN {new} ELSE {})
    /\ Path(tree2, new) = {new} \cup Path(tree, tree[n].parent)
    /\ n \in Nodes(tree)
    /\ pos \in Nat \ {0} /\ pos < Len(tree[n].key) /\ (\E k \in Nat : pos = PageSize * k)
    /\ tree2[new].parent = tree[n].parent /\ tree2[n].parent = new
    /\ tree2[new].key = SubSeq(tree[n].key, 1, pos)
    /\ tree[n].key = tree2[new].key \o tree2[n].key
    /\ Len(tree2[n].key) = Len(tree[n].key) - pos
    /\ tree2[new].time = tic /\ tree2[n].time = tree[n].time
    /\ tree2[new].ref_count = tree[n].ref_count
    /\ \A m \in DOMAIN tree \ {n} : /\ tree2[m].parent = tree[m].parent
                                    /\ tree2[m].key = tree[m].key
                                    /\ tree2[m].time = tree[m].time

SplitOff(w, ids, tic, w2, n, pos) ==
    /\ Cut(w.tree, w2.tree, n, w2.node, pos, tic)
    /\ n \in Children(w.tree, w.node) /\ w.tree[n].parent = w.node
    /\ w2.prefix_len = w.prefix_len + pos /\ w2.done = TRUE
    /\ Agree(w.tree[n].key, Rest(w, ids), pos)
    /\ ~Agree(w.tree[n].key, Rest(w, ids), pos + PageSize)

LEMMA SplitOffIs ==
    ASSUME NEW w, NEW ids \in Seq(Token), NEW tic \in Nat, NEW w2, NEW n, NEW pos,
           IsTree(w.tree), Splits(w, ids, tic, w2, n, pos)
    PROVE  SplitOff(w, ids, tic, w2, n, pos)
<1> PICK tree : tree = w.tree
  OBVIOUS
<1> PICK tree2 : tree2 = w2.tree
  OBVIOUS
<1> PICK s : s = SplitAt(tree, n, pos)
  OBVIOUS
<1> PICK tree1 : tree1 = s.tree
  OBVIOUS
<1> PICK new : new = s.node
  OBVIOUS
<1>1. /\ n \in Children(tree, w.node) /\ n \in Nodes(tree) /\ n \in DOMAIN tree
      /\ tree[n].parent = w.node
      /\ pos \in Nat \ {0} /\ pos < Len(tree[n].key) /\ (\E k \in Nat : pos = PageSize * k)
      /\ Agree(tree[n].key, Rest(w, ids), pos)
      /\ ~Agree(tree[n].key, Rest(w, ids), pos + PageSize)
      /\ w2 = [tree |-> Stamped(tree1, new, tic), node |-> new,
               prefix_len |-> w.prefix_len + pos, done |-> TRUE]
  BY DEF Splits, Children, Nodes, Stamped
<1>2. /\ tree2 = Stamped(tree1, new, tic) /\ w2.node = new
      /\ w2.prefix_len = w.prefix_len + pos /\ w2.done = TRUE
  BY ONLY <1>1, tree2 = w2.tree
<1>3. IsTree(tree) /\ tree \in [DOMAIN tree -> Node]
  BY DEF IsTree, Linked
<1> PICK k \in Nat : pos = PageSize * k
  BY <1>1
<1>4. new \in Nat \ DOMAIN tree /\ IsSplit(tree, tree1, n, new, pos)
  BY <1>1, <1>3, SplitAtIs
<1>5. /\ IsTree(tree) /\ n \in Nodes(tree) /\ new \in Nat \ DOMAIN tree /\ k \in Nat
      /\ pos = PageSize * k /\ 0 < pos /\ pos < Len(tree[n].key)
      /\ IsSplit(tree, tree1, n, new, pos)
  BY <1>1, <1>3, <1>4
<1>6. SplitKeeps(tree, tree1, n, new) /\ Halves(tree, tree1, n, new, pos)
  BY ONLY <1>5, SplitTree, SplitFields
<1>7. IsTree(tree1) /\ new \in DOMAIN tree1 /\ DOMAIN tree1 = DOMAIN tree \cup {new}
      /\ Root \in DOMAIN tree1 /\ tree1[Root].ref_count = 1
  <2>1. IsTree(tree1)
    BY ONLY <1>6, Zenon DEF SplitKeeps
  <2>2. DOMAIN tree1 = DOMAIN tree \cup {new}
    BY ONLY <1>4 DEF IsSplit
  <2>3. Root \in DOMAIN tree1 /\ tree1[Root].ref_count = 1
    BY ONLY <2>1 DEF IsTree, Linked
  <2> QED
    BY ONLY <2>1, <2>2, <2>3
<1>8. StampedAt(tree1, tree2, new, tic)
  BY <1>2, <1>7, StampedIs
<1>9. /\ SameShape(tree1, tree2) /\ tree2 \in [DOMAIN tree2 -> Node]
      /\ \A m \in DOMAIN tree1 : tree2[m].ref_count = tree1[m].ref_count
      /\ \A m \in DOMAIN tree1 : tree2[m].time = IF m = new THEN tic ELSE tree1[m].time
  BY ONLY <1>8, Zenon DEF StampedAt
<1>10. /\ IsTree(tree2) /\ DOMAIN tree2 = DOMAIN tree1
       /\ \A m \in DOMAIN tree1 : /\ PathKey(tree2, m) = PathKey(tree1, m)
                                  /\ PathValue(tree2, m) = PathValue(tree1, m)
                                  /\ Path(tree2, m) = Path(tree1, m)
  <2>1. tree2[Root].ref_count = 1
    BY ONLY <1>7, <1>9
  <2> QED
    BY ONLY <1>7, <1>9, <2>1, ShapeKept, Zenon DEF SameShape
<1>11. \A m \in DOMAIN tree :
          /\ PathKey(tree2, m) = PathKey(tree, m)
          /\ PathValue(tree2, m) = PathValue(tree, m)
          /\ Path(tree2, m) = Path(tree, m) \cup (IF n \in Path(tree, m) THEN {new} ELSE {})
  <2> TAKE m \in DOMAIN tree
  <2>1. m \in DOMAIN tree1
    BY ONLY <1>7, m \in DOMAIN tree
  <2>2. /\ PathKey(tree1, m) = PathKey(tree, m) /\ PathValue(tree1, m) = PathValue(tree, m)
        /\ Path(tree1, m) = Path(tree, m) \cup (IF n \in Path(tree, m) THEN {new} ELSE {})
    BY ONLY <1>6, m \in DOMAIN tree, Zenon DEF SplitKeeps
  <2> QED
    BY ONLY <1>10, <2>1, <2>2, Zenon
<1>12. /\ tree2[new].parent = w.node /\ tree2[n].parent = new
       /\ tree2[new].key = SubSeq(tree[n].key, 1, pos)
       /\ tree[n].key = tree2[new].key \o tree2[n].key
       /\ Len(tree2[n].key) = Len(tree[n].key) - pos
       /\ tree2[new].ref_count = tree[n].ref_count
  BY ONLY <1>1, <1>6, <1>7, <1>9 DEF Halves, SameShape
<1>13. \A m \in DOMAIN tree \ {n} : /\ tree2[m].parent = tree[m].parent
                                    /\ tree2[m].key = tree[m].key
                                    /\ tree2[m].time = tree[m].time
  <2> TAKE m \in DOMAIN tree \ {n}
  <2>1. tree1[m] = tree[m] /\ m \in DOMAIN tree1 /\ m # new
    BY ONLY <1>4, <1>7, m \in DOMAIN tree \ {n} DEF IsSplit
  <2> QED
    BY ONLY <1>9, <2>1 DEF SameShape
<1>14. tree2[new].time = tic /\ tree2[n].time = tree[n].time
  <2>1. tree1[n].time = tree[n].time
    <3>1. tree1[n] = [TailOf(tree[n], pos) EXCEPT !.parent = new]
      BY ONLY <1>4 DEF IsSplit
    <3> PICK q \in Node : q = tree[n]
      BY <1>1, <1>3
    <3>2. q = [parent |-> q.parent, key |-> q.key, value |-> q.value,
               ref_count |-> q.ref_count, time |-> q.time]
      BY ONLY q \in Node DEF Node
    <3>3. tree1[n] = [[q EXCEPT !.key = SubSeq(@, pos + 1, Len(@)),
                               !.value = SubSeq(@, (pos \div PageSize) + 1, Len(@))] EXCEPT !.parent = new]
      BY ONLY <3>1, q = tree[n], Zenon DEF TailOf
    <3>4. tree1[n].time = q.time
      BY ONLY <3>2, <3>3
    <3> QED
      BY ONLY <3>4, q = tree[n], Zenon
  <2>2. n \in DOMAIN tree1 /\ n # new
    BY ONLY <1>1, <1>4, <1>7
  <2> QED
    BY ONLY <1>7, <1>9, <2>1, <2>2
<1>15. Path(tree2, new) = {new} \cup Path(tree, w.node)
  <2>1. new \in Nodes(tree2) /\ w.node \in DOMAIN tree
    <3>1. new # Root
      BY <1>3, <1>4 DEF IsTree, Linked
    <3> QED
      BY <1>1, <1>3, <1>7, <1>10, <3>1, TreeKeys DEF Nodes
  <2>2. Path(tree2, new) = {new} \cup Path(tree2, w.node)
    <3>1. Path(tree2, new) = {new} \cup Path(tree2, tree2[new].parent)
      BY ONLY <1>10, <2>1, TreePaths
    <3> QED
      BY ONLY <1>12, <3>1, Zenon
  <2>3. n \notin Path(tree, w.node)
    <3>1. ASSUME n \in Path(tree, w.node) PROVE FALSE
      <4>1. Extends(PathKey(tree, n), PathKey(tree, w.node))
        BY ONLY <1>3, <2>1, <3>1, PathExtends
      <4>2. Len(PathKey(tree, n)) <= Len(PathKey(tree, w.node))
        BY ONLY <4>1 DEF Extends, Agree
      <4>3. Adds(tree, n, w.node)
        BY ONLY <1>1, <1>3, NodeAdds
      <4> PICK a, b : a = Len(PathKey(tree, w.node)) /\ b = Len(tree[n].key)
        OBVIOUS
      <4>4. Len(PathKey(tree, n)) = a + b /\ a \in Nat /\ b \in Nat \ {0}
        BY ONLY <4>3, a = Len(PathKey(tree, w.node)) /\ b = Len(tree[n].key), Zenon DEF Adds
      <4> QED
        BY ONLY <4>2, <4>4, a = Len(PathKey(tree, w.node))
    <3> QED
      BY <3>1
  <2>4. Path(tree2, w.node) = Path(tree, w.node)
    BY ONLY <1>11, <2>1, <2>3
  <2> QED
    BY ONLY <2>2, <2>4, Zenon
<1>16. DOMAIN tree2 = DOMAIN tree \cup {new}
  BY ONLY <1>7, <1>10
<1>17. tree = w.tree /\ tree2 = w2.tree /\ IsTree(tree2)
  BY <1>10
<1>18. Path(tree2, new) = {new} \cup Path(tree, tree[n].parent) /\ tree2[new].parent = tree[n].parent
  BY ONLY <1>1, <1>12, <1>15, Zenon
<1>19. Cut(tree, tree2, n, new, pos, tic)
  BY ONLY <1>1, <1>3, <1>4, <1>11, <1>12, <1>13, <1>14, <1>16, <1>17, <1>18, Zenon DEF Cut
<1> QED
  BY ONLY <1>1, <1>2, <1>19, tree = w.tree, tree2 = w2.tree, Zenon DEF SplitOff



-----------------------------------------------------------------------------
(* The tree as a trie *)

(* The children of a node differ in their first page: it keys their dictionary. *)
Siblings(tree) ==
    \A n, m \in Nodes(tree) :
        tree[n].parent = tree[m].parent /\ Agree(tree[n].key, tree[m].key, PageSize) => n = m

(* Counts and time stamps aside. *)
LEMMA SiblingsShaped ==
    ASSUME NEW tree, Siblings(tree), NEW tree2, SameShape(tree, tree2)
    PROVE  Siblings(tree2)
<1> SUFFICES ASSUME NEW n \in Nodes(tree2), NEW m \in Nodes(tree2),
                    tree2[n].parent = tree2[m].parent,
                    Agree(tree2[n].key, tree2[m].key, PageSize)
             PROVE  n = m
  BY DEF Siblings
<1>1. /\ n \in Nodes(tree) /\ m \in Nodes(tree)
      /\ tree2[n].parent = tree[n].parent /\ tree2[m].parent = tree[m].parent
      /\ tree2[n].key = tree[n].key /\ tree2[m].key = tree[m].key
  BY DEF SameShape, Nodes
<1> QED
  BY ONLY <1>1, Siblings(tree), tree2[n].parent = tree2[m].parent,
          Agree(tree2[n].key, tree2[m].key, PageSize), Zenon DEF Siblings

(* A cut key is in its place, its tail alone below it. *)
LEMMA SiblingsCut ==
    ASSUME NEW tree, Siblings(tree), NEW tree2, NEW k, NEW new, NEW pos, NEW tic,
           Cut(tree, tree2, k, new, pos, tic)
    PROVE  Siblings(tree2)
<1> SUFFICES ASSUME NEW n \in Nodes(tree2), NEW m \in Nodes(tree2),
                    tree2[n].parent = tree2[m].parent,
                    Agree(tree2[n].key, tree2[m].key, PageSize), n # m
             PROVE  FALSE
  BY DEF Siblings
<1>1. /\ IsTree(tree) /\ new \notin DOMAIN tree /\ DOMAIN tree2 = DOMAIN tree \cup {new}
      /\ k \in Nodes(tree) /\ tree2[new].parent = tree[k].parent /\ tree2[k].parent = new
      /\ \A i \in DOMAIN tree \ {k} : tree2[i].parent = tree[i].parent /\ tree2[i].key = tree[i].key
  BY DEF Cut
<1>2. \A i \in Nodes(tree) : i \in DOMAIN tree /\ tree[i].parent \in DOMAIN tree
  BY <1>1, TreeKeys
<1>3. \A i \in Nodes(tree2) : i = new \/ (i \in Nodes(tree) /\ i # new)
  BY <1>1, <1>2 DEF Nodes
<1>4. \A s : Agree(tree2[new].key, s, PageSize) => Agree(tree[k].key, s, PageSize)
  <2>1. tree2[new].key = SubSeq(tree[k].key, 1, pos) /\ pos \in Nat \ {0} /\ pos < Len(tree[k].key)
    BY DEF Cut
  <2> PICK key : key = tree[k].key
    OBVIOUS
  <2>2. key \in Seq(Token) /\ pos <= Len(key)
    <3>1. Adds(tree, k, tree[k].parent)
      BY <1>1, NodeAdds
    <3>2. key \in Seq(Token) /\ Len(key) \in Nat
      BY ONLY <3>1, key = tree[k].key DEF Adds
    <3> QED
      BY <2>1, <3>2
  <2>3. Len(SubSeq(key, 1, pos)) = pos /\ \A i \in 1..pos : SubSeq(key, 1, pos)[i] = key[i]
    BY <2>1, <2>2, PrefixIs
  <2> TAKE s
  <2> HAVE Agree(tree2[new].key, s, PageSize)
  <2> PICK h : h = tree2[new].key
    OBVIOUS
  <2>4. Len(h) = pos /\ \A i \in 1..pos : h[i] = key[i]
    BY ONLY <2>1, <2>3, key = tree[k].key, h = tree2[new].key, Zenon
  <2>5. Agree(h, s, PageSize)
    BY ONLY Agree(tree2[new].key, s, PageSize), h = tree2[new].key, Zenon
  <2>6. Agree(key, s, PageSize)
    <3>1. \A i \in 1..PageSize : i \in 1..pos
      BY ONLY <2>4, <2>5, PageSizeAssumption, pos \in Nat \ {0}, <2>1 DEF Agree
    <3>2. PageSize <= Len(key)
      <4>1. Len(key) \in Nat
        BY ONLY <2>2, LenProperties
      <4> QED
        BY ONLY <2>2, <2>4, <2>5, <2>1, <4>1, PageSizeAssumption DEF Agree
    <3> QED
      BY ONLY <2>4, <2>5, <3>1, <3>2, Zenon DEF Agree
  <2> QED
    BY ONLY <2>6, key = tree[k].key, Zenon
<1>5. \A i \in Nodes(tree) : i # k /\ tree[i].parent = tree[k].parent =>
                              ~Agree(tree2[new].key, tree[i].key, PageSize)
  BY <1>1, <1>4 DEF Siblings
<1>6. \A i, j : ~(i = new /\ j \in Nodes(tree2) /\ j # new /\ tree2[i].parent = tree2[j].parent
                    /\ Agree(tree2[i].key, tree2[j].key, PageSize))
  <2> SUFFICES ASSUME NEW j \in Nodes(tree2), j # new, tree2[new].parent = tree2[j].parent,
                      Agree(tree2[new].key, tree2[j].key, PageSize)
               PROVE  FALSE
    OBVIOUS
  <2>1. j \in Nodes(tree)
    BY <1>3
  <2>2. j # k
    BY <1>1, <1>2
  <2> QED
    BY <1>1, <1>2, <1>5, <2>1, <2>2
<1>7. n # new /\ m # new
  <2>1. Agree(tree2[m].key, tree2[n].key, PageSize)
    BY DEF Agree
  <2> QED
    BY <1>6, <2>1
<1>8. n # k /\ m # k
  <2>1. \A i \in Nodes(tree) : i # k => tree2[i].parent # new
    BY <1>1, <1>2
  <2> QED
    BY <1>1, <1>3, <1>7, <2>1
<1>9. /\ n \in Nodes(tree) /\ m \in Nodes(tree) /\ tree[n].parent = tree[m].parent
      /\ tree2[n].key = tree[n].key /\ tree2[m].key = tree[m].key
  BY <1>1, <1>2, <1>3, <1>7, <1>8
<1> QED
  BY <1>9 DEF Siblings

(* A new leaf that no sibling agrees with. *)
LEMMA SiblingsGrown ==
    ASSUME NEW tree, IsTree(tree), Siblings(tree), NEW new \in Nat \ DOMAIN tree,
           NEW node, node.parent \in DOMAIN tree,
           \A m \in Children(tree, node.parent) : ~Agree(tree[m].key, node.key, PageSize),
           NEW tree2, tree2 = Grown(tree, new, node)
    PROVE  Siblings(tree2)
<1> SUFFICES ASSUME NEW n \in Nodes(tree2), NEW m \in Nodes(tree2),
                    tree2[n].parent = tree2[m].parent,
                    Agree(tree2[n].key, tree2[m].key, PageSize), n # m
             PROVE  FALSE
  BY DEF Siblings
<1>1. DOMAIN tree2 = DOMAIN tree \cup {new} /\ tree2[new] = node /\ \A i \in DOMAIN tree : tree2[i] = tree[i]
  BY DEF Grown
<1>2. \A i \in Nodes(tree2) : i = new \/ (i \in Nodes(tree) /\ i # new /\ tree2[i] = tree[i])
  BY <1>1 DEF Nodes
<1>3. \A i \in Nodes(tree) : tree[i].parent = node.parent => ~Agree(tree[i].key, node.key, PageSize)
  BY DEF Children, Nodes
<1>4. Agree(tree2[m].key, tree2[n].key, PageSize)
  BY DEF Agree
<1>5. CASE n = new
  BY <1>1, <1>2, <1>3, <1>4, <1>5
<1>6. CASE m = new
  BY <1>1, <1>2, <1>3, <1>4, <1>6
<1>7. CASE n # new /\ m # new
  BY <1>2, <1>7 DEF Siblings
<1> QED
  BY <1>5, <1>6, <1>7

(* A leaf that is gone. *)
LEMMA SiblingsShrunk ==
    ASSUME NEW tree, Siblings(tree), NEW n, NEW tree2, tree2 = [m \in DOMAIN tree \ {n} |-> tree[m]]
    PROVE  Siblings(tree2)
BY DEF Siblings, Nodes


(* The child on the way to a node holds the node's next page. *)
ChildOn(tree, n, p, m) ==
    /\ m \in Children(tree, p) /\ m \in Nodes(tree) /\ m \in Path(tree, n) /\ tree[m].parent = p
    /\ PageSize <= Len(tree[m].key)
    /\ \A i \in 1..PageSize : tree[m].key[i] = PathKey(tree, n)[Len(PathKey(tree, p)) + i]

LEMMA ChildFits ==
    ASSUME NEW tree, IsTree(tree), NEW n \in DOMAIN tree, NEW p, Below(tree, n, p), n # p
    PROVE  \E m : ChildOn(tree, n, p, m)
<1>1. PICK m \in Children(tree, p) : m \in Path(tree, n)
  BY ChildAbove
<1>2. m \in Nodes(tree) /\ tree[m].parent = p
  BY <1>1 DEF Children, Nodes
<1>3. Adds(tree, m, p)
  BY <1>2, NodeAdds
<1>4. Extends(PathKey(tree, m), PathKey(tree, n))
  BY <1>1, PathExtends
<1> PICK pk, mk, nk, key : /\ pk = PathKey(tree, p) /\ mk = PathKey(tree, m)
                           /\ nk = PathKey(tree, n) /\ key = tree[m].key
  OBVIOUS
<1> PICK a, b : a = Len(pk) /\ b = Len(key)
  OBVIOUS
<1>5. /\ a \in Nat /\ b \in Nat /\ PageSize <= b /\ Len(mk) = a + b
      /\ \A i \in 1..b : mk[a + i] = key[i]
  BY ONLY <1>3, pk = PathKey(tree, p), mk = PathKey(tree, m), key = tree[m].key,
          a = Len(pk), b = Len(key) DEF Adds
<1>6. \A i \in 1..(a + b) : mk[i] = nk[i]
  BY ONLY <1>4, <1>5, mk = PathKey(tree, m), nk = PathKey(tree, n) DEF Extends, Agree
<1>7. \A i \in 1..PageSize : key[i] = nk[a + i]
  <2> TAKE i \in 1..PageSize
  <2> PICK j : j = a + i
    OBVIOUS
  <2>1. i \in 1..b /\ j \in 1..(a + b)
    BY ONLY <1>5, PageSizeAssumption, i \in 1..PageSize, j = a + i
  <2>2. mk[a + i] = key[i] /\ mk[j] = nk[j]
    BY ONLY <1>5, <1>6, <2>1
  <2> QED
    BY ONLY <2>2, j = a + i
<1> QED
  BY ONLY <1>1, <1>2, <1>5, <1>7, pk = PathKey(tree, p), nk = PathKey(tree, n),
          key = tree[m].key, a = Len(pk), b = Len(key), Zenon DEF ChildOn

(* What begins with a node's parent and agrees in the next page goes through the node. *)
LEMMA OnPath ==
    ASSUME NEW tree, IsTree(tree), Siblings(tree), NEW n \in DOMAIN tree, NEW a \in Nodes(tree),
           Agree(PathKey(tree, n), PathKey(tree, a), Len(PathKey(tree, tree[a].parent)) + PageSize)
    PROVE  a \in Path(tree, n)
<1> DEFINE Begins(k) == \A m \in DOMAIN tree :
              Agree(PathKey(tree, m), PathKey(tree, k), Len(PathKey(tree, tree[k].parent)) + PageSize)
                  => k \in Path(tree, m)
           S == {k \in DOMAIN tree : k # Root => Begins(k)}
<1>1. Root \in S
  BY TreeKeys
<1>2. \A k \in Nodes(tree) : tree[k].parent \in S => k \in S
  <2> SUFFICES ASSUME NEW k \in Nodes(tree), tree[k].parent \in S, NEW m \in DOMAIN tree,
                      Agree(PathKey(tree, m), PathKey(tree, k),
                            Len(PathKey(tree, tree[k].parent)) + PageSize)
               PROVE  k \in Path(tree, m)
    BY TreeKeys
  <2> PICK p : p = tree[k].parent
    OBVIOUS
  <2> PICK mk, kk, pk : mk = PathKey(tree, m) /\ kk = PathKey(tree, k) /\ pk = PathKey(tree, p)
    OBVIOUS
  <2> PICK l : l = Len(pk)
    OBVIOUS
  <2> PICK key : key = tree[k].key
    OBVIOUS
  <2>1. Adds(tree, k, p) /\ p \in DOMAIN tree
    <3>1. Adds(tree, k, tree[k].parent)
      BY ONLY IsTree(tree), k \in Nodes(tree), NodeAdds
    <3>2. tree[k].parent \in DOMAIN tree
      BY TreeKeys
    <3> QED
      BY ONLY <3>1, <3>2, p = tree[k].parent, Zenon
  <2>2. /\ l \in Nat /\ Agree(pk, kk, l) /\ PageSize <= Len(key)
        /\ \A i \in 1..Len(key) : kk[l + i] = key[i]
        /\ Len(key) \in Nat
    BY ONLY <2>1, kk = PathKey(tree, k), pk = PathKey(tree, p), l = Len(pk), key = tree[k].key
       DEF Adds, Extends
  <2>3. Agree(mk, kk, l + PageSize)
    BY ONLY Agree(PathKey(tree, m), PathKey(tree, k), Len(PathKey(tree, tree[k].parent)) + PageSize),
            p = tree[k].parent, mk = PathKey(tree, m), kk = PathKey(tree, k), pk = PathKey(tree, p),
            l = Len(pk), Zenon
  <2>4. /\ mk \in Seq(Token) /\ kk \in Seq(Token) /\ pk \in Seq(Token)
    BY <2>1, TreeKeys
  <2>5. Len(mk) \in Nat /\ l + PageSize <= Len(mk)
    BY ONLY <2>3, <2>4, LenProperties DEF Agree
  <2>6. m # p
    BY ONLY <2>2, <2>5, mk = PathKey(tree, m), pk = PathKey(tree, p), l = Len(pk), PageSizeAssumption
  <2>7. Below(tree, m, p)
    <3>1. CASE p = Root
      BY <3>1 DEF Below
    <3>2. CASE p # Root
      <4>1. Adds(tree, p, tree[p].parent)
        BY <2>1, <3>2, NodeAdds DEF Nodes
      <4> PICK q : q = Len(PathKey(tree, tree[p].parent))
        OBVIOUS
      <4>2. q \in Nat /\ q + PageSize <= l
        <5>1. /\ l = q + Len(tree[p].key) /\ q \in Nat /\ PageSize <= Len(tree[p].key)
              /\ Len(tree[p].key) \in Nat
          <6>1. /\ Len(PathKey(tree, p)) = Len(PathKey(tree, tree[p].parent)) + Len(tree[p].key)
                /\ Len(PathKey(tree, tree[p].parent)) \in Nat
                /\ PageSize <= Len(tree[p].key) /\ Len(tree[p].key) \in Nat \ {0}
            BY ONLY <4>1, Zenon DEF Adds
          <6> QED
            BY ONLY <6>1, pk = PathKey(tree, p), l = Len(pk), q = Len(PathKey(tree, tree[p].parent))
        <5> QED
          BY ONLY <5>1, PageSizeAssumption
      <4>3. Agree(mk, kk, q + PageSize) /\ Agree(pk, kk, q + PageSize)
        <5> PICK j : j = q + PageSize
          OBVIOUS
        <5> PICK j2 : j2 = l + PageSize
          OBVIOUS
        <5>1. j \in Nat /\ j2 \in Nat /\ j <= l /\ j <= j2
          BY ONLY <2>2, <4>2, j = q + PageSize, j2 = l + PageSize, PageSizeAssumption
        <5>2. Agree(mk, kk, j2)
          BY ONLY <2>3, j2 = l + PageSize
        <5>3. Agree(mk, kk, j) /\ Agree(pk, kk, j)
          BY ONLY <2>2, <2>4, <5>1, <5>2, Agreeing
        <5> QED
          BY ONLY <5>3, j = q + PageSize
      <4>4. Agree(mk, pk, q + PageSize)
        BY ONLY <4>3 DEF Agree
      <4>5. Begins(p)
        BY ONLY <3>2, tree[k].parent \in S, p = tree[k].parent
      <4>6. p \in Path(tree, m)
        BY ONLY <4>4, <4>5, mk = PathKey(tree, m), pk = PathKey(tree, p),
                q = Len(PathKey(tree, tree[p].parent)), m \in DOMAIN tree, Zenon
      <4> QED
        BY <4>6 DEF Below
    <3> QED
      BY <3>1, <3>2
  <2>8. PICK c : ChildOn(tree, m, p, c)
    BY ONLY <2>6, <2>7, IsTree(tree), m \in DOMAIN tree, ChildFits
  <2> PICK ckey : ckey = tree[c].key
    OBVIOUS
  <2>9. PageSize <= Len(ckey) /\ \A i \in 1..PageSize : ckey[i] = mk[l + i]
    BY ONLY <2>8, mk = PathKey(tree, m), pk = PathKey(tree, p), l = Len(pk), ckey = tree[c].key,
            Zenon DEF ChildOn
  <2>10. \A i \in 1..PageSize : key[i] = ckey[i]
    <3> TAKE i \in 1..PageSize
    <3> PICK j : j = l + i
      OBVIOUS
    <3>1. j \in 1..(l + PageSize) /\ i \in 1..Len(key)
      BY ONLY <2>2, PageSizeAssumption, i \in 1..PageSize, j = l + i
    <3>2. mk[j] = kk[j] /\ kk[l + i] = key[i] /\ ckey[i] = mk[l + i]
      BY ONLY <2>2, <2>3, <2>9, <3>1, i \in 1..PageSize, Zenon DEF Agree
    <3> QED
      BY ONLY <3>2, j = l + i
  <2>11. Agree(key, ckey, PageSize)
    BY ONLY <2>2, <2>9, <2>10, Zenon DEF Agree
  <2>12. c \in Nodes(tree) /\ tree[c].parent = tree[k].parent /\ c \in Path(tree, m)
    BY ONLY <2>8, p = tree[k].parent DEF ChildOn
  <2>13. c = k
    BY ONLY <2>11, <2>12, Siblings(tree), k \in Nodes(tree), key = tree[k].key, ckey = tree[c].key,
            Zenon DEF Siblings
  <2> QED
    BY <2>12, <2>13
<1>3. DOMAIN tree \subseteq S
  <2> HIDE DEF S
  <2> QED
    BY <1>1, <1>2, OnTree
<1> QED
  BY <1>3 DEF Nodes


(* Whole pages are in the order of their number. *)
LEMMA Wholes ==
    ASSUME NEW a \in Nat, NEW b \in Nat
    PROVE  /\ PageSize * a <= PageSize * b <=> a <= b
           /\ PageSize * a \in Nat /\ PageSize * (a + 1) = PageSize * a + PageSize
           /\ (PageSize * a) \div PageSize = a
<1> PICK c : c = PageSize * b
  OBVIOUS
<1>1. c \in Nat /\ c \div PageSize = b
  BY PageArithmetic
<1>2. a <= c \div PageSize <=> PageSize * a <= c
  BY <1>1, PageArithmetic
<1>3. PageSize * a \in Nat /\ (PageSize * a) \div PageSize = a
  BY PageArithmetic
<1>4. PageSize * (a + 1) = PageSize * a + PageSize
  BY PageSizeAssumption
<1> QED
  BY ONLY <1>1, <1>2, <1>3, <1>4, c = PageSize * b

(* Nodes that stand for the same pages of tokens keep them in the same pages. *)
LEMMA PagesAgree ==
    ASSUME NEW tree, IsTree(tree), Siblings(tree), NEW n \in DOMAIN tree, NEW m \in DOMAIN tree,
           NEW k \in Nat \ {0}, Agree(PathKey(tree, n), PathKey(tree, m), PageSize * k)
    PROVE  PathValue(tree, n)[k] = PathValue(tree, m)[k]
<1> DEFINE Same(i) == \A j \in DOMAIN tree : \A l \in Nat \ {0} :
              Agree(PathKey(tree, i), PathKey(tree, j), PageSize * l)
                  => PathValue(tree, i)[l] = PathValue(tree, j)[l]
           S == {i \in DOMAIN tree : Same(i)}
<1>1. Root \in S
  <2>1. \A s : ~Agree(<<>>, s, PageSize) /\ \A l \in Nat \ {0} : ~Agree(<<>>, s, PageSize * l)
    <3>1. \A l \in Nat \ {0} : ~(PageSize * l <= 0)
      BY PageSizeAssumption
    <3> QED
      BY <3>1, PageSizeAssumption DEF Agree
  <2> QED
    BY <2>1, TreeKeys
<1>2. \A i \in Nodes(tree) : tree[i].parent \in S => i \in S
  <2> SUFFICES ASSUME NEW i \in Nodes(tree), tree[i].parent \in S, NEW j \in DOMAIN tree,
                      NEW l \in Nat \ {0}, Agree(PathKey(tree, i), PathKey(tree, j), PageSize * l)
               PROVE  PathValue(tree, i)[l] = PathValue(tree, j)[l]
    BY TreeKeys
  <2> PICK p : p = tree[i].parent
    OBVIOUS
  <2> PICK ik, jk, pk : ik = PathKey(tree, i) /\ jk = PathKey(tree, j) /\ pk = PathKey(tree, p)
    OBVIOUS
  <2> PICK iv, jv, pv : iv = PathValue(tree, i) /\ jv = PathValue(tree, j) /\ pv = PathValue(tree, p)
    OBVIOUS
  <2>1. Adds(tree, i, p)
    <3>1. Adds(tree, i, tree[i].parent)
      BY ONLY IsTree(tree), i \in Nodes(tree), NodeAdds
    <3> QED
      BY ONLY <3>1, p = tree[i].parent, Zenon
  <2>2. i \in DOMAIN tree /\ p \in DOMAIN tree /\ Extends(pk, ik) /\ Extends(pv, iv)
    BY ONLY <2>1, ik = PathKey(tree, i), pk = PathKey(tree, p),
            iv = PathValue(tree, i), pv = PathValue(tree, p) DEF Adds
  <2>3. /\ ik \in Seq(Token) /\ jk \in Seq(Token) /\ pk \in Seq(Token)
        /\ iv \in Seq(Page) /\ jv \in Seq(Page) /\ pv \in Seq(Page)
    BY <2>2, TreeKeys, TreeValues
  <2>4. Len(ik) = PageSize * Len(iv) /\ Len(pk) = PageSize * Len(pv)
    BY <2>2, PathLengths
  <2> PICK a \in Nat : a = Len(pv)
    BY <2>3, LenProperties
  <2> PICK b \in Nat : b = Len(iv)
    BY <2>3, LenProperties
  <2>5. Agree(ik, jk, PageSize * l)
    BY ONLY Agree(PathKey(tree, i), PathKey(tree, j), PageSize * l), ik = PathKey(tree, i), jk = PathKey(tree, j)
  <2>6. l <= b
    <3>1. PageSize * l <= PageSize * b
      BY ONLY <2>4, <2>5, b = Len(iv) DEF Agree
    <3> QED
      BY ONLY <3>1, l \in Nat \ {0}, b \in Nat, Wholes
  <2>7. CASE l <= a
    <3> PICK x \in Nat : x = PageSize * l
      BY Wholes
    <3> PICK y \in Nat : y = PageSize * a
      BY Wholes
    <3>1. x <= y /\ y = Len(pk)
      BY ONLY <2>4, <2>7, a = Len(pv), y = PageSize * a, x = PageSize * l, l \in Nat \ {0}, a \in Nat, Wholes
    <3>2. Agree(pk, ik, x)
      BY ONLY <2>2, <2>3, <3>1, x \in Nat, y \in Nat, Agreeing DEF Extends
    <3>3. Agree(pk, jk, PageSize * l)
      BY ONLY <2>3, <2>5, <3>2, x = PageSize * l, x \in Nat, Agreeing
    <3>4. Same(p)
      BY ONLY tree[i].parent \in S, p = tree[i].parent
    <3>5. pv[l] = jv[l]
      BY ONLY <3>3, <3>4, jk = PathKey(tree, j), pk = PathKey(tree, p), jv = PathValue(tree, j),
              pv = PathValue(tree, p), l \in Nat \ {0}, j \in DOMAIN tree, Zenon
    <3>6. pv[l] = iv[l]
      <4>1. l \in 1..Len(pv)
        BY ONLY <2>7, a = Len(pv), l \in Nat \ {0}, a \in Nat
      <4> QED
        BY ONLY <2>2, <4>1, Zenon DEF Extends, Agree
    <3> QED
      BY ONLY <3>5, <3>6, iv = PathValue(tree, i), jv = PathValue(tree, j)
  <2>8. CASE ~(l <= a)
    <3>1. PageSize * a + PageSize <= PageSize * l
      <4>1. a + 1 \in Nat /\ a + 1 <= l
        BY ONLY <2>8, a \in Nat, l \in Nat \ {0}
      <4>2. PageSize * (a + 1) <= PageSize * l
        BY ONLY <4>1, l \in Nat \ {0}, Wholes
      <4> QED
        BY ONLY <4>2, a \in Nat, Wholes
    <3> PICK x \in Nat : x = PageSize * l
      BY Wholes
    <3> PICK y \in Nat : y = PageSize * a + PageSize
      BY Wholes, PageSizeAssumption
    <3>2. Agree(jk, ik, y)
      BY ONLY <2>3, <2>5, <3>1, x = PageSize * l, x \in Nat, y = PageSize * a + PageSize, y \in Nat, Agreeing
    <3>3. y = Len(pk) + PageSize
      BY ONLY <2>4, a = Len(pv), y = PageSize * a + PageSize
    <3>4. Agree(PathKey(tree, j), PathKey(tree, i), Len(PathKey(tree, tree[i].parent)) + PageSize)
      BY ONLY <3>2, <3>3, p = tree[i].parent, ik = PathKey(tree, i), jk = PathKey(tree, j),
              pk = PathKey(tree, p), Zenon
    <3>5. i \in Path(tree, j)
      BY ONLY <3>4, IsTree(tree), Siblings(tree), j \in DOMAIN tree, i \in Nodes(tree), OnPath
    <3>6. Extends(iv, jv)
      BY <3>5, PathExtends
    <3>7. l \in 1..Len(iv)
      BY ONLY <2>6, b = Len(iv), b \in Nat, l \in Nat \ {0}
    <3>8. iv[l] = jv[l]
      BY ONLY <3>6, <3>7, Zenon DEF Extends, Agree
    <3> QED
      BY ONLY <3>8, iv = PathValue(tree, i), jv = PathValue(tree, j)
  <2> QED
    BY <2>7, <2>8
<1>3. DOMAIN tree \subseteq S
  <2> HIDE DEF S
  <2> QED
    BY <1>1, <1>2, OnTree
<1> QED
  BY <1>3

(* A prefix of whole pages. *)
IsPagePrefix(p, s, k) ==
    /\ k \in Nat \ {0} /\ p = SubSeq(s, 1, PageSize * k) /\ Len(p) = PageSize * k
    /\ Len(p) \div PageSize = k /\ Agree(p, s, PageSize * k) /\ k \in 1..(Len(s) \div PageSize)

LEMMA PagePrefixIs ==
    ASSUME NEW T, NEW s \in Seq(T), NEW p \in PagePrefixes(s)
    PROVE  p \in Seq(T) /\ \E k : IsPagePrefix(p, s, k)
<1>1. PICK k \in 1..(Len(s) \div PageSize) : p = SubSeq(s, 1, PageSize * k)
  BY DEF PagePrefixes
<1> PICK a \in Nat : a = Len(s)
  BY LenProperties
<1>2. a \div PageSize \in Nat
  BY PageArithmetic
<1>3. k \in Nat \ {0} /\ k <= a \div PageSize
  BY ONLY <1>1, <1>2, a = Len(s)
<1> PICK x \in Nat : x = PageSize * k
  BY <1>3, Wholes
<1>4. x <= a
  BY ONLY <1>3, x = PageSize * k, a \in Nat, PageArithmetic
<1>5. p \in Seq(T) /\ Len(p) = x /\ \A i \in 1..x : p[i] = s[i]
  BY ONLY <1>1, <1>4, x = PageSize * k, a = Len(s), x \in Nat, s \in Seq(T), PrefixIs
<1>6. Agree(p, s, x)
  BY ONLY <1>4, <1>5, a = Len(s), x \in Nat DEF Agree
<1>7. x \div PageSize = k
  BY ONLY <1>3, x = PageSize * k, Wholes
<1>8. IsPagePrefix(p, s, k)
  BY ONLY <1>1, <1>3, <1>5, <1>6, <1>7, x = PageSize * k, Zenon DEF IsPagePrefix
<1> QED
  BY <1>5, <1>8


LEMMA PagePrefixesExtend ==
    ASSUME NEW T, NEW s \in Seq(T), NEW t \in Seq(T), Extends(s, t)
    PROVE  PagePrefixes(s) \subseteq PagePrefixes(t)
<1> SUFFICES ASSUME NEW p \in PagePrefixes(s) PROVE p \in PagePrefixes(t)
  OBVIOUS
<1>1. p \in Seq(T)
  BY PagePrefixIs
<1>2. PICK k : IsPagePrefix(p, s, k)
  BY PagePrefixIs
<1> PICK a \in Nat : a = Len(s)
  BY LenProperties
<1> PICK b \in Nat : b = Len(t)
  BY LenProperties
<1>3. k \in Nat \ {0} /\ Len(p) = PageSize * k /\ Agree(p, s, PageSize * k)
  BY ONLY <1>2, Zenon DEF IsPagePrefix
<1> PICK x \in Nat : x = PageSize * k
  BY <1>3, Wholes
<1>4. x <= a /\ a <= b
  BY ONLY <1>3, x = PageSize * k, a = Len(s), b = Len(t), Extends(s, t) DEF Extends, Agree
<1>5. \A i \in 1..x : p[i] = s[i] /\ s[i] = t[i]
  <2>1. \A i \in 1..x : i \in 1..a
    BY ONLY <1>4, x \in Nat, a \in Nat
  <2> QED
    BY ONLY <1>3, <2>1, x = PageSize * k, a = Len(s), Extends(s, t), Zenon DEF Extends, Agree
<1>6. SubSeq(t, 1, x) \in Seq(T) /\ Len(SubSeq(t, 1, x)) = x /\ \A i \in 1..x : SubSeq(t, 1, x)[i] = t[i]
  BY ONLY <1>4, x \in Nat, a \in Nat, b \in Nat, b = Len(t), t \in Seq(T), PrefixIs
<1> PICK q : q = SubSeq(t, 1, x)
  OBVIOUS
<1>7. q \in Seq(T) /\ Len(q) = x /\ \A i \in 1..x : q[i] = p[i]
  BY ONLY <1>5, <1>6, q = SubSeq(t, 1, x), Zenon
<1>8. p = q
  BY ONLY <1>1, <1>3, <1>7, x = PageSize * k, SeqEqual
<1>9. k \in 1..(b \div PageSize)
  <2>1. k <= b \div PageSize <=> PageSize * k <= b
    BY ONLY <1>3, b \in Nat, PageArithmetic
  <2>2. b \div PageSize \in Nat
    BY PageArithmetic
  <2>3. x <= b
    BY ONLY <1>4, x \in Nat, a \in Nat, b \in Nat
  <2> QED
    BY ONLY <1>3, <2>1, <2>2, <2>3, x = PageSize * k
<1> QED
  BY ONLY <1>8, <1>9, q = SubSeq(t, 1, x), x = PageSize * k, b = Len(t), Zenon DEF PagePrefixes

(* The trie that a tree stands for. *)
Prefixes(tree) == UNION {PagePrefixes(PathKey(tree, n)) : n \in DOMAIN tree}

IsTrie(tree, t) ==
    /\ DOMAIN t = Prefixes(tree) /\ t = [p \in DOMAIN t |-> t[p]]
    /\ \A n \in DOMAIN tree : \A p \in PagePrefixes(PathKey(tree, n)) :
          t[p] = PathValue(tree, n)[Len(p) \div PageSize]

LEMMA TriePagesIs ==
    ASSUME NEW tree, IsTree(tree), Siblings(tree)
    PROVE  IsTrie(tree, TriePages(tree))
<1> DEFINE D == UNION {PagePrefixes(PathKey(tree, n)) : n \in DOMAIN tree}
           F(p) == LET n == CHOOSE n \in DOMAIN tree : p \in PagePrefixes(PathKey(tree, n))
                   IN  PathValue(tree, n)[Len(p) \div PageSize]
<1> PICK t : t = TriePages(tree)
  OBVIOUS
<1>1. t = [p \in D |-> F(p)]
  BY ONLY t = TriePages(tree), Zenon DEF TriePages
<1>2. ASSUME NEW n \in DOMAIN tree, NEW p \in PagePrefixes(PathKey(tree, n))
      PROVE  t[p] = PathValue(tree, n)[Len(p) \div PageSize]
  <2> PICK m : m = CHOOSE i \in DOMAIN tree : p \in PagePrefixes(PathKey(tree, i))
    OBVIOUS
  <2>1. m \in DOMAIN tree /\ p \in PagePrefixes(PathKey(tree, m))
    BY <1>2
  <2>2. p \in D
    BY <1>2
  <2>3. t[p] = F(p)
    <3> HIDE DEF D, F
    <3> QED
      BY ONLY <1>1, <2>2
  <2>4. F(p) = PathValue(tree, m)[Len(p) \div PageSize]
    BY ONLY m = CHOOSE i \in DOMAIN tree : p \in PagePrefixes(PathKey(tree, i)), Zenon
  <2> PICK nk, mk : nk = PathKey(tree, n) /\ mk = PathKey(tree, m)
    OBVIOUS
  <2>5. nk \in Seq(Token) /\ mk \in Seq(Token)
    BY <1>2, <2>1, TreeKeys
  <2>6. PICK k : IsPagePrefix(p, nk, k)
    BY ONLY <1>2, <2>5, nk = PathKey(tree, n), PagePrefixIs
  <2>7. PICK l : IsPagePrefix(p, mk, l)
    BY ONLY <2>1, <2>5, mk = PathKey(tree, m), PagePrefixIs
  <2>8. /\ k \in Nat \ {0} /\ k = Len(p) \div PageSize /\ l = k
        /\ Agree(p, nk, PageSize * k) /\ Agree(p, mk, PageSize * k)
    BY ONLY <2>6, <2>7, Zenon DEF IsPagePrefix
  <2>9. Agree(nk, mk, PageSize * k)
    BY ONLY <2>8 DEF Agree
  <2>10. PathValue(tree, n)[k] = PathValue(tree, m)[k]
    BY ONLY <1>2, <2>1, <2>8, <2>9, nk = PathKey(tree, n), mk = PathKey(tree, m),
            IsTree(tree), Siblings(tree), PagesAgree
  <2> QED
    BY ONLY <2>3, <2>4, <2>8, <2>10, Zenon
<1>3. DOMAIN t = Prefixes(tree) /\ t = [p \in DOMAIN t |-> t[p]]
  <2> HIDE DEF F
  <2> QED
    BY ONLY <1>1 DEF Prefixes
<1>4. IsTrie(tree, t)
  BY ONLY <1>2, <1>3, Zenon DEF IsTrie
<1> QED
  BY ONLY <1>4, t = TriePages(tree), Zenon

(* A tree with all that another holds has its trie, *)
LEMMA SubTrie ==
    ASSUME NEW tree, IsTree(tree), Siblings(tree), NEW tree2, IsTree(tree2), Siblings(tree2),
           Keeps(tree, tree2)
    PROVE  /\ IsTrie(tree, TriePages(tree)) /\ IsTrie(tree2, TriePages(tree2))
           /\ Prefixes(tree) \subseteq Prefixes(tree2)
           /\ \A p \in Prefixes(tree) : TriePages(tree2)[p] = TriePages(tree)[p]
<1> PICK t, t2 : t = TriePages(tree) /\ t2 = TriePages(tree2)
  OBVIOUS
<1>1. IsTrie(tree, t) /\ IsTrie(tree2, t2)
  BY TriePagesIs
<1>2. Prefixes(tree) \subseteq Prefixes(tree2)
  BY DEF Prefixes, Keeps
<1>3. ASSUME NEW p \in Prefixes(tree) PROVE t2[p] = t[p]
  <2>1. PICK n \in DOMAIN tree : p \in PagePrefixes(PathKey(tree, n))
    BY DEF Prefixes
  <2>2. n \in DOMAIN tree2 /\ PathKey(tree2, n) = PathKey(tree, n) /\ PathValue(tree2, n) = PathValue(tree, n)
    BY DEF Keeps
  <2>3. p \in PagePrefixes(PathKey(tree2, n))
    BY ONLY <2>1, <2>2, Zenon
  <2>4. /\ t[p] = PathValue(tree, n)[Len(p) \div PageSize]
        /\ t2[p] = PathValue(tree2, n)[Len(p) \div PageSize]
    BY ONLY <1>1, <2>1, <2>2, <2>3, Zenon DEF IsTrie
  <2> QED
    BY ONLY <2>2, <2>4, Zenon
<1> QED
  BY <1>1, <1>2, <1>3

(* and no more than it when no path of its own goes on where the other's end. *)
Prefixed(tree2, tree) ==
    \A m \in DOMAIN tree2 : \E n \in DOMAIN tree : Extends(PathKey(tree2, m), PathKey(tree, n))

LEMMA SameTrie ==
    ASSUME NEW tree, IsTree(tree), Siblings(tree), NEW tree2, IsTree(tree2), Siblings(tree2),
           Keeps(tree, tree2), Prefixed(tree2, tree)
    PROVE  TriePages(tree2) = TriePages(tree)
<1> PICK t, t2 : t = TriePages(tree) /\ t2 = TriePages(tree2)
  OBVIOUS
<1>1. /\ IsTrie(tree, t) /\ IsTrie(tree2, t2) /\ Prefixes(tree) \subseteq Prefixes(tree2)
      /\ \A p \in Prefixes(tree) : t2[p] = t[p]
  BY SubTrie
<1>2. Prefixes(tree2) \subseteq Prefixes(tree)
  <2> SUFFICES ASSUME NEW m \in DOMAIN tree2, NEW p \in PagePrefixes(PathKey(tree2, m))
               PROVE  p \in Prefixes(tree)
    BY DEF Prefixes
  <2>1. PICK n \in DOMAIN tree : Extends(PathKey(tree2, m), PathKey(tree, n))
    BY DEF Prefixed
  <2> PICK mk, nk : mk = PathKey(tree2, m) /\ nk = PathKey(tree, n)
    OBVIOUS
  <2>2. mk \in Seq(Token) /\ nk \in Seq(Token) /\ Extends(mk, nk)
    BY <2>1, TreeKeys
  <2>3. PagePrefixes(mk) \subseteq PagePrefixes(nk)
    BY ONLY <2>2, PagePrefixesExtend
  <2> QED
    BY <2>3 DEF Prefixes
<1>3. t2 = t
  <2>1. DOMAIN t2 = DOMAIN t /\ \A p \in DOMAIN t : t2[p] = t[p]
    BY ONLY <1>1, <1>2 DEF IsTrie
  <2>2. t = [p \in DOMAIN t |-> t[p]] /\ t2 = [p \in DOMAIN t2 |-> t2[p]]
    BY ONLY <1>1 DEF IsTrie
  <2> QED
    BY ONLY <2>1, <2>2
<1> QED
  BY <1>3

(* Counts and time stamps are not in it. *)
LEMMA ShapeTrie ==
    ASSUME NEW tree, IsTree(tree), Siblings(tree), NEW tree2, IsTree(tree2), SameShape(tree, tree2)
    PROVE  /\ Siblings(tree2) /\ TriePages(tree2) = TriePages(tree)
           /\ DOMAIN tree2 = DOMAIN tree
           /\ \A n \in DOMAIN tree : PathKey(tree2, n) = PathKey(tree, n)
<1>1. Siblings(tree2)
  BY SiblingsShaped
<1>2. DOMAIN tree2 = DOMAIN tree
  BY DEF SameShape
<1>3. \A n \in DOMAIN tree : PathKey(tree2, n) = PathKey(tree, n) /\ PathValue(tree2, n) = PathValue(tree, n)
  <2>1. tree2 \in [DOMAIN tree2 -> Node] /\ tree2[Root].ref_count = 1
    BY DEF IsTree, Linked
  <2> QED
    BY <2>1, ShapeKept
<1>4. Keeps(tree, tree2)
  BY <1>2, <1>3 DEF Keeps
<1>5. Prefixed(tree2, tree)
  <2>1. \A n \in DOMAIN tree : PathKey(tree, n) \in Seq(Token)
    BY TreeKeys
  <2>2. \A s \in Seq(Token) : Extends(s, s)
    BY LenProperties DEF Extends, Agree
  <2> QED
    BY <1>2, <1>3, <2>1, <2>2 DEF Prefixed
<1>6. TriePages(tree2) = TriePages(tree)
  BY <1>1, <1>4, <1>5, SameTrie
<1> QED
  BY <1>1, <1>2, <1>3, <1>6


-----------------------------------------------------------------------------
(* What a walk finds *)

(* A walk that has returned for good is at a node no child of which holds the next page. *)
Ended(w, ids) ==
    w.done => \A m \in Children(w.tree, w.node) : ~Agree(w.tree[m].key, Rest(w, ids), PageSize)

Searching(w, tree, ids) ==
    Siblings(w.tree) /\ Ended(w, ids) /\ Prefixed(w.tree, tree)

LEMMA DescendSearches ==
    ASSUME NEW w, NEW tree, NEW ids, Searching(w, tree, ids), NEW tic, NEW w2, NEW m,
           Descended(w, ids, tic, w2, m)
    PROVE  Searching(w2, tree, ids)
<1>1. Siblings(w2.tree)
  <2>1. SameShape(w.tree, w2.tree)
    BY DEF Descended, StampedAt
  <2> QED
    BY <2>1, SiblingsShaped DEF Searching
<1>2. Ended(w2, ids)
  BY DEF Descended, Ended
<1>3. Prefixed(w2.tree, tree)
  <2>1. /\ DOMAIN w2.tree = DOMAIN w.tree
        /\ \A k \in DOMAIN w.tree : PathKey(w2.tree, k) = PathKey(w.tree, k)
    BY DEF Descended
  <2> QED
    BY ONLY <2>1, Searching(w, tree, ids), Zenon DEF Searching, Prefixed
<1> QED
  BY <1>1, <1>2, <1>3 DEF Searching

LEMMA SplitSearches ==
    ASSUME NEW w, NEW tree, NEW ids \in Seq(Token), Searching(w, tree, ids), NEW tic, NEW w2,
           NEW n, NEW pos, SplitOff(w, ids, tic, w2, n, pos), Arrived(w, ids), Arrived(w2, ids)
    PROVE  Searching(w2, tree, ids)
<1> PICK tree1, tree2, new : tree1 = w.tree /\ tree2 = w2.tree /\ new = w2.node
  OBVIOUS
<1>1. Cut(tree1, tree2, n, new, pos, tic)
  BY DEF SplitOff
<1>2. Siblings(tree2)
  <2>1. Siblings(tree1)
    BY DEF Searching
  <2> QED
    BY ONLY <1>1, <2>1, SiblingsCut
<1>3. /\ IsTree(tree1) /\ IsTree(tree2) /\ new \in Nat \ DOMAIN tree1
      /\ DOMAIN tree2 = DOMAIN tree1 \cup {new}
      /\ n \in Nodes(tree1) /\ tree2[new].parent = tree1[n].parent /\ tree2[n].parent = new
      /\ \A i \in DOMAIN tree1 \ {n} : tree2[i].parent = tree1[i].parent
      /\ tree1[n].key = tree2[new].key \o tree2[n].key /\ pos \in Nat \ {0}
  BY ONLY <1>1, Zenon DEF Cut
<1>4. ASSUME NEW m \in Children(tree2, new) PROVE m = n
  <2>1. m \in DOMAIN tree2 /\ m # Root /\ tree2[m].parent = new
    BY DEF Children
  <2>2. \A i \in Nodes(tree1) : i \in DOMAIN tree1 /\ tree1[i].parent \in DOMAIN tree1
    BY <1>3, TreeKeys
  <2> QED
    BY <1>3, <2>1, <2>2 DEF Nodes
<1>5. ~Agree(tree2[n].key, Rest(w2, ids), PageSize)
  <2> SUFFICES ASSUME Agree(tree2[n].key, Rest(w2, ids), PageSize) PROVE FALSE
    OBVIOUS
  <2> PICK key, front, back : key = tree1[n].key /\ front = tree2[new].key /\ back = tree2[n].key
    OBVIOUS
  <2> PICK rest, rest2 : rest = Rest(w, ids) /\ rest2 = Rest(w2, ids)
    OBVIOUS
  <2> PICK pl : pl = w.prefix_len
    OBVIOUS
  <2>0. pos \in Nat \ {0}
    BY ONLY <1>3
  <2>1. /\ w2.prefix_len = pl + pos /\ Agree(key, rest, pos) /\ ~Agree(key, rest, pos + PageSize)
    BY DEF SplitOff
  <2>2. Len(front) = pos
    <3>1. pos \in Nat \ {0} /\ pos < Len(key) /\ front = SubSeq(key, 1, pos)
      <4>1. /\ pos \in Nat \ {0} /\ pos < Len(tree1[n].key)
            /\ tree2[new].key = SubSeq(tree1[n].key, 1, pos)
        BY ONLY <1>1, Zenon DEF Cut
      <4> QED
        BY ONLY <4>1, key = tree1[n].key, front = tree2[new].key, Zenon
    <3>2. Adds(tree1, n, tree1[n].parent)
      BY ONLY <1>3, NodeAdds
    <3>3. key \in Seq(Token) /\ Len(key) \in Nat
      BY ONLY <3>2, key = tree1[n].key DEF Adds
    <3>4. pos <= Len(key)
      BY ONLY <3>1, <3>3
    <3> QED
      BY ONLY <3>1, <3>3, <3>4, PrefixIs
  <2>3. front \in Seq(Token) /\ back \in Seq(Token)
    <3>1. new \in Nodes(tree2) /\ n \in Nodes(tree2)
      <4>1. Root \in DOMAIN tree1
        BY ONLY <1>3 DEF IsTree, Linked
      <4> QED
        BY ONLY <1>3, <4>1 DEF Nodes
    <3>2. Adds(tree2, new, tree2[new].parent) /\ Adds(tree2, n, tree2[n].parent)
      BY ONLY <1>3, <3>1, NodeAdds
    <3>3. tree2[new].key \in Seq(Token) /\ tree2[n].key \in Seq(Token)
      BY ONLY <3>2, Zenon DEF Adds
    <3> QED
      BY ONLY <3>3, front = tree2[new].key, back = tree2[n].key, Zenon
  <2>4. Joins(front, back, key)
    <3>1. key = front \o back
      <4>1. tree1[n].key = tree2[new].key \o tree2[n].key
        BY ONLY <1>3, Zenon
      <4> QED
        BY ONLY <4>1, key = tree1[n].key, front = tree2[new].key, back = tree2[n].key, Zenon
    <3> QED
      BY ONLY <2>3, <3>1, ConcatExtends, Zenon
  <2>5. /\ Len(key) = pos + Len(back) /\ Len(back) \in Nat
        /\ \A i \in 1..Len(back) : key[pos + i] = back[i]
    BY ONLY <2>2, <2>4 DEF Joins
  <2>6. /\ Agree(back, rest2, PageSize)
    BY ONLY Agree(tree2[n].key, Rest(w2, ids), PageSize), back = tree2[n].key, rest2 = Rest(w2, ids), Zenon
  <2>7. pl \in Nat /\ pl + pos \in Nat /\ pl + pos <= Len(ids) /\ pl <= Len(ids)
    BY <2>1 DEF Arrived
  <2> PICK t, u : t = pl + pos /\ u = Len(ids)
    OBVIOUS
  <2>8. /\ Len(rest) = u - pl /\ \A i \in 1..(u - pl) : rest[i] = ids[pl + i]
    <3>1. rest = SubSeq(ids, pl + 1, Len(ids))
      BY ONLY rest = Rest(w, ids), pl = w.prefix_len DEF Rest
    <3> QED
      BY ONLY <2>7, <3>1, u = Len(ids), ids \in Seq(Token), RestIs
  <2>9. /\ Len(rest2) = u - t /\ \A i \in 1..(u - t) : rest2[i] = ids[t + i]
    <3>1. rest2 = SubSeq(ids, t + 1, Len(ids))
      BY ONLY <2>1, rest2 = Rest(w2, ids), t = pl + pos, Zenon DEF Rest
    <3> QED
      BY ONLY <2>7, <3>1, t = pl + pos, u = Len(ids), ids \in Seq(Token), RestIs
  <2> PICK l \in Nat : l = Len(back)
    BY <2>5
  <2>10. u \in Nat
    BY LenProperties
  <2>11. PageSize <= l /\ PageSize <= u - t /\ \A i \in 1..PageSize : back[i] = rest2[i]
    BY ONLY <2>6, <2>9, l = Len(back) DEF Agree
  <2>12. \A i \in 1..(pos + PageSize) : key[i] = rest[i]
    <3> TAKE i \in 1..(pos + PageSize)
    <3>1. CASE i <= pos
      <4>1. i \in 1..pos
        BY ONLY <2>0, <3>1, PageSizeAssumption, i \in 1..(pos + PageSize)
      <4> QED
        BY ONLY <2>1, <4>1 DEF Agree
    <3>2. CASE ~(i <= pos)
      <4> PICK j : j = i - pos
        OBVIOUS
      <4>1. j \in 1..PageSize /\ i = pos + j
        BY ONLY <2>0, <3>2, PageSizeAssumption, i \in 1..(pos + PageSize), j = i - pos
      <4>2. j \in 1..l /\ j \in 1..(u - t) /\ i \in 1..(u - pl)
        BY ONLY <2>0, <2>7, <2>10, <2>11, <4>1, t = pl + pos, l \in Nat, PageSizeAssumption
      <4>3. t + j = pl + i
        BY ONLY <2>0, <2>7, <4>1, t = pl + pos, PageSizeAssumption
      <4>4. key[i] = back[j] /\ back[j] = rest2[j]
        BY ONLY <2>5, <2>11, <4>1, <4>2, l = Len(back)
      <4>5. rest2[j] = ids[t + j] /\ rest[i] = ids[pl + i]
        BY ONLY <2>8, <2>9, <4>2
      <4> QED
        BY ONLY <4>3, <4>4, <4>5, Zenon
    <3> QED
      BY <3>1, <3>2
  <2>13. pos + PageSize <= Len(key) /\ pos + PageSize <= Len(rest)
    BY ONLY <2>0, <2>5, <2>7, <2>8, <2>10, <2>11, t = pl + pos, l \in Nat, l = Len(back), PageSizeAssumption
  <2> QED
    BY ONLY <2>1, <2>12, <2>13, Zenon DEF Agree
<1>6. Ended(w2, ids)
  BY ONLY <1>4, <1>5, tree2 = w2.tree, new = w2.node DEF Ended
<1>7. Prefixed(tree2, tree)
  <2>1. Prefixed(tree1, tree) /\ \A m \in DOMAIN tree1 : PathKey(tree2, m) = PathKey(tree1, m)
    BY <1>1 DEF Searching, Cut
  <2>2. \A m \in DOMAIN tree1 : \E k \in DOMAIN tree : Extends(PathKey(tree2, m), PathKey(tree, k))
    BY ONLY <2>1, Zenon DEF Prefixed
  <2>3. Extends(PathKey(tree2, new), PathKey(tree2, n))
    <3>1. n \in Nodes(tree2)
      BY ONLY <1>3 DEF Nodes
    <3>2. Adds(tree2, n, tree2[n].parent)
      BY ONLY <1>3, <3>1, NodeAdds
    <3>3. Adds(tree2, n, new)
      BY ONLY <1>3, <3>2, Zenon
    <3> QED
      BY ONLY <3>3, Zenon DEF Adds
  <2>4. PICK k \in DOMAIN tree : Extends(PathKey(tree2, n), PathKey(tree, k))
    BY <1>3, <2>2 DEF Nodes
  <2>5. Extends(PathKey(tree2, new), PathKey(tree, k))
    <3> PICK a, b, c : a = PathKey(tree2, new) /\ b = PathKey(tree2, n) /\ c = PathKey(tree, k)
      OBVIOUS
    <3>1. a \in Seq(Token) /\ b \in Seq(Token)
      <4>1. new \in DOMAIN tree2 /\ n \in DOMAIN tree2
        BY ONLY <1>3 DEF Nodes
      <4> QED
        BY <1>3, <4>1, TreeKeys
    <3>2. Extends(a, b) /\ Extends(b, c)
      BY ONLY <2>3, <2>4, a = PathKey(tree2, new), b = PathKey(tree2, n), c = PathKey(tree, k), Zenon
    <3>3. Len(a) \in Nat /\ Len(b) \in Nat
      BY ONLY <3>1, LenProperties
    <3>4. Extends(a, c)
      BY ONLY <3>2, <3>3 DEF Extends, Agree
    <3> QED
      BY ONLY <3>4, a = PathKey(tree2, new), c = PathKey(tree, k), Zenon
  <2> QED
    BY <1>3, <2>2, <2>5 DEF Prefixed
<1> QED
  BY <1>2, <1>6, <1>7 DEF Searching


(* So it is after any number of rounds. *)
LEMMA WalkSearches ==
    ASSUME NEW tree, NEW ids \in Seq(Token), NEW ev, NEW pr, NEW hd, CacheInv(tree, ev, pr, hd),
           Siblings(tree), NEW w, w = TreeWalk(tree, ids)
    PROVE  Searching(w, tree, ids)
<1>1. PICK f, N : N \in Nat /\ N = Len(ids) /\ Rounds(f, N, tree, ids, ev, pr, hd)
  BY WalkRounds
<1> DEFINE S == {k \in 0..N : Searching(f[k], tree, ids)}
<1>2. /\ TreeWalk(tree, ids) = f[N] /\ f[0] = AtRoot(tree)
      /\ \A k \in 1..N : f[k] = WalkStep(f[k - 1], ids, Now(tree))
      /\ \A k \in 0..N : Walking(f[k], tree, ids, k, ev, pr, hd)
  BY ONLY <1>1, Zenon DEF Rounds
<1>3. 0 \in S
  <2>1. f[0].tree = tree /\ f[0].done = FALSE
    BY <1>2 DEF AtRoot
  <2>2. Prefixed(tree, tree)
    <3>1. IsTree(tree)
      BY DEF CacheInv
    <3>2. \A n \in DOMAIN tree : PathKey(tree, n) \in Seq(Token)
      BY <3>1, TreeKeys
    <3>3. \A s \in Seq(Token) : Extends(s, s)
      BY LenProperties DEF Extends, Agree
    <3> QED
      BY <3>2, <3>3 DEF Prefixed
  <2>3. Searching(f[0], tree, ids)
    BY <2>1, <2>2 DEF Searching, Ended
  <2> QED
    BY <1>1, <2>3
<1>4. ASSUME NEW k \in 1..N, k - 1 \in S PROVE k \in S
  <2> PICK v : v = f[k - 1]
    OBVIOUS
  <2> PICK v2 : v2 = f[k]
    OBVIOUS
  <2>1. k \in 0..N /\ k - 1 \in 0..N
    BY <1>1
  <2>2. Searching(v, tree, ids)
    BY <1>4
  <2>3. CacheInv(v.tree, ev, pr, hd) /\ Arrived(v, ids) /\ Arrived(v2, ids)
    BY <1>2, <2>1 DEF Walking
  <2>4. IsTree(v.tree) /\ Now(tree) \in Nat
    BY <2>3, NowIsLater DEF CacheInv
  <2>5. v2 = WalkStep(v, ids, Now(tree))
    BY <1>2
  <2> PICK tic : tic = Now(tree)
    OBVIOUS
  <2>6. \/ Stuck(v, ids) /\ v2 = v
        \/ ~Stuck(v, ids) /\ \E m : Descends(v, ids, tic, v2, m)
        \/ ~Stuck(v, ids) /\ \E m, pos : Splits(v, ids, tic, v2, m, pos)
    BY ONLY <2>3, <2>4, <2>5, tic = Now(tree), ids \in Seq(Token), WalkStepIs
  <2>7. CASE v2 = v
    BY <2>1, <2>2, <2>7
  <2>8. ASSUME NEW m, Descends(v, ids, tic, v2, m) PROVE Searching(v2, tree, ids)
    <3>1. Descended(v, ids, tic, v2, m)
      BY ONLY <2>4, <2>8, tic = Now(tree), ids \in Seq(Token), DescendedIs
    <3> QED
      BY ONLY <2>2, <3>1, DescendSearches
  <2>9. ASSUME NEW m, NEW pos, Splits(v, ids, tic, v2, m, pos) PROVE Searching(v2, tree, ids)
    <3>1. SplitOff(v, ids, tic, v2, m, pos)
      BY ONLY <2>4, <2>9, tic = Now(tree), ids \in Seq(Token), SplitOffIs
    <3> QED
      BY ONLY <2>2, <2>3, <3>1, ids \in Seq(Token), SplitSearches
  <2> QED
    BY <2>1, <2>6, <2>7, <2>8, <2>9
<1>5. \A k \in 0..N : k \in S
  <2> HIDE DEF S
  <2> QED
    BY <1>1, <1>3, <1>4, UpTo
<1> QED
  BY <1>1, <1>2, <1>5

(* Where it ends no child holds the next page, *)
LEMMA NoChildFits ==
    ASSUME NEW w, NEW ids \in Seq(Token), IsTree(w.tree), Arrived(w, ids), Stuck(w, ids), Ended(w, ids)
    PROVE  \A m \in Children(w.tree, w.node) : ~Agree(w.tree[m].key, Rest(w, ids), PageSize)
<1> SUFFICES ASSUME NEW m \in Children(w.tree, w.node),
                    Agree(w.tree[m].key, Rest(w, ids), PageSize)
             PROVE  FALSE
  OBVIOUS
<1> PICK key, rest : key = w.tree[m].key /\ rest = Rest(w, ids)
  OBVIOUS
<1>1. ~w.done
  BY DEF Ended
<1>2. w.prefix_len \in Nat /\ w.prefix_len <= Len(ids) /\ Len(ids) \in Nat
  BY LenProperties DEF Arrived
<1>3. rest \in Seq(Token) /\ Len(rest) = Len(ids) - w.prefix_len
  BY ONLY <1>2, rest = Rest(w, ids), ids \in Seq(Token), RestIs DEF Rest
<1>4. key \in Seq(Token) /\ PageSize <= Len(key)
  <2>1. m \in Nodes(w.tree)
    BY DEF Children, Nodes
  <2>2. Adds(w.tree, m, w.tree[m].parent)
    BY <2>1, NodeAdds
  <2> QED
    BY ONLY <2>2, key = w.tree[m].key, Zenon DEF Adds
<1>5. Agree(key, rest, PageSize)
  OBVIOUS
<1>6. ~(w.prefix_len >= Len(ids))
  BY ONLY <1>2, <1>3, <1>5, PageSizeAssumption DEF Agree
<1>7. FirstPage(key) = FirstPage(rest)
  BY ONLY <1>3, <1>4, <1>5, SameFirstPage
<1>8. m \in NextKids(w, ids)
  BY ONLY <1>7, m \in Children(w.tree, w.node), key = w.tree[m].key, rest = Rest(w, ids), Zenon DEF NextKids
<1> QED
  BY ONLY <1>1, <1>6, <1>8, Stuck(w, ids), Zenon DEF Stuck

(* and no node of the tree agrees with the input any further. *)
LEMMA NoneLonger ==
    ASSUME NEW w, NEW ids \in Seq(Token), IsTree(w.tree), Siblings(w.tree), Arrived(w, ids),
           Stuck(w, ids), Ended(w, ids), NEW n \in DOMAIN w.tree
    PROVE  ~Agree(PathKey(w.tree, n), ids, w.prefix_len + PageSize)
<1> SUFFICES ASSUME Agree(PathKey(w.tree, n), ids, w.prefix_len + PageSize)
             PROVE  FALSE
  OBVIOUS
<1> PICK tree : tree = w.tree
  OBVIOUS
<1> PICK a : a = w.node
  OBVIOUS
<1> PICK pl \in Nat : pl = w.prefix_len
  BY DEF Arrived
<1> PICK nk, ak : nk = PathKey(tree, n) /\ ak = PathKey(tree, a)
  OBVIOUS
<1> PICK u \in Nat : u = Len(ids)
  BY LenProperties
<1>1. /\ a \in DOMAIN tree /\ pl <= u /\ ak = SubSeq(ids, 1, pl) /\ n \in DOMAIN tree
      /\ IsTree(tree) /\ Siblings(tree)
  BY DEF Arrived
<1>2. nk \in Seq(Token) /\ ak \in Seq(Token)
  BY <1>1, TreeKeys
<1>3. Len(ak) = pl /\ Agree(ak, ids, pl)
  <2>1. Len(ak) = pl /\ \A i \in 1..pl : ak[i] = ids[i]
    BY ONLY <1>1, u = Len(ids), u \in Nat, pl \in Nat, ids \in Seq(Token), PrefixIs
  <2> QED
    BY ONLY <1>1, <2>1, u = Len(ids), u \in Nat, pl \in Nat DEF Agree
<1> PICK x \in Nat : x = pl + PageSize
  BY PageSizeAssumption
<1>4. Agree(nk, ids, x) /\ pl <= x
  BY ONLY Agree(PathKey(w.tree, n), ids, w.prefix_len + PageSize), tree = w.tree, pl = w.prefix_len,
          nk = PathKey(tree, n), x = pl + PageSize, pl \in Nat, PageSizeAssumption
<1>5. Agree(nk, ids, pl)
  BY ONLY <1>2, <1>4, pl \in Nat, x \in Nat, ids \in Seq(Token), Agreeing
<1>6. Agree(nk, ak, pl)
  BY ONLY <1>3, <1>5 DEF Agree
<1>7. n # a
  <2>1. x <= Len(nk)
    BY ONLY <1>4 DEF Agree
  <2> QED
    BY ONLY <1>3, <2>1, x = pl + PageSize, pl \in Nat, nk = PathKey(tree, n), ak = PathKey(tree, a),
            PageSizeAssumption
<1>8. Below(tree, n, a)
  <2>1. CASE a # Root
    <3>1. a \in Nodes(tree)
      BY ONLY <1>1, <2>1 DEF Nodes
    <3> PICK p : p = tree[a].parent
      OBVIOUS
    <3> PICK q : q = Len(PathKey(tree, p))
      OBVIOUS
    <3>2. Adds(tree, a, tree[a].parent)
      BY ONLY <1>1, <3>1, NodeAdds
    <3>3. /\ Len(PathKey(tree, a)) = Len(PathKey(tree, tree[a].parent)) + Len(tree[a].key)
          /\ Len(PathKey(tree, tree[a].parent)) \in Nat
          /\ PageSize <= Len(tree[a].key) /\ Len(tree[a].key) \in Nat \ {0}
      BY ONLY <3>2, Zenon DEF Adds
    <3>4. q + PageSize <= pl /\ q \in Nat
      <4> PICK l : l = Len(tree[a].key)
        OBVIOUS
      <4>1. Len(ak) = q + l /\ q \in Nat /\ PageSize <= l /\ l \in Nat
        BY ONLY <3>3, p = tree[a].parent, q = Len(PathKey(tree, p)), ak = PathKey(tree, a),
                l = Len(tree[a].key)
      <4> QED
        BY ONLY <1>3, <4>1, pl \in Nat, PageSizeAssumption
    <3> PICK y \in Nat : y = q + PageSize
      BY <3>4, PageSizeAssumption
    <3>5. Agree(nk, ak, y)
      BY ONLY <1>2, <1>6, <3>4, y = q + PageSize, y \in Nat, pl \in Nat, Agreeing
    <3>6. Agree(PathKey(tree, n), PathKey(tree, a), Len(PathKey(tree, tree[a].parent)) + PageSize)
      BY ONLY <3>5, y = q + PageSize, p = tree[a].parent, q = Len(PathKey(tree, p)),
              nk = PathKey(tree, n), ak = PathKey(tree, a), Zenon
    <3>7. a \in Path(tree, n)
      BY ONLY <1>1, <3>1, <3>6, OnPath
    <3> QED
      BY ONLY <3>7 DEF Below
  <2> QED
    BY <2>1 DEF Below
<1>9. PICK m : ChildOn(tree, n, a, m)
  BY ONLY <1>1, <1>7, <1>8, ChildFits
<1> PICK key, rest : key = tree[m].key /\ rest = Rest(w, ids)
  OBVIOUS
<1>10. /\ m \in Children(tree, a) /\ PageSize <= Len(key)
       /\ \A i \in 1..PageSize : key[i] = nk[pl + i]
  BY ONLY <1>3, <1>9, key = tree[m].key, nk = PathKey(tree, n), ak = PathKey(tree, a) DEF ChildOn
<1>11. Len(rest) = u - pl /\ \A i \in 1..(u - pl) : rest[i] = ids[pl + i]
  BY ONLY <1>1, rest = Rest(w, ids), pl = w.prefix_len, u = Len(ids), pl \in Nat, ids \in Seq(Token),
          RestIs DEF Rest
<1>12. PageSize <= u - pl
  BY ONLY <1>4, x = pl + PageSize, u = Len(ids), u \in Nat, pl \in Nat, PageSizeAssumption DEF Agree
<1>13. \A i \in 1..PageSize : key[i] = rest[i]
  <2> TAKE i \in 1..PageSize
  <2> PICK j : j = pl + i
    OBVIOUS
  <2>1. j \in 1..x /\ i \in 1..(u - pl)
    BY ONLY <1>12, i \in 1..PageSize, j = pl + i, x = pl + PageSize, pl \in Nat, u \in Nat, PageSizeAssumption
  <2>2. nk[j] = ids[j] /\ rest[i] = ids[pl + i] /\ key[i] = nk[pl + i]
    BY ONLY <1>4, <1>10, <1>11, <2>1, i \in 1..PageSize, Zenon DEF Agree
  <2> QED
    BY ONLY <2>2, j = pl + i, Zenon
<1>14. Agree(key, rest, PageSize)
  BY ONLY <1>10, <1>11, <1>12, <1>13 DEF Agree
<1>15. \A k \in Children(w.tree, w.node) : ~Agree(w.tree[k].key, Rest(w, ids), PageSize)
  BY NoChildFits
<1> QED
  BY ONLY <1>10, <1>14, <1>15, key = tree[m].key, rest = Rest(w, ids), tree = w.tree, a = w.node, Zenon


(* What a walk is for: it has found the longest prefix of whole pages that the tree *)
(* holds, and the tree holds the same as before.                                    *)
LEMMA WalkFinds ==
    ASSUME NEW tree, NEW ids \in Seq(Token), NEW ev, NEW pr, NEW hd, CacheInv(tree, ev, pr, hd),
           Siblings(tree), NEW w, w = TreeWalk(tree, ids)
    PROVE  /\ Siblings(w.tree) /\ TriePages(w.tree) = TriePages(tree)
           /\ Prefixes(w.tree) = Prefixes(tree)
           /\ IsMatch(Prefixes(tree), ids, PathKey(w.tree, w.node))
           /\ \A m \in Children(w.tree, w.node) : ~Agree(w.tree[m].key, Rest(w, ids), PageSize)
<1>1. /\ CacheInv(w.tree, ev, pr, hd) /\ Arrived(w, ids) /\ Keeps(tree, w.tree) /\ Stuck(w, ids)
  BY WalkKeeps
<1>2. IsTree(tree) /\ IsTree(w.tree)
  BY <1>1 DEF CacheInv
<1>3. Siblings(w.tree) /\ Ended(w, ids) /\ Prefixed(w.tree, tree)
  BY WalkSearches DEF Searching
<1>4. TriePages(w.tree) = TriePages(tree)
  BY <1>1, <1>2, <1>3, SameTrie
<1>5. Prefixes(w.tree) = Prefixes(tree)
  <2>1. IsTrie(tree, TriePages(tree)) /\ IsTrie(w.tree, TriePages(w.tree))
    BY <1>2, <1>3, TriePagesIs
  <2> QED
    BY ONLY <1>4, <2>1, Zenon DEF IsTrie
<1>6. \A m \in Children(w.tree, w.node) : ~Agree(w.tree[m].key, Rest(w, ids), PageSize)
  BY <1>1, <1>2, <1>3, NoChildFits
<1> PICK h : h = PathKey(w.tree, w.node)
  OBVIOUS
<1> PICK pl \in Nat : pl = w.prefix_len
  BY <1>1 DEF Arrived
<1> PICK u \in Nat : u = Len(ids)
  BY LenProperties
<1>7. /\ w.node \in DOMAIN w.tree /\ pl <= u /\ h = SubSeq(ids, 1, pl) /\ h \in Seq(Token)
  BY <1>1, <1>2, TreeKeys DEF Arrived
<1>8. Len(h) = pl
  BY ONLY <1>7, u = Len(ids), ids \in Seq(Token), pl \in Nat, PrefixIs
<1>9. PICK k \in Nat : pl = PageSize * k
  <2>1. Len(h) = PageSize * Len(PathValue(w.tree, w.node))
    BY <1>2, <1>7, PathLengths
  <2>2. Len(PathValue(w.tree, w.node)) \in Nat
    BY <1>2, <1>7, TreeValues, LenProperties
  <2> QED
    BY ONLY <1>8, <2>1, <2>2
<1>10. h \in PagePrefixes(ids) \cap Prefixes(tree) \/ h = <<>>
  <2>1. CASE k = 0
    <3>1. Len(h) = 0
      BY ONLY <1>8, <1>9, <2>1, PageSizeAssumption
    <3> QED
      BY ONLY <1>7, <3>1, EmptySeq
  <2>2. CASE k # 0
    <3>1. k <= u \div PageSize /\ u \div PageSize \in Nat
      <4>1. PageSize * k <= u
        BY ONLY <1>7, <1>9
      <4> QED
        BY ONLY <4>1, k \in Nat, u \in Nat, PageArithmetic
    <3>2. k \in 1..(u \div PageSize)
      BY ONLY <2>2, <3>1, k \in Nat
    <3>3. h \in PagePrefixes(ids)
      BY ONLY <1>7, <1>9, <3>2, u = Len(ids), Zenon DEF PagePrefixes
    <3>4. h \in PagePrefixes(h)
      <4>1. k \in 1..(Len(h) \div PageSize)
        <5>1. (PageSize * k) \div PageSize = k
          BY PageArithmetic
        <5> QED
          BY ONLY <1>8, <1>9, <2>2, <5>1, k \in Nat
      <4>2. h = SubSeq(h, 1, Len(h))
        BY ONLY <1>7, SubSeqFull
      <4> QED
        BY ONLY <1>8, <1>9, <4>1, <4>2, Zenon DEF PagePrefixes
    <3>5. h \in Prefixes(w.tree)
      BY ONLY <1>7, <3>4, h = PathKey(w.tree, w.node) DEF Prefixes
    <3> QED
      BY ONLY <1>5, <3>3, <3>5
  <2> QED
    BY <2>1, <2>2
<1>11. ASSUME NEW q \in PagePrefixes(ids) \cap Prefixes(tree) PROVE Len(q) <= Len(h)
  <2>1. PICK n \in DOMAIN w.tree : q \in PagePrefixes(PathKey(w.tree, n))
    BY <1>5 DEF Prefixes
  <2> PICK nk : nk = PathKey(w.tree, n)
    OBVIOUS
  <2>2. nk \in Seq(Token)
    BY <1>2, TreeKeys
  <2>3. PICK i : IsPagePrefix(q, nk, i)
    BY ONLY <2>1, <2>2, nk = PathKey(w.tree, n), PagePrefixIs
  <2>4. PICK j : IsPagePrefix(q, ids, j)
    BY ONLY <1>11, ids \in Seq(Token), PagePrefixIs
  <2>5. /\ j \in Nat \ {0} /\ Len(q) = PageSize * j /\ j = i
        /\ Agree(q, nk, PageSize * j) /\ Agree(q, ids, PageSize * j)
    BY ONLY <2>3, <2>4, Zenon DEF IsPagePrefix
  <2>6. Agree(nk, ids, PageSize * j)
    BY ONLY <2>5 DEF Agree
  <2>7. j <= k
    <3> SUFFICES ASSUME ~(j <= k) PROVE FALSE
      OBVIOUS
    <3>1. k + 1 \in Nat /\ k + 1 <= j
      BY ONLY ~(j <= k), <2>5, k \in Nat
    <3> PICK x \in Nat : x = PageSize * (k + 1)
      BY <3>1, Wholes
    <3> PICK y \in Nat : y = PageSize * j
      BY <2>5, Wholes
    <3>2. x <= y
      BY ONLY <2>5, <3>1, x = PageSize * (k + 1), y = PageSize * j, Wholes
    <3>3. Agree(nk, ids, x)
      BY ONLY <2>2, <2>6, <3>2, y = PageSize * j, x \in Nat, y \in Nat, ids \in Seq(Token), Agreeing
    <3>4. x = w.prefix_len + PageSize
      <4>1. x = PageSize * k + PageSize
        BY ONLY x = PageSize * (k + 1), k \in Nat, Wholes
      <4> QED
        BY ONLY <1>9, <4>1, pl = w.prefix_len, Zenon
    <3>5. ~Agree(PathKey(w.tree, n), ids, w.prefix_len + PageSize)
      BY ONLY <1>1, <1>2, <1>3, ids \in Seq(Token), n \in DOMAIN w.tree, NoneLonger
    <3> QED
      BY ONLY <3>3, <3>4, <3>5, nk = PathKey(w.tree, n), Zenon
  <2> QED
    BY ONLY <1>8, <1>9, <2>5, <2>7, k \in Nat, Wholes
<1>12. IsMatch(Prefixes(tree), ids, h)
  BY ONLY <1>10, <1>11, Zenon DEF IsMatch
<1> QED
  BY ONLY <1>3, <1>4, <1>5, <1>6, <1>12, h = PathKey(w.tree, w.node), Zenon



-----------------------------------------------------------------------------
(* What each operation does to the trie *)

(* The page of a prefix is in use. *)
LEMMA PagesUsed ==
    ASSUME NEW tree, IsTree(tree), NEW n \in DOMAIN tree, NEW k \in 1..Len(PathValue(tree, n))
    PROVE  PathValue(tree, n)[k] \in PagesInUse(tree) /\ PathValue(tree, n)[k] \in Page
<1> DEFINE S == {i \in DOMAIN tree : \A j \in 1..Len(PathValue(tree, i)) :
                    PathValue(tree, i)[j] \in PagesInUse(tree)}
<1>1. Root \in S
  <2>1. Len(PathValue(tree, Root)) = 0
    BY TreeValues, EmptySeq
  <2>2. 1..Len(PathValue(tree, Root)) = {}
    BY ONLY <2>1
  <2> QED
    BY <2>2, TreeKeys
<1>2. \A i \in Nodes(tree) : tree[i].parent \in S => i \in S
  <2> SUFFICES ASSUME NEW i \in Nodes(tree), tree[i].parent \in S,
                      NEW j \in 1..Len(PathValue(tree, i))
               PROVE  PathValue(tree, i)[j] \in PagesInUse(tree)
    BY TreeKeys
  <2> PICK iv, pv, v : /\ iv = PathValue(tree, i) /\ pv = PathValue(tree, tree[i].parent)
                       /\ v = tree[i].value
    OBVIOUS
  <2>1. Adds(tree, i, tree[i].parent)
    BY ONLY IsTree(tree), i \in Nodes(tree), NodeAdds
  <2>2. v \in Seq(Page) /\ iv = pv \o v /\ i \in DOMAIN tree /\ tree[i].parent \in DOMAIN tree
    BY ONLY <2>1, iv = PathValue(tree, i), pv = PathValue(tree, tree[i].parent), v = tree[i].value,
            Zenon DEF Adds
  <2>3. pv \in Seq(Page)
    BY <2>2, TreeValues
  <2> PICK a \in Nat : a = Len(pv)
    BY <2>3, LenProperties
  <2> PICK b \in Nat : b = Len(v)
    BY <2>2, LenProperties
  <2>4. Joins(pv, v, iv)
    BY ONLY <2>2, <2>3, ConcatExtends
  <2>5. /\ Len(iv) = a + b /\ \A l \in 1..a : pv[l] = iv[l]
        /\ \A l \in 1..b : iv[a + l] = v[l]
    BY ONLY <2>4, a = Len(pv), b = Len(v) DEF Joins, Extends, Agree
  <2>6. j \in 1..(a + b)
    BY ONLY <2>5, j \in 1..Len(PathValue(tree, i)), iv = PathValue(tree, i)
  <2>7. CASE j <= a
    <3>1. j \in 1..Len(PathValue(tree, tree[i].parent))
      BY ONLY <2>6, <2>7, a = Len(pv), pv = PathValue(tree, tree[i].parent), a \in Nat, b \in Nat
    <3>2. pv[j] \in PagesInUse(tree)
      BY ONLY <3>1, tree[i].parent \in S, pv = PathValue(tree, tree[i].parent)
    <3>3. pv[j] = iv[j]
      BY ONLY <2>5, <3>1, a = Len(pv), pv = PathValue(tree, tree[i].parent), Zenon
    <3> QED
      BY ONLY <3>2, <3>3, iv = PathValue(tree, i), Zenon
  <2>8. CASE ~(j <= a)
    <3> PICK l : l = j - a
      OBVIOUS
    <3>1. l \in 1..b /\ j = a + l
      BY ONLY <2>6, <2>8, l = j - a, a \in Nat, b \in Nat
    <3>2. iv[j] = v[l]
      BY ONLY <2>5, <3>1
    <3>3. l \in DOMAIN v
      BY ONLY <2>2, <3>1, b = Len(v), LenProperties
    <3>4. v[l] \in PagesInUse(tree)
      BY ONLY <2>2, <3>3, v = tree[i].value DEF PagesInUse
    <3> QED
      BY ONLY <3>2, <3>4, iv = PathValue(tree, i), Zenon
  <2> QED
    BY <2>7, <2>8
<1>3. DOMAIN tree \subseteq S
  <2> HIDE DEF S
  <2> QED
    BY <1>1, <1>2, OnTree
<1>4. PathValue(tree, n)[k] \in Page
  <2> PICK s : s = PathValue(tree, n)
    OBVIOUS
  <2>1. s \in Seq(Page)
    BY TreeValues
  <2>2. k \in 1..Len(s)
    BY ONLY k \in 1..Len(PathValue(tree, n)), s = PathValue(tree, n)
  <2>3. s[k] \in Page
    BY ONLY <2>1, <2>2, ElementOfSeq
  <2> QED
    BY ONLY <2>3, s = PathValue(tree, n), Zenon
<1> QED
  BY <1>3, <1>4

(* A trie's pages are those of its tree. *)
LEMMA TriePagesUsed ==
    ASSUME NEW tree, IsTree(tree), NEW t, IsTrie(tree, t), NEW p \in Prefixes(tree)
    PROVE  t[p] \in PagesInUse(tree) /\ t[p] \in Page
<1>1. PICK n \in DOMAIN tree : p \in PagePrefixes(PathKey(tree, n))
  BY DEF Prefixes
<1> PICK s : s = PathKey(tree, n)
  OBVIOUS
<1>2. s \in Seq(Token)
  BY <1>1, TreeKeys
<1>3. PICK k : IsPagePrefix(p, s, k)
  BY ONLY <1>1, <1>2, s = PathKey(tree, n), PagePrefixIs
<1>4. k = Len(p) \div PageSize /\ k \in 1..(Len(s) \div PageSize)
  BY ONLY <1>3, Zenon DEF IsPagePrefix
<1>5. t[p] = PathValue(tree, n)[k]
  BY ONLY <1>1, <1>4, IsTrie(tree, t), Zenon DEF IsTrie
<1>6. k \in 1..Len(PathValue(tree, n))
  <2>1. Len(s) = PageSize * Len(PathValue(tree, n))
    BY <1>1, PathLengths
  <2>2. Len(PathValue(tree, n)) \in Nat
    BY <1>1, TreeValues, LenProperties
  <2>3. Len(s) \div PageSize = Len(PathValue(tree, n))
    BY ONLY <2>1, <2>2, PageArithmetic
  <2> QED
    BY ONLY <1>4, <2>3, Zenon
<1> QED
  BY ONLY <1>1, <1>5, <1>6, IsTree(tree), PagesUsed


(* A match is the longest there is, and changes no page. *)
LEMMA MatchTrie ==
    ASSUME NEW rc, NEW hd, RcInv(rc, hd), Siblings(rc.tree), NEW ids \in Seq(Token),
           NEW m, m = MatchPrefix(rc, ids)
    PROVE  /\ Siblings(m.radix.tree) /\ TriePages(m.radix.tree) = TriePages(rc.tree)
           /\ IsMatch(DOMAIN TriePages(rc.tree), ids, PathKey(m.radix.tree, m.handle.node))
<1> PICK w : w = TreeWalk(rc.tree, ids)
  OBVIOUS
<1>1. /\ CacheInv(rc.tree, rc.evictable_size, rc.protected_size, hd) /\ IsTree(rc.tree)
      /\ rc = [tree |-> rc.tree, evictable_size |-> rc.evictable_size,
               protected_size |-> rc.protected_size]
  BY DEF RcInv, CacheInv
<1>2. /\ Siblings(w.tree) /\ TriePages(w.tree) = TriePages(rc.tree)
      /\ IsMatch(Prefixes(rc.tree), ids, PathKey(w.tree, w.node))
  BY ONLY <1>1, Siblings(rc.tree), ids \in Seq(Token), w = TreeWalk(rc.tree, ids), WalkFinds
<1>3. m.radix.tree = w.tree /\ m.handle.node = w.node
  <2>1. m = [radix |-> [rc EXCEPT !.tree = w.tree],
             handle |-> [node |-> w.node, cached_len |-> w.prefix_len]]
    BY DEF MatchPrefix
  <2> QED
    BY ONLY <1>1, <2>1
<1>4. DOMAIN TriePages(rc.tree) = Prefixes(rc.tree)
  BY <1>1, TriePagesIs DEF IsTrie
<1> QED
  BY ONLY <1>2, <1>3, <1>4, Zenon

(* An insert adds what is missing of ids, each page with a page of its own. *)
Adding(t, t2, ids) ==
    /\ DOMAIN t2 = DOMAIN t \cup PagePrefixes(ids) /\ t2 = [p \in DOMAIN t2 |-> t2[p]]
    /\ \A p \in DOMAIN t : t2[p] = t[p]
    /\ \A p \in PagePrefixes(ids) : t2[p] \in Page
    /\ \A p \in PagePrefixes(ids) \ DOMAIN t : \A q \in DOMAIN t2 : t2[p] = t2[q] => p = q

(* The page of a prefix that the walk has not found. *)
LEMMA NewPage ==
    ASSUME NEW w, NEW ids \in Seq(Token), IsTree(w.tree), Arrived(w, ids),
           NEW fresh, NEW tree2, NEW new, NEW node, IsTree(tree2),
           Leaf(w, Rest(w, ids), fresh, tree2, new, node), fresh \in Seq(Page),
           Len(Rest(w, ids)) = PageSize * Len(fresh),
           NEW p \in PagePrefixes(ids), p \notin Prefixes(w.tree)
    PROVE  \E k \in Nat, j \in 1..Len(fresh) :
              /\ p = SubSeq(ids, 1, PageSize * k) /\ k = Len(PathValue(w.tree, w.node)) + j
              /\ PathValue(tree2, new)[Len(p) \div PageSize] = fresh[j]
<1> PICK h : h = PathKey(w.tree, w.node)
  OBVIOUS
<1> PICK v : v = PathValue(w.tree, w.node)
  OBVIOUS
<1> PICK pl \in Nat : pl = w.prefix_len
  BY DEF Arrived
<1> PICK u \in Nat : u = Len(ids)
  BY LenProperties
<1>1. /\ w.node \in DOMAIN w.tree /\ pl <= u /\ h = SubSeq(ids, 1, pl)
      /\ h \in Seq(Token) /\ v \in Seq(Page) /\ Len(h) = PageSize * Len(v)
  BY TreeKeys, TreeValues, PathLengths DEF Arrived
<1> PICK kw \in Nat : kw = Len(v)
  BY <1>1, LenProperties
<1> PICK b \in Nat : b = Len(fresh)
  BY LenProperties
<1>2. Len(h) = pl /\ pl = PageSize * kw
  <2>1. Len(h) = pl
    BY ONLY <1>1, u = Len(ids), ids \in Seq(Token), pl \in Nat, PrefixIs
  <2> QED
    BY ONLY <1>1, <2>1, kw = Len(v)
<1>3. PICK k : IsPagePrefix(p, ids, k)
  BY PagePrefixIs
<1>4. /\ k \in Nat \ {0} /\ p = SubSeq(ids, 1, PageSize * k) /\ Len(p) \div PageSize = k
      /\ k \in 1..(u \div PageSize)
  BY ONLY <1>3, u = Len(ids), Zenon DEF IsPagePrefix
<1>5. kw < k
  <2>0. k \in Nat
    BY ONLY <1>4
  <2> SUFFICES ASSUME ~(kw < k) PROVE FALSE
    OBVIOUS
  <2>8. k <= kw
    BY ONLY <2>0, ~(kw < k), kw \in Nat
  <2> PICK x \in Nat : x = PageSize * k
    BY <1>4, Wholes
  <2>1. x <= pl /\ 1 <= x
    <3>1. x <= pl
      BY ONLY <1>2, <1>4, <2>8, x = PageSize * k, kw \in Nat, Wholes
    <3>2. 1 <= x
      BY ONLY <1>4, x = PageSize * k, x \in Nat, PageArithmetic
    <3> QED
      BY <3>1, <3>2
  <2>2. pl \in 1..u /\ x \in 1..pl
    BY ONLY <1>1, <2>1, x \in Nat, pl \in Nat, u \in Nat
  <2>3. SubSeq(SubSeq(ids, 1, pl), 1, x) = SubSeq(ids, 1, x)
    BY ONLY <2>2, ids \in Seq(Token), u = Len(ids), SubSeqOfPrefix
  <2>4. p = SubSeq(h, 1, PageSize * k)
    BY ONLY <1>1, <1>4, <2>3, x = PageSize * k, Zenon
  <2>5. k \in 1..(Len(h) \div PageSize)
    <3>1. Len(h) \div PageSize = kw
      BY ONLY <1>2, kw \in Nat, PageArithmetic
    <3> QED
      BY ONLY <1>4, <2>8, <3>1, kw \in Nat
  <2>6. p \in PagePrefixes(h)
    BY ONLY <2>4, <2>5, Zenon DEF PagePrefixes
  <2> QED
    BY ONLY <1>1, <2>6, h = PathKey(w.tree, w.node), p \notin Prefixes(w.tree) DEF Prefixes
<1>6. k <= kw + b
  <2>1. Len(Rest(w, ids)) = u - pl
    BY ONLY <1>1, pl = w.prefix_len, u = Len(ids), pl \in Nat, ids \in Seq(Token), RestIs DEF Rest
  <2>2. u = PageSize * kw + PageSize * b
    <3> PICK y : y = PageSize * b
      OBVIOUS
    <3>1. y = u - pl
      BY ONLY <2>1, Len(Rest(w, ids)) = PageSize * Len(fresh), b = Len(fresh), y = PageSize * b
    <3> QED
      BY ONLY <1>2, <3>1, y = PageSize * b, pl \in Nat, u \in Nat
  <2>3. PageSize * (kw + b) = PageSize * kw + PageSize * b
    BY PageSizeAssumption
  <2>4. kw + b \in Nat /\ u = PageSize * (kw + b)
    BY ONLY <2>2, <2>3, kw \in Nat, b \in Nat
  <2>5. u \div PageSize = kw + b
    BY ONLY <2>4, PageArithmetic
  <2> QED
    BY ONLY <1>4, <2>5, kw \in Nat, b \in Nat
<1> PICK j : j = k - kw
  OBVIOUS
<1>7. j \in 1..b /\ k = kw + j
  BY ONLY <1>4, <1>5, <1>6, j = k - kw, kw \in Nat, b \in Nat
<1>8. PathValue(tree2, new)[k] = fresh[j]
  <2> PICK z : z = PathValue(tree2, new)
    OBVIOUS
  <2>1. z = v \o fresh
    <3>1. PathValue(tree2, new) = PathValue(w.tree, node.parent) \o node.value
      BY Zenon DEF Leaf, GrowKeeps
    <3>2. node.parent = w.node /\ node.value = fresh
      BY Zenon DEF Leaf
    <3> QED
      BY ONLY <3>1, <3>2, z = PathValue(tree2, new), v = PathValue(w.tree, w.node), Zenon
  <2>2. Joins(v, fresh, z)
    BY ONLY <1>1, <2>1, fresh \in Seq(Page), ConcatExtends
  <2>3. \A i \in 1..b : z[kw + i] = fresh[i]
    BY ONLY <2>2, kw = Len(v), b = Len(fresh), Zenon DEF Joins
  <2> QED
    BY ONLY <1>7, <2>3, z = PathValue(tree2, new), Zenon
<1> QED
  BY ONLY <1>4, <1>7, <1>8, kw = Len(v), b = Len(fresh), v = PathValue(w.tree, w.node)


LEMMA InsertTrie ==
    ASSUME NEW rc, NEW hd, RcInv(rc, hd), Siblings(rc.tree), NEW ids \in Seq(Token),
           NEW fresh, Fits(fresh, rc.tree, ids),
           NEW ins, ins = InsertPrefix(rc, ids, fresh)
    PROVE  Siblings(ins.radix.tree) /\ Adding(TriePages(rc.tree), TriePages(ins.radix.tree), ids)
<1> PICK al : al = Aligned(ids)
  OBVIOUS
<1> PICK w : w = TreeWalk(rc.tree, al)
  OBVIOUS
<1> PICK tree, tree2 : tree = rc.tree /\ tree2 = ins.radix.tree
  OBVIOUS
<1> PICK t, t2 : t = TriePages(tree) /\ t2 = TriePages(tree2)
  OBVIOUS
<1>1. /\ al \in Seq(Token) /\ PagePrefixes(al) = PagePrefixes(ids)
  BY AlignedIs, AlignedHasAllPages
<1>2. CacheInv(tree, rc.evictable_size, rc.protected_size, hd) /\ IsTree(tree) /\ Siblings(tree)
  BY DEF RcInv, CacheInv
<1>3. /\ CacheInv(w.tree, rc.evictable_size, rc.protected_size, hd)
      /\ Arrived(w, al) /\ Keeps(tree, w.tree)
  BY ONLY <1>1, <1>2, tree = rc.tree, w = TreeWalk(rc.tree, al), WalkKeeps
<1>4. /\ Siblings(w.tree) /\ TriePages(w.tree) = t /\ Prefixes(w.tree) = Prefixes(tree)
      /\ \A m \in Children(w.tree, w.node) : ~Agree(w.tree[m].key, Rest(w, al), PageSize)
  BY ONLY <1>1, <1>2, tree = rc.tree, w = TreeWalk(rc.tree, al), t = TriePages(tree), WalkFinds
<1>5. /\ Inserted(rc, ids, ins, hd)
      /\ Inserts(TreeWalk(rc.tree, Aligned(ids)), Aligned(ids), fresh, ins.radix.tree)
  BY InsertInv
<1>6. /\ IsTree(tree2) /\ Keeps(tree, tree2) /\ Inserts(w, al, fresh, tree2) /\ IsTree(w.tree)
      /\ ins.handle.node \in DOMAIN tree2 /\ PathKey(tree2, ins.handle.node) = al
  <2>1. RcInv(ins.radix, hd) /\ Keeps(rc.tree, ins.radix.tree) /\ Points(ins.handle, ins.radix.tree)
        /\ PathKey(ins.radix.tree, ins.handle.node) = Aligned(ids)
    BY ONLY <1>5, Zenon DEF Inserted
  <2> QED
    BY <1>3, <1>5, <2>1 DEF RcInv, CacheInv, Points
<1>7. Siblings(tree2)
  <2>1. CASE tree2 = w.tree
    BY <1>4, <2>1
  <2>2. ASSUME NEW new, NEW node, Leaf(w, Rest(w, al), fresh, tree2, new, node)
        PROVE  Siblings(tree2)
    <3>1. /\ new \in Nat \ DOMAIN w.tree /\ node.parent = w.node /\ node.key = Rest(w, al)
          /\ tree2 = Grown(w.tree, new, node)
      BY ONLY <2>2, Zenon DEF Leaf
    <3>2. node.parent \in DOMAIN w.tree
      BY <1>3, <3>1 DEF Arrived
    <3>3. \A m \in Children(w.tree, node.parent) : ~Agree(w.tree[m].key, node.key, PageSize)
      BY ONLY <1>4, <3>1, Zenon
    <3> QED
      BY ONLY <1>4, <1>6, <3>1, <3>2, <3>3, SiblingsGrown
  <2> QED
    BY ONLY <1>6, <2>1, <2>2, Zenon DEF Inserts
<1>8. /\ IsTrie(tree, t) /\ IsTrie(tree2, t2) /\ Prefixes(tree) \subseteq Prefixes(tree2)
      /\ \A p \in Prefixes(tree) : t2[p] = t[p]
  BY <1>2, <1>6, <1>7, SubTrie
<1>9. PagePrefixes(ids) \subseteq Prefixes(tree2)
  BY <1>1, <1>6 DEF Prefixes
<1>10. Prefixes(tree2) \subseteq Prefixes(tree) \cup PagePrefixes(ids)
  <2>1. CASE tree2 = w.tree
    BY <1>4, <2>1
  <2>2. ASSUME NEW new, NEW node, Leaf(w, Rest(w, al), fresh, tree2, new, node)
        PROVE  Prefixes(tree2) \subseteq Prefixes(tree) \cup PagePrefixes(ids)
    <3>1. GrowKeeps(w.tree, tree2, new, node) /\ tree2 = Grown(w.tree, new, node)
          /\ node.parent = w.node /\ node.key = Rest(w, al)
      BY ONLY <2>2, Zenon DEF Leaf
    <3>2. PathKey(tree2, new) = al
      <4>1. PathKey(tree2, new) = PathKey(w.tree, node.parent) \o node.key
        BY ONLY <3>1, Zenon DEF GrowKeeps
      <4>2. PathKey(w.tree, w.node) = SubSeq(al, 1, w.prefix_len) /\ w.prefix_len \in Nat
            /\ w.prefix_len <= Len(al)
        BY ONLY <1>3 DEF Arrived
      <4>3. Len(al) \in Nat
        BY <1>1, LenProperties
      <4>4. 1 \in 1..(Len(al) + 1) /\ w.prefix_len \in (1 - 1)..Len(al) /\ Len(al) \in w.prefix_len..Len(al)
        BY ONLY <4>2, <4>3
      <4>5. SubSeq(al, 1, w.prefix_len) \o SubSeq(al, w.prefix_len + 1, Len(al)) = SubSeq(al, 1, Len(al))
        BY ONLY <1>1, <4>4, ConcatAdjacentSubSeq
      <4>6. SubSeq(al, 1, Len(al)) = al
        BY ONLY <1>1, SubSeqFull
      <4> QED
        BY ONLY <3>1, <4>1, <4>2, <4>5, <4>6, Zenon DEF Rest
    <3>3. \A m \in DOMAIN tree2 : m = new \/ (m \in DOMAIN w.tree /\ PathKey(tree2, m) = PathKey(w.tree, m))
      <4>1. DOMAIN tree2 = DOMAIN w.tree \cup {new}
        BY ONLY <3>1 DEF Grown
      <4>2. \A m \in DOMAIN w.tree : PathKey(tree2, m) = PathKey(w.tree, m)
        BY ONLY <3>1, Zenon DEF GrowKeeps
      <4> QED
        BY ONLY <4>1, <4>2
    <3>4. Prefixes(tree2) \subseteq Prefixes(w.tree) \cup PagePrefixes(al)
      BY ONLY <3>2, <3>3 DEF Prefixes
    <3> QED
      BY ONLY <1>1, <1>4, <3>4
  <2> QED
    BY ONLY <1>6, <2>1, <2>2, Zenon DEF Inserts
<1>11. \A p \in PagePrefixes(ids) : t2[p] \in Page
  BY <1>6, <1>8, <1>9, TriePagesUsed
<1>12. ASSUME NEW p \in PagePrefixes(ids), p \notin Prefixes(tree)
       PROVE  \E new, node : \E k \in Nat, j \in 1..Len(fresh) :
                 /\ p = SubSeq(al, 1, PageSize * k) /\ k = Len(PathValue(w.tree, w.node)) + j
                 /\ t2[p] = fresh[j]
  <2>1. p \in PagePrefixes(al) /\ p \notin Prefixes(w.tree)
    BY ONLY <1>1, <1>4, <1>12
  <2>2. tree2 # w.tree
    BY ONLY <1>4, <1>9, <1>12
  <2>3. /\ Len(Rest(w, al)) = PageSize * Len(fresh) /\ fresh \in Seq(Page)
        /\ \E new, node : Leaf(w, Rest(w, al), fresh, tree2, new, node)
    BY ONLY <1>6, <2>2, Zenon DEF Inserts
  <2>4. PICK new, node : Leaf(w, Rest(w, al), fresh, tree2, new, node)
    BY <2>3
  <2>5. PICK k \in Nat, j \in 1..Len(fresh) :
              /\ p = SubSeq(al, 1, PageSize * k) /\ k = Len(PathValue(w.tree, w.node)) + j
              /\ PathValue(tree2, new)[Len(p) \div PageSize] = fresh[j]
    BY ONLY <1>1, <1>3, <1>6, <2>1, <2>3, <2>4, NewPage
  <2>6. new \in DOMAIN tree2 /\ PathKey(tree2, new) = al
    <3>1. /\ tree2 = Grown(w.tree, new, node) /\ GrowKeeps(w.tree, tree2, new, node)
          /\ node.parent = w.node /\ node.key = Rest(w, al)
      BY ONLY <2>4, Zenon DEF Leaf
    <3>2. new \in DOMAIN tree2
      BY ONLY <3>1 DEF Grown
    <3>3. PathKey(tree2, new) = PathKey(w.tree, node.parent) \o node.key
      BY ONLY <3>1, Zenon DEF GrowKeeps
    <3>4. PathKey(w.tree, w.node) = SubSeq(al, 1, w.prefix_len) /\ w.prefix_len \in Nat
          /\ w.prefix_len <= Len(al)
      BY ONLY <1>3 DEF Arrived
    <3>5. Len(al) \in Nat
      BY <1>1, LenProperties
    <3>6. 1 \in 1..(Len(al) + 1) /\ w.prefix_len \in (1 - 1)..Len(al) /\ Len(al) \in w.prefix_len..Len(al)
      BY ONLY <3>4, <3>5
    <3>7. SubSeq(al, 1, w.prefix_len) \o SubSeq(al, w.prefix_len + 1, Len(al)) = SubSeq(al, 1, Len(al))
      BY ONLY <1>1, <3>6, ConcatAdjacentSubSeq
    <3>8. SubSeq(al, 1, Len(al)) = al
      BY ONLY <1>1, SubSeqFull
    <3>9. PathKey(tree2, new) = al
      BY ONLY <3>1, <3>3, <3>4, <3>7, <3>8, Zenon DEF Rest
    <3> QED
      BY ONLY <3>2, <3>9
  <2>7. t2[p] = PathValue(tree2, new)[Len(p) \div PageSize]
    <3>1. p \in PagePrefixes(PathKey(tree2, new))
      BY ONLY <2>1, <2>6, Zenon
    <3> QED
      BY ONLY <1>8, <2>6, <3>1, Zenon DEF IsTrie
  <2> QED
    BY <2>5, <2>7
<1>13. ASSUME NEW p \in PagePrefixes(ids), p \notin Prefixes(tree), NEW q \in Prefixes(tree2), t2[p] = t2[q]
       PROVE  p = q
  <2>1. PICK k \in Nat, j \in 1..Len(fresh) :
              /\ p = SubSeq(al, 1, PageSize * k) /\ k = Len(PathValue(w.tree, w.node)) + j
              /\ t2[p] = fresh[j]
    BY <1>12, <1>13
  <2> PICK d : d = (Len(al) - w.prefix_len) \div PageSize
    OBVIOUS
  <2>2. fresh \in Injection(1..d, Page \ PagesInUse(tree))
    BY ONLY Fits(fresh, rc.tree, ids), tree = rc.tree, al = Aligned(ids), w = TreeWalk(rc.tree, al),
            d = (Len(al) - w.prefix_len) \div PageSize, Zenon DEF Fits
  <2>3. /\ fresh \in [1..d -> Page \ PagesInUse(tree)]
        /\ \A a, b \in 1..d : fresh[a] = fresh[b] => a = b
    <3>1. fresh \in [1..d -> Page \ PagesInUse(tree)] /\ IsInjective(fresh)
      BY ONLY <2>2, Zenon DEF Injection
    <3> QED
      BY ONLY <3>1 DEF IsInjective
  <2>4. 1..Len(fresh) = 1..d
    <3>1. fresh \in Seq(Page)
      <4>1. tree2 # w.tree
        BY ONLY <1>4, <1>9, <1>13
      <4> QED
        BY ONLY <1>6, <4>1, Zenon DEF Inserts
    <3>2. DOMAIN fresh = 1..Len(fresh)
      BY ONLY <3>1, LenProperties
    <3> QED
      BY ONLY <2>3, <3>2
  <2>5. CASE q \in Prefixes(tree)
    <3>1. t2[q] = t[q] /\ t[q] \in PagesInUse(tree)
      BY <1>2, <1>8, <2>5, TriePagesUsed
    <3>2. fresh[j] \notin PagesInUse(tree)
      BY ONLY <2>1, <2>3, <2>4
    <3> QED
      BY ONLY <1>13, <2>1, <3>1, <3>2
  <2>6. CASE q \notin Prefixes(tree)
    <3>1. q \in PagePrefixes(ids)
      BY <1>10, <2>6
    <3>2. PICK k2 \in Nat, j2 \in 1..Len(fresh) :
              /\ q = SubSeq(al, 1, PageSize * k2) /\ k2 = Len(PathValue(w.tree, w.node)) + j2
              /\ t2[q] = fresh[j2]
      BY <1>12, <2>6, <3>1
    <3>3. j = j2
      BY ONLY <1>13, <2>1, <2>3, <2>4, <3>2
    <3> QED
      BY ONLY <2>1, <3>2, <3>3, Zenon
  <2> QED
    BY <2>5, <2>6
<1>14. Adding(t, t2, ids)
  <2>1. DOMAIN t = Prefixes(tree) /\ DOMAIN t2 = Prefixes(tree2) /\ t2 = [p \in DOMAIN t2 |-> t2[p]]
    BY ONLY <1>8 DEF IsTrie
  <2>2. DOMAIN t2 = DOMAIN t \cup PagePrefixes(ids)
    BY ONLY <1>8, <1>9, <1>10, <2>1
  <2>3. \A p \in PagePrefixes(ids) \ DOMAIN t : \A q \in DOMAIN t2 : t2[p] = t2[q] => p = q
    BY ONLY <1>13, <2>1
  <2>4. \A p \in DOMAIN t : t2[p] = t[p]
    BY ONLY <1>8, <2>1
  <2> QED
    BY ONLY <1>11, <2>1, <2>2, <2>3, <2>4, Zenon DEF Adding
<1> QED
  BY ONLY <1>7, <1>14, tree = rc.tree, tree2 = ins.radix.tree, t = TriePages(tree),
          t2 = TriePages(tree2), Zenon


-----------------------------------------------------------------------------
(* What an eviction leaves *)

(* After some rounds: paths that are left are as they were. *)
EvictedFrom(e, tree, hd) ==
    Evicting(e, hd) /\ Siblings(e.radix.tree) /\ Keeps(e.radix.tree, tree)

LEMMA EvictsFrom ==
    ASSUME NEW e, NEW tree, NEW hd, EvictedFrom(e, tree, hd)
    PROVE  EvictedFrom(EvictStep(e), tree, hd)
<1> PICK e2 : e2 = EvictStep(e)
  OBVIOUS
<1>1. Evicting(e, hd) /\ Siblings(e.radix.tree) /\ Keeps(e.radix.tree, tree)
  BY DEF EvictedFrom
<1>2. /\ Evicting(e2, hd)
      /\ \/ e.size <= 0 /\ e2 = e
         \/ ~(e.size <= 0) /\ \E n : Evicts(e, e2, n)
  BY <1>1, EvictStepIs
<1>3. ASSUME NEW n, Evicts(e, e2, n) PROVE EvictedFrom(e2, tree, hd)
  <2> PICK t1, t2 : t1 = e.radix.tree /\ t2 = e2.radix.tree
    OBVIOUS
  <2>1. /\ n \in Nodes(t1) /\ t2 = [m \in DOMAIN t1 \ {n} |-> t1[m]] /\ IsLeaf(t1, n)
    BY <1>3 DEF Evicts, EvictableLeaves
  <2>2. IsTree(t1)
    BY <1>1 DEF Evicting, RcInv, CacheInv
  <2>3. Siblings(t2)
    BY <1>1, <2>1, SiblingsShrunk
  <2>4. \A m \in DOMAIN t1 \ {n} : PathKey(t2, m) = PathKey(t1, m) /\ PathValue(t2, m) = PathValue(t1, m)
    BY <2>1, <2>2, ShrinkTree
  <2>5. DOMAIN t2 = DOMAIN t1 \ {n}
    BY ONLY <2>1
  <2>6. Keeps(t2, tree)
    BY <1>1, <2>4, <2>5 DEF Keeps
  <2> QED
    BY <1>2, <2>3, <2>6 DEF EvictedFrom
<1>4. EvictedFrom(e2, tree, hd)
  BY <1>1, <1>2, <1>3
<1> QED
  BY ONLY <1>4, e2 = EvictStep(e), Zenon

LEMMA EvictTrie ==
    ASSUME NEW rc, NEW hd, RcInv(rc, hd), Siblings(rc.tree),
           NEW size \in Nat, size <= rc.evictable_size, NEW e, e = EvictLoop(rc, size)
    PROVE  Siblings(e.radix.tree) /\ Keeps(e.radix.tree, rc.tree)
<1>0. IsTree(rc.tree)
  BY DEF RcInv, CacheInv
<1>1. PICK f, N : /\ N \in Nat /\ N = Cardinality(DOMAIN rc.tree)
                  /\ EvictLoop(rc, size) = f[N] /\ f[0] = AtLeaves(rc, size)
                  /\ \A k \in 1..N : f[k] = EvictStep(f[k - 1])
  BY <1>0, EvictLoopIs
<1> DEFINE S == {k \in 0..N : EvictedFrom(f[k], rc.tree, hd)}
<1>2. 0 \in S
  <2>1. f[0] = [radix |-> rc, leaves |-> EvictableLeaves(rc.tree), size |-> size]
    BY <1>1 DEF AtLeaves
  <2>2. f[0].radix = rc /\ f[0].leaves = EvictableLeaves(rc.tree) /\ f[0].size = size
    BY ONLY <2>1
  <2>3. Evicting(f[0], hd)
    <3>1. size \in Int
      OBVIOUS
    <3> QED
      BY ONLY <2>1, <2>2, <3>1, RcInv(rc, hd), size <= rc.evictable_size, Zenon DEF Evicting
  <2>4. Keeps(rc.tree, rc.tree)
    BY DEF Keeps
  <2>5. EvictedFrom(f[0], rc.tree, hd)
    BY ONLY <2>2, <2>3, <2>4, Siblings(rc.tree), Zenon DEF EvictedFrom
  <2> QED
    BY <1>1, <2>5
<1>3. ASSUME NEW k \in 1..N, k - 1 \in S
      PROVE  k \in S
  <2>1. EvictedFrom(f[k - 1], rc.tree, hd) /\ k \in 0..N
    BY <1>1, <1>3
  <2>2. EvictedFrom(EvictStep(f[k - 1]), rc.tree, hd)
    BY ONLY <2>1, EvictsFrom
  <2>3. EvictedFrom(f[k], rc.tree, hd)
    BY <1>1, <2>2
  <2> QED
    BY <2>1, <2>3
<1>4. EvictedFrom(f[N], rc.tree, hd)
  <2>1. \A k \in 0..N : k \in S
    <3> HIDE DEF S
    <3> QED
      BY <1>1, <1>2, <1>3, UpTo
  <2> QED
    BY <1>1, <2>1
<1> QED
  BY <1>1, <1>4 DEF EvictedFrom

(* The pages of what is evicted go, those of what is left stay. *)
Less(t, t2) ==
    /\ DOMAIN t2 \subseteq DOMAIN t
    /\ t = [p \in DOMAIN t |-> t[p]] /\ t2 = [p \in DOMAIN t2 |-> t[p]]

LEMMA FewerPages ==
    ASSUME NEW tree, IsTree(tree), Siblings(tree), NEW tree2, IsTree(tree2), Siblings(tree2),
           Keeps(tree2, tree)
    PROVE  Less(TriePages(tree), TriePages(tree2))
<1> PICK t, t2 : t = TriePages(tree) /\ t2 = TriePages(tree2)
  OBVIOUS
<1>1. /\ IsTrie(tree, t) /\ IsTrie(tree2, t2) /\ Prefixes(tree2) \subseteq Prefixes(tree)
      /\ \A p \in Prefixes(tree2) : t[p] = t2[p]
  BY SubTrie
<1>2. /\ DOMAIN t = Prefixes(tree) /\ DOMAIN t2 = Prefixes(tree2)
      /\ t = [p \in DOMAIN t |-> t[p]] /\ t2 = [p \in DOMAIN t2 |-> t2[p]]
  BY <1>1 DEF IsTrie
<1>3. Less(t, t2)
  BY ONLY <1>1, <1>2 DEF Less
<1> QED
  BY <1>3


-----------------------------------------------------------------------------
(* What an operation does to the trie and to what the handles cover *)

Covered(tree, hd) ==
    [c \in Client |-> IF hd[c] = NoHandle THEN NoHandle ELSE PathKey(tree, hd[c].node)]

(* Counts and time stamps of a cache change. *)
Reshaped(tree, tree2) ==
    /\ DOMAIN tree2 = DOMAIN tree
    /\ \A n \in DOMAIN tree : PathKey(tree2, n) = PathKey(tree, n)
    /\ Siblings(tree2) /\ TriePages(tree2) = TriePages(tree)

LEMMA SettledTrie ==
    ASSUME NEW rc, NEW hd, RcInv(rc, hd), Siblings(rc.tree)
    PROVE  Reshaped(rc.tree, Settled(rc).tree)
<1>1. IsTree(rc.tree)
  BY DEF RcInv, CacheInv
<1>2. RcInv(Settled(rc), hd) /\ Settled(rc).tree = Ranked(rc.tree)
  BY SettledInv
<1>3. SameShape(rc.tree, Settled(rc).tree)
  BY <1>1, <1>2, RankedIs
<1>4. IsTree(Settled(rc).tree)
  BY <1>2 DEF RcInv, CacheInv
<1> PICK tree, tree2 : tree = rc.tree /\ tree2 = Settled(rc).tree
  OBVIOUS
<1>5. Reshaped(tree, tree2)
  BY <1>1, <1>3, <1>4, ShapeTrie DEF Reshaped
<1> QED
  BY <1>5

LEMMA LockedTrie ==
    ASSUME NEW rc, NEW hd, RcInv(rc, hd), Siblings(rc.tree), NEW c \in Client, hd[c] = NoHandle,
           NEW h, Points(h, rc.tree)
    PROVE  Reshaped(rc.tree, Settled(LockHandle(rc, h)).tree)
<1> PICK rc2 : rc2 = LockHandle(rc, h)
  OBVIOUS
<1> PICK hd2 : hd2 = [hd EXCEPT ![c] = h]
  OBVIOUS
<1>1. RcInv(rc2, hd2) /\ SameShape(rc.tree, rc2.tree)
  BY LockInv DEF Points
<1>2. IsTree(rc.tree) /\ IsTree(rc2.tree)
  BY <1>1 DEF RcInv, CacheInv
<1> PICK tree, tree1, tree2 : tree = rc.tree /\ tree1 = rc2.tree /\ tree2 = Settled(rc2).tree
  OBVIOUS
<1>3. Reshaped(tree, tree1)
  BY <1>1, <1>2, ShapeTrie DEF Reshaped
<1>4. Reshaped(tree1, tree2)
  BY <1>1, <1>3, SettledTrie DEF Reshaped
<1>5. Reshaped(tree, tree2)
  BY ONLY <1>3, <1>4 DEF Reshaped
<1> QED
  BY <1>5

LEMMA UnlockedTrie ==
    ASSUME NEW rc, NEW hd, RcInv(rc, hd), Siblings(rc.tree), NEW c \in Client, hd[c] # NoHandle
    PROVE  /\ Reshaped(rc.tree, UnlockHandle(rc, hd[c]).tree)
           /\ Reshaped(rc.tree, Settled(UnlockHandle(rc, hd[c])).tree)
<1> PICK rc2 : rc2 = UnlockHandle(rc, hd[c])
  OBVIOUS
<1> PICK hd2 : hd2 = [hd EXCEPT ![c] = NoHandle]
  OBVIOUS
<1>1. RcInv(rc2, hd2) /\ SameShape(rc.tree, rc2.tree)
  BY UnlockInv
<1>2. IsTree(rc.tree) /\ IsTree(rc2.tree)
  BY <1>1 DEF RcInv, CacheInv
<1> PICK tree, tree1, tree2 : tree = rc.tree /\ tree1 = rc2.tree /\ tree2 = Settled(rc2).tree
  OBVIOUS
<1>3. Reshaped(tree, tree1)
  BY <1>1, <1>2, ShapeTrie DEF Reshaped
<1>4. Reshaped(tree1, tree2)
  BY <1>1, <1>3, SettledTrie DEF Reshaped
<1>5. Reshaped(tree, tree2)
  BY ONLY <1>3, <1>4 DEF Reshaped
<1> QED
  BY <1>3, <1>5

LEMMA StoredTrie ==
    ASSUME NEW rc, NEW hd, RcInv(rc, hd), Siblings(rc.tree), NEW ids \in Seq(Token),
           NEW c \in Client, hd[c] # NoHandle, NEW fresh, Fits(fresh, rc.tree, ids),
           NEW finished \in BOOLEAN, NEW ins, ins = InsertPrefix(rc, ids, fresh)
    PROVE  Reshaped(ins.radix.tree, Settled(Stored(ins, hd[c], finished)).tree)
<1>1. RcInv(ins.radix, hd) /\ Points(ins.handle, ins.radix.tree) /\ Siblings(ins.radix.tree)
  BY InsertInv, InsertTrie DEF Inserted
<1> PICK rc2 : rc2 = UnlockHandle(ins.radix, hd[c])
  OBVIOUS
<1> PICK hd2 : hd2 = [hd EXCEPT ![c] = NoHandle]
  OBVIOUS
<1>2. /\ RcInv(rc2, hd2) /\ Reshaped(ins.radix.tree, rc2.tree)
      /\ Reshaped(ins.radix.tree, Settled(rc2).tree)
  BY <1>1, UnlockInv, UnlockedTrie
<1>3. CASE finished
  BY <1>2, <1>3 DEF Stored
<1>4. CASE ~finished
  <2>1. hd2[c] = NoHandle
    BY GivenTwice DEF RcInv, CacheInv, HandlesIn
  <2>2. Points(ins.handle, rc2.tree)
    BY <1>1, <1>2 DEF Points, Reshaped
  <2>3. Siblings(rc2.tree)
    BY <1>2 DEF Reshaped
  <2>4. Reshaped(rc2.tree, Settled(LockHandle(rc2, ins.handle)).tree)
    BY <1>2, <2>1, <2>2, <2>3, LockedTrie
  <2> PICK tree, tree1, tree2 : /\ tree = ins.radix.tree /\ tree1 = rc2.tree
                                /\ tree2 = Settled(LockHandle(rc2, ins.handle)).tree
    OBVIOUS
  <2>5. Reshaped(tree, tree2)
    <3>1. Reshaped(tree, tree1) /\ Reshaped(tree1, tree2)
      BY <1>2, <2>4
    <3> QED
      BY ONLY <3>1 DEF Reshaped
  <2> QED
    BY <1>4, <2>5 DEF Stored
<1> QED
  BY <1>3, <1>4


-----------------------------------------------------------------------------
(* The longest match *)

(* The inductive invariant, with what makes a walk by first pages find its way. *)
TrieInv == Inv /\ Siblings(radix.tree)

LEMMA NextTrie ==
    ASSUME TrieInv, [Next]_vars
    PROVE  TrieInv'
<1>0. Inv /\ RcInv(radix, handle) /\ Siblings(radix.tree)
  BY DEF TrieInv, Inv
<1>1. Inv'
  BY <1>0, NextInv
<1>2. CASE UNCHANGED vars
  BY <1>0, <1>1, <1>2 DEF vars, TrieInv
<1>3. ASSUME NEW ids \in Input, Match(ids) PROVE Siblings(radix'.tree)
  <2> PICK m : m = MatchPrefix(radix, ids)
    OBVIOUS
  <2>1. RcInv(m.radix, handle) /\ Siblings(m.radix.tree)
    BY <1>0, InputAssumption, MatchInv, MatchTrie
  <2>2. radix' = Settled(m.radix)
    BY <1>3, Zenon DEF Match, Settle, Settled
  <2> QED
    BY <2>1, <2>2, SettledTrie DEF Reshaped
<1>4. ASSUME NEW c \in Client, NEW ids \in Input, Acquire(c, ids) PROVE Siblings(radix'.tree)
  <2> PICK m : m = MatchPrefix(radix, ids)
    OBVIOUS
  <2>1. RcInv(m.radix, handle) /\ Siblings(m.radix.tree) /\ Points(m.handle, m.radix.tree)
    BY <1>0, InputAssumption, MatchInv, MatchTrie
  <2>2. handle[c] = NoHandle /\ radix' = Settled(LockHandle(m.radix, m.handle))
    BY <1>4, Zenon DEF Acquire, Settle, Settled
  <2> QED
    BY <2>1, <2>2, LockedTrie DEF Reshaped
<1>5. ASSUME NEW c \in Client, Release(c) PROVE Siblings(radix'.tree)
  <2>1. handle[c] # NoHandle /\ radix' = Settled(UnlockHandle(radix, handle[c]))
    BY <1>5, Zenon DEF Release, Settle, Settled
  <2> QED
    BY <1>0, <2>1, UnlockedTrie DEF Reshaped
<1>6. ASSUME NEW c \in Client, NEW ids \in Input, NEW finished \in BOOLEAN, Store(c, ids, finished)
      PROVE  Siblings(radix'.tree)
  <2>1. ids \in Seq(Token) /\ handle[c] # NoHandle
    BY <1>6, InputAssumption DEF Store
  <2>2. PICK fresh : /\ Fits(fresh, radix.tree, ids)
                     /\ radix' = Settled(Stored(InsertPrefix(radix, ids, fresh), handle[c], finished))
    BY <1>6, Zenon DEF Store, Settle, Settled, Stored, Fits
  <2> PICK ins : ins = InsertPrefix(radix, ids, fresh)
    OBVIOUS
  <2>3. Reshaped(ins.radix.tree, Settled(Stored(ins, handle[c], finished)).tree)
    BY <1>0, <2>1, <2>2, StoredTrie
  <2> QED
    BY <2>2, <2>3 DEF Reshaped
<1>7. ASSUME NEW pages \in 1..Cardinality(Page), Evict(pages) PROVE Siblings(radix'.tree)
  <2> PICK size : size = PageSize * pages
    OBVIOUS
  <2> PICK e : e = EvictLoop(radix, size)
    OBVIOUS
  <2>1. size <= radix.evictable_size /\ radix' = Settled(e.radix)
    BY <1>7, Zenon DEF Evict, Settle, Settled
  <2>2. size \in Nat
    <3>1. pages \in Nat
      OBVIOUS
    <3> QED
      BY <3>1, PageSizeAssumption
  <2>3. RcInv(e.radix, handle) /\ Siblings(e.radix.tree)
    BY <1>0, <2>1, <2>2, EvictInv, EvictTrie
  <2> QED
    BY <2>1, <2>3, SettledTrie DEF Reshaped
<1>8. CASE Next
  <2>1. Siblings(radix'.tree)
    BY <1>3, <1>4, <1>5, <1>6, <1>7, <1>8 DEF Next
  <2> QED
    BY <1>1, <2>1 DEF TrieInv
<1> QED
  BY <1>2, <1>8

LEMMA InitTrie ==
    ASSUME Init
    PROVE  TrieInv
<1>1. Nodes(radix.tree) = {}
  BY DEF Init, Nodes
<1> QED
  BY <1>1, InitInv DEF TrieInv, Siblings

(* A walk finds the longest page-aligned prefix that the tree holds, although at each *)
(* node it looks at first pages alone, and leaves every other path as it was           *)
(* (RadixPrefixCache.match_prefix and _tree_walk).                                     *)
THEOREM LongestMatch == Spec => []MatchIsLongest
<1>1. Init => TrieInv
  BY InitTrie
<1>2. TrieInv /\ [Next]_vars => TrieInv'
  BY NextTrie
<1>3. TrieInv => MatchIsLongest
  <2> SUFFICES ASSUME TrieInv, NEW ids \in Input, NEW m, m = MatchPrefix(radix, ids)
               PROVE  /\ IsMatch(DOMAIN TriePages(radix.tree), ids,
                                 PathKey(m.radix.tree, m.handle.node))
                      /\ TriePages(m.radix.tree) = TriePages(radix.tree)
    BY Zenon DEF MatchIsLongest
  <2>1. RcInv(radix, handle) /\ Siblings(radix.tree) /\ ids \in Seq(Token)
    BY InputAssumption DEF TrieInv, Inv
  <2> QED
    BY <2>1, MatchTrie
<1> QED
  BY <1>1, <1>2, <1>3, PTL DEF Spec


-----------------------------------------------------------------------------
(* The radix tree implements the prefix cache *)

LEMMA CoveredKept ==
    ASSUME NEW tree, NEW tree2, NEW hd, HandlesIn(tree, hd),
           \A n \in DOMAIN tree : PathKey(tree2, n) = PathKey(tree, n)
    PROVE  Covered(tree2, hd) = Covered(tree, hd)
<1>1. \A c \in Client : hd[c] # NoHandle => PathKey(tree2, hd[c].node) = PathKey(tree, hd[c].node)
  BY DEF HandlesIn
<1> QED
  BY ONLY <1>1 DEF Covered

LEMMA CoveredGiven ==
    ASSUME NEW tree, NEW hd, HandlesIn(tree, hd), NEW c \in Client, NEW h
    PROVE  Covered(tree, [hd EXCEPT ![c] = h])
             = [Covered(tree, hd) EXCEPT ![c] = IF h = NoHandle THEN NoHandle ELSE PathKey(tree, h.node)]
<1> PICK k : k = IF h = NoHandle THEN NoHandle ELSE PathKey(tree, h.node)
  OBVIOUS
<1> PICK hd2 : hd2 = [hd EXCEPT ![c] = h]
  OBVIOUS
<1>1. hd2[c] = h /\ \A b \in Client : b # c => hd2[b] = hd[b]
  BY DEF HandlesIn
<1> PICK f, g : f = Covered(tree, hd) /\ g = Covered(tree, hd2)
  OBVIOUS
<1>2. /\ f = [b \in Client |-> IF hd[b] = NoHandle THEN NoHandle ELSE PathKey(tree, hd[b].node)]
      /\ g = [b \in Client |-> IF hd2[b] = NoHandle THEN NoHandle ELSE PathKey(tree, hd2[b].node)]
  BY ONLY f = Covered(tree, hd), g = Covered(tree, hd2), Zenon DEF Covered
<1>3. g = [f EXCEPT ![c] = k]
  <2>1. g[c] = k
    BY ONLY <1>1, <1>2, c \in Client, k = IF h = NoHandle THEN NoHandle ELSE PathKey(tree, h.node)
  <2>2. \A b \in Client : b # c => g[b] = f[b]
    BY ONLY <1>1, <1>2
  <2>3. DOMAIN f = Client /\ f = [b \in Client |-> f[b]] /\ g = [b \in Client |-> g[b]]
    BY ONLY <1>2
  <2> QED
    BY ONLY <2>1, <2>2, <2>3
<1> QED
  BY ONLY <1>3, hd2 = [hd EXCEPT ![c] = h], f = Covered(tree, hd), g = Covered(tree, hd2),
          k = IF h = NoHandle THEN NoHandle ELSE PathKey(tree, h.node), Zenon

(* A client covers a sequence of tokens when it has a handle. *)
LEMMA CoveredIs ==
    ASSUME NEW tree, IsTree(tree), NEW hd, HandlesIn(tree, hd)
    PROVE  /\ Covered(tree, hd) = [c \in Client |-> Covered(tree, hd)[c]]
           /\ \A c \in Client : /\ hd[c] = NoHandle => Covered(tree, hd)[c] = NoHandle
                                /\ hd[c] # NoHandle => /\ Covered(tree, hd)[c] = PathKey(tree, hd[c].node)
                                                       /\ Covered(tree, hd)[c] # NoHandle
<1>1. ASSUME NEW c \in Client, hd[c] # NoHandle
      PROVE  PathKey(tree, hd[c].node) # NoHandle
  <2>1. PathKey(tree, hd[c].node) \in Seq(Token)
    BY <1>1, TreeKeys DEF HandlesIn
  <2> QED
    BY <2>1, NoHandleAssumption
<1> QED
  BY <1>1 DEF Covered

(* What each operation comes to. *)
LEMMA MatchMaps ==
    ASSUME NEW rc, NEW hd, RcInv(rc, hd), Siblings(rc.tree), NEW ids \in Seq(Token),
           NEW rc2, rc2 = Settled(MatchPrefix(rc, ids).radix)
    PROVE  TriePages(rc2.tree) = TriePages(rc.tree) /\ Covered(rc2.tree, hd) = Covered(rc.tree, hd)
<1> PICK m : m = MatchPrefix(rc, ids)
  OBVIOUS
<1>1. RcInv(m.radix, hd) /\ Keeps(rc.tree, m.radix.tree)
  BY MatchInv
<1>2. Siblings(m.radix.tree) /\ TriePages(m.radix.tree) = TriePages(rc.tree)
  BY MatchTrie
<1>3. Reshaped(m.radix.tree, rc2.tree)
  BY <1>1, <1>2, SettledTrie
<1>4. HandlesIn(rc.tree, hd)
  BY DEF RcInv, CacheInv
<1>5. \A n \in DOMAIN rc.tree : PathKey(rc2.tree, n) = PathKey(rc.tree, n)
  BY ONLY <1>1, <1>3 DEF Keeps, Reshaped
<1>6. Covered(rc2.tree, hd) = Covered(rc.tree, hd)
  BY <1>4, <1>5, CoveredKept
<1> QED
  BY <1>2, <1>3, <1>6 DEF Reshaped

LEMMA AcquireMaps ==
    ASSUME NEW rc, NEW hd, RcInv(rc, hd), Siblings(rc.tree), NEW ids \in Seq(Token),
           NEW c \in Client, hd[c] = NoHandle, NEW m, m = MatchPrefix(rc, ids),
           NEW rc2, rc2 = Settled(LockHandle(m.radix, m.handle))
    PROVE  /\ TriePages(rc2.tree) = TriePages(rc.tree)
           /\ \E h : /\ IsMatch(DOMAIN TriePages(rc.tree), ids, h)
                     /\ Covered(rc2.tree, [hd EXCEPT ![c] = m.handle])
                          = [Covered(rc.tree, hd) EXCEPT ![c] = h]
<1>1. RcInv(m.radix, hd) /\ Keeps(rc.tree, m.radix.tree) /\ Points(m.handle, m.radix.tree)
  BY MatchInv
<1> PICK h : h = PathKey(m.radix.tree, m.handle.node)
  OBVIOUS
<1>2. /\ Siblings(m.radix.tree) /\ TriePages(m.radix.tree) = TriePages(rc.tree)
      /\ IsMatch(DOMAIN TriePages(rc.tree), ids, h)
  BY MatchTrie
<1>3. Reshaped(m.radix.tree, rc2.tree)
  BY <1>1, <1>2, LockedTrie
<1>4. HandlesIn(rc.tree, hd)
  BY DEF RcInv, CacheInv
<1>5. \A n \in DOMAIN rc.tree : n \in DOMAIN rc2.tree /\ PathKey(rc2.tree, n) = PathKey(rc.tree, n)
  BY ONLY <1>1, <1>3 DEF Keeps, Reshaped
<1>6. Covered(rc2.tree, hd) = Covered(rc.tree, hd)
  BY <1>4, <1>5, CoveredKept
<1>7. HandlesIn(rc2.tree, hd)
  BY <1>4, <1>5 DEF HandlesIn
<1>8. m.handle # NoHandle /\ PathKey(rc2.tree, m.handle.node) = h
  BY <1>1, <1>3, NoHandleAssumption DEF Points, Handle, Reshaped
<1>9. Covered(rc2.tree, [hd EXCEPT ![c] = m.handle]) = [Covered(rc.tree, hd) EXCEPT ![c] = h]
  <2>1. Covered(rc2.tree, [hd EXCEPT ![c] = m.handle])
          = [Covered(rc2.tree, hd) EXCEPT ![c] = IF m.handle = NoHandle THEN NoHandle
                                                 ELSE PathKey(rc2.tree, m.handle.node)]
    <3> PICK tree2, k : tree2 = rc2.tree /\ k = m.handle
      OBVIOUS
    <3>1. HandlesIn(tree2, hd)
      BY <1>7
    <3>2. Covered(tree2, [hd EXCEPT ![c] = k])
            = [Covered(tree2, hd) EXCEPT ![c] = IF k = NoHandle THEN NoHandle
                                                ELSE PathKey(tree2, k.node)]
      BY ONLY <3>1, c \in Client, CoveredGiven
    <3> QED
      BY ONLY <3>2, tree2 = rc2.tree, k = m.handle, Zenon
  <2> QED
    BY ONLY <1>6, <1>8, <2>1
<1> QED
  BY <1>2, <1>3, <1>9 DEF Reshaped

LEMMA ReleaseMaps ==
    ASSUME NEW rc, NEW hd, RcInv(rc, hd), Siblings(rc.tree), NEW c \in Client, hd[c] # NoHandle,
           NEW rc2, rc2 = Settled(UnlockHandle(rc, hd[c]))
    PROVE  /\ TriePages(rc2.tree) = TriePages(rc.tree)
           /\ Covered(rc2.tree, [hd EXCEPT ![c] = NoHandle])
                = [Covered(rc.tree, hd) EXCEPT ![c] = NoHandle]
<1>1. Reshaped(rc.tree, rc2.tree)
  BY UnlockedTrie
<1>2. HandlesIn(rc.tree, hd)
  BY DEF RcInv, CacheInv
<1>3. Covered(rc2.tree, hd) = Covered(rc.tree, hd) /\ HandlesIn(rc2.tree, hd)
  BY <1>1, <1>2, CoveredKept DEF Reshaped, HandlesIn
<1>4. Covered(rc2.tree, [hd EXCEPT ![c] = NoHandle])
        = [Covered(rc2.tree, hd) EXCEPT ![c] = IF NoHandle = NoHandle THEN NoHandle
                                               ELSE PathKey(rc2.tree, NoHandle.node)]
  BY ONLY <1>3, c \in Client, CoveredGiven
<1> QED
  BY ONLY <1>1, <1>3, <1>4 DEF Reshaped


(* What a client hands in begins with the pages its handle covers. *)
LEMMA CoversPages ==
    ASSUME NEW tree, IsTree(tree), NEW n \in DOMAIN tree, NEW ids \in Seq(Token), NEW k \in Nat,
           k <= Len(ids), PathKey(tree, n) = SubSeq(ids, 1, k), Len(PathKey(tree, n)) = k
    PROVE  PathKey(tree, n) \in PagePrefixes(ids) \cup {<<>>}
<1> PICK h, v : h = PathKey(tree, n) /\ v = PathValue(tree, n)
  OBVIOUS
<1>1. h \in Seq(Token) /\ v \in Seq(Page) /\ Len(h) = PageSize * Len(v)
  BY TreeKeys, TreeValues, PathLengths
<1> PICK i \in Nat : i = Len(v)
  BY <1>1, LenProperties
<1> PICK u \in Nat : u = Len(ids)
  BY LenProperties
<1>2. k = PageSize * i /\ k <= u
  BY ONLY <1>1, i = Len(v), u = Len(ids), k <= Len(ids), Len(PathKey(tree, n)) = k,
          h = PathKey(tree, n), Zenon
<1>3. CASE i = 0
  <2>1. k = 0
    BY ONLY <1>2, <1>3, PageSizeAssumption
  <2>2. Len(h) = 0
    BY ONLY <2>1, Len(PathKey(tree, n)) = k, h = PathKey(tree, n)
  <2>3. h = <<>>
    BY ONLY <1>1, <2>2, EmptySeq
  <2> QED
    BY <2>3
<1>4. CASE i # 0
  <2>1. i <= u \div PageSize /\ u \div PageSize \in Nat
    BY ONLY <1>2, i \in Nat, u \in Nat, PageArithmetic
  <2>2. i \in 1..(u \div PageSize)
    BY ONLY <1>4, <2>1, i \in Nat
  <2>3. h = SubSeq(ids, 1, PageSize * i)
    BY ONLY <1>2, PathKey(tree, n) = SubSeq(ids, 1, k), h = PathKey(tree, n), Zenon
  <2>4. h \in PagePrefixes(ids)
    BY ONLY <2>2, <2>3, u = Len(ids), Zenon DEF PagePrefixes
  <2> QED
    BY <2>4
<1> QED
  BY <1>3, <1>4

LEMMA StoreMaps ==
    ASSUME NEW rc, NEW hd, RcInv(rc, hd), Siblings(rc.tree), NEW ids \in Seq(Token),
           NEW c \in Client, hd[c] # NoHandle, NEW fresh, Fits(fresh, rc.tree, ids),
           NEW finished \in BOOLEAN, NEW ins, ins = InsertPrefix(rc, ids, fresh),
           NEW rc2, rc2 = Settled(Stored(ins, hd[c], finished)),
           NEW k, k = IF finished THEN NoHandle ELSE ins.handle, NEW hd2, Gives(hd, c, k, hd2),
           NEW p, p = IF finished THEN NoHandle ELSE Aligned(ids)
    PROVE  /\ Adding(TriePages(rc.tree), TriePages(rc2.tree), ids)
           /\ Gives(Covered(rc.tree, hd), c, p, Covered(rc2.tree, hd2))
<1>1. Inserted(rc, ids, ins, hd)
  BY InsertInv
<1>2. /\ Keeps(rc.tree, ins.radix.tree) /\ Points(ins.handle, ins.radix.tree)
      /\ PathKey(ins.radix.tree, ins.handle.node) = Aligned(ids)
  BY ONLY <1>1, Zenon DEF Inserted
<1>3. Adding(TriePages(rc.tree), TriePages(ins.radix.tree), ids)
  BY InsertTrie
<1>4. Reshaped(ins.radix.tree, rc2.tree)
  BY StoredTrie
<1>5. Adding(TriePages(rc.tree), TriePages(rc2.tree), ids)
  BY ONLY <1>3, <1>4, Zenon DEF Reshaped
<1>6. HandlesIn(rc.tree, hd)
  BY DEF RcInv, CacheInv
<1>7. \A n \in DOMAIN rc.tree : n \in DOMAIN rc2.tree /\ PathKey(rc2.tree, n) = PathKey(rc.tree, n)
  BY ONLY <1>2, <1>4 DEF Keeps, Reshaped
<1>8. Covered(rc2.tree, hd) = Covered(rc.tree, hd) /\ HandlesIn(rc2.tree, hd)
  BY <1>6, <1>7, CoveredKept DEF HandlesIn
<1>9. ins.handle # NoHandle /\ PathKey(rc2.tree, ins.handle.node) = Aligned(ids)
  BY <1>2, <1>4, NoHandleAssumption DEF Points, Handle, Reshaped
<1> PICK tree2 : tree2 = rc2.tree
  OBVIOUS
<1>10. Covered(tree2, [hd EXCEPT ![c] = k])
        = [Covered(tree2, hd) EXCEPT ![c] = IF k = NoHandle THEN NoHandle ELSE PathKey(tree2, k.node)]
  BY ONLY <1>8, tree2 = rc2.tree, c \in Client, CoveredGiven
<1>11. (IF k = NoHandle THEN NoHandle ELSE PathKey(tree2, k.node)) = p
  BY ONLY <1>9, tree2 = rc2.tree, k = IF finished THEN NoHandle ELSE ins.handle,
          p = IF finished THEN NoHandle ELSE Aligned(ids)
<1>12. hd2 = [hd EXCEPT ![c] = k]
  BY ONLY Gives(hd, c, k, hd2), Zenon DEF Gives
<1> QED
  BY ONLY <1>5, <1>8, <1>10, <1>11, <1>12, tree2 = rc2.tree, Zenon DEF Gives

(* The prefixes of a tree's keys are closed, and hold those its handles cover. *)
LEMMA TrieIsClosed ==
    ASSUME NEW tree, IsTree(tree)
    PROVE  PrefixClosed(Prefixes(tree))
<1> SUFFICES ASSUME NEW n \in DOMAIN tree, NEW p \in PagePrefixes(PathKey(tree, n))
             PROVE  PagePrefixes(p) \subseteq Prefixes(tree)
  BY DEF Prefixes, PrefixClosed
<1>1. PathKey(tree, n) \in Seq(Token)
  BY TreeKeys
<1>2. PagePrefixes(p) \subseteq PagePrefixes(PathKey(tree, n))
  BY <1>1, PagePrefixesNest
<1> QED
  BY <1>2 DEF Prefixes

LEMMA EvictMaps ==
    ASSUME NEW rc, NEW hd, RcInv(rc, hd), Siblings(rc.tree), NEW size \in Nat,
           size <= rc.evictable_size, NEW rc2, rc2 = Settled(EvictLoop(rc, size).radix)
    PROVE  /\ Less(TriePages(rc.tree), TriePages(rc2.tree))
           /\ PrefixClosed(DOMAIN TriePages(rc2.tree))
           /\ Covered(rc2.tree, hd) = Covered(rc.tree, hd)
           /\ \A c \in Client : hd[c] # NoHandle =>
                 PagePrefixes(Covered(rc.tree, hd)[c]) \subseteq DOMAIN TriePages(rc2.tree)
<1> PICK e : e = EvictLoop(rc, size)
  OBVIOUS
<1>1. RcInv(e.radix, hd)
  BY EvictInv
<1>2. Siblings(e.radix.tree) /\ Keeps(e.radix.tree, rc.tree)
  BY EvictTrie
<1> PICK tree, tree1, tree2 : tree = rc.tree /\ tree1 = e.radix.tree /\ tree2 = rc2.tree
  OBVIOUS
<1>3. IsTree(tree) /\ IsTree(tree1) /\ HandlesIn(tree1, hd)
  BY <1>1 DEF RcInv, CacheInv
<1>4. Less(TriePages(tree), TriePages(tree1))
  BY <1>2, <1>3, FewerPages
<1>5. Reshaped(tree1, tree2)
  BY <1>1, <1>2, SettledTrie
<1>6. TriePages(tree2) = TriePages(tree1) /\ DOMAIN TriePages(tree1) = Prefixes(tree1)
  <2>1. IsTrie(tree1, TriePages(tree1))
    BY <1>2, <1>3, TriePagesIs
  <2> QED
    BY ONLY <1>5, <2>1 DEF Reshaped, IsTrie
<1>7. PrefixClosed(Prefixes(tree1))
  BY <1>3, TrieIsClosed
<1>8. Covered(tree2, hd) = Covered(tree1, hd)
  BY <1>3, <1>5, CoveredKept DEF Reshaped
<1>9. Covered(tree, hd) = Covered(tree1, hd)
  <2>1. \A n \in DOMAIN tree1 : PathKey(tree, n) = PathKey(tree1, n)
    BY <1>2 DEF Keeps
  <2> QED
    BY <1>3, <2>1, CoveredKept
<1>10. ASSUME NEW c \in Client, hd[c] # NoHandle
       PROVE  PagePrefixes(Covered(tree1, hd)[c]) \subseteq Prefixes(tree1)
  <2>1. Covered(tree1, hd)[c] = PathKey(tree1, hd[c].node) /\ hd[c].node \in DOMAIN tree1
    BY <1>3, <1>10 DEF Covered, HandlesIn
  <2> QED
    BY <2>1 DEF Prefixes
<1> QED
  BY <1>4, <1>6, <1>7, <1>8, <1>9, <1>10


(* What is represented, part by part. *)
MapInv ==
    /\ TrieInv
    /\ represented.cache = TriePages(radix.tree)
    /\ represented.handle = Covered(radix.tree, handle)

LEMMA RepresentedIs ==
    /\ Represented.cache = TriePages(radix.tree)
    /\ Represented.handle = Covered(radix.tree, handle)
BY DEF Represented, Covered

(* The abstract specification's names for what the two share. *)
LEMMA SameNames ==
    /\ \A ids : Abstract!PagePrefixes(ids) = PagePrefixes(ids)
    /\ \A ids : Abstract!Aligned(ids) = Aligned(ids)
    /\ \A S, ids, h : Abstract!IsMatch(S, ids, h) <=> IsMatch(S, ids, h)
    /\ \A S : Abstract!PrefixClosed(S) <=> PrefixClosed(S)
<1>1. \A ids : Abstract!PagePrefixes(ids) = PagePrefixes(ids)
  BY Zenon DEF Abstract!PagePrefixes, PagePrefixes
<1>2. \A ids : Abstract!Aligned(ids) = Aligned(ids)
  BY Zenon DEF Abstract!Aligned, Aligned, Abstract!AlignDown, AlignDown
<1>3. \A S, ids, h : Abstract!IsMatch(S, ids, h) <=> IsMatch(S, ids, h)
  BY <1>1 DEF Abstract!IsMatch, IsMatch
<1>4. \A S : Abstract!PrefixClosed(S) <=> PrefixClosed(S)
  BY <1>1 DEF Abstract!PrefixClosed, PrefixClosed
<1> QED
  BY <1>1, <1>2, <1>3, <1>4

LEMMA MapInit ==
    ASSUME MappedInit
    PROVE  MapInv /\ Abstract!Init
<1>1. TrieInv
  BY InitTrie DEF MappedInit
<1>2. /\ represented.cache = TriePages(radix.tree)
      /\ represented.handle = Covered(radix.tree, handle)
  BY RepresentedIs DEF MappedInit
<1> PICK tree : tree = radix.tree
  OBVIOUS
<1>3. IsTree(tree) /\ Siblings(tree) /\ DOMAIN tree = {Root}
  BY <1>1 DEF TrieInv, Inv, RcInv, CacheInv, MappedInit, Init
<1>4. Prefixes(tree) = {}
  <2>1. PathKey(tree, Root) = <<>>
    BY <1>3, TreeKeys
  <2> QED
    BY <1>3, <2>1, NoPagePrefix DEF Prefixes
<1>5. TriePages(tree) = [p \in {} |-> CHOOSE g \in Page : TRUE]
  <2>1. IsTrie(tree, TriePages(tree))
    BY <1>3, TriePagesIs
  <2> PICK t : t = TriePages(tree)
    OBVIOUS
  <2>2. DOMAIN t = {} /\ t = [p \in DOMAIN t |-> t[p]]
    BY <1>4, <2>1 DEF IsTrie
  <2>3. t = [p \in {} |-> CHOOSE g \in Page : TRUE]
    BY ONLY <2>2
  <2> QED
    BY <2>3
<1>6. handle = [c \in Client |-> NoHandle]
  BY DEF MappedInit, Init
<1>7. Covered(tree, handle) = [c \in Client |-> NoHandle]
  BY <1>6 DEF Covered
<1>8. Abstract!Init
  BY <1>2, <1>5, <1>7 DEF Abstract!Init
<1> QED
  BY <1>1, <1>2, <1>8 DEF MapInv


(* The abstract step for each. *)
LEMMA AbstractAcquire ==
    ASSUME NEW c \in Client, NEW ids \in Input, NEW h,
           represented.handle[c] = NoHandle, IsMatch(DOMAIN represented.cache, ids, h),
           represented'.handle = [represented.handle EXCEPT ![c] = h],
           represented'.cache = represented.cache
    PROVE  Abstract!Next
<1>1. h \in PagePrefixes(ids) \cup {<<>>}
  BY DEF IsMatch
<1>2. h \in Abstract!PagePrefixes(ids) \cup {<<>>} /\ Abstract!IsMatch(Abstract!cached, ids, h)
  BY <1>1, SameNames DEF Abstract!cached
<1>3. Abstract!Acquire(c, ids)
  BY <1>2 DEF Abstract!Acquire
<1> QED
  BY <1>3 DEF Abstract!Next

LEMMA AbstractRelease ==
    ASSUME NEW c \in Client, represented.handle[c] # NoHandle,
           represented'.handle = [represented.handle EXCEPT ![c] = NoHandle],
           represented'.cache = represented.cache
    PROVE  Abstract!Next
<1>1. Abstract!Release(c)
  BY DEF Abstract!Release
<1> QED
  BY <1>1 DEF Abstract!Next

LEMMA AbstractStore ==
    ASSUME NEW c \in Client, NEW ids \in Input, NEW finished \in BOOLEAN,
           represented.handle[c] # NoHandle,
           represented.handle[c] \in PagePrefixes(ids) \cup {<<>>},
           Adding(represented.cache, represented'.cache, ids),
           represented'.handle
              = [represented.handle EXCEPT ![c] = IF finished THEN NoHandle ELSE Aligned(ids)]
    PROVE  Abstract!Next
<1> PICK t, t2 : t = represented.cache /\ t2 = represented'.cache
  OBVIOUS
<1> PICK P : P = PagePrefixes(ids)
  OBVIOUS
<1> PICK pages : pages = [p \in P |-> t2[p]]
  OBVIOUS
<1>1. /\ DOMAIN t2 = DOMAIN t \cup P /\ t2 = [p \in DOMAIN t2 |-> t2[p]]
      /\ \A p \in DOMAIN t : t2[p] = t[p]
      /\ \A p \in P : t2[p] \in Page
      /\ \A p \in P \ DOMAIN t : \A q \in DOMAIN t2 : t2[p] = t2[q] => p = q
  BY Zenon DEF Adding
<1>2. pages \in [P -> Page] /\ \A p \in P : pages[p] = t2[p]
  BY ONLY <1>1, pages = [p \in P |-> t2[p]]
<1>3. \A p \in P \ DOMAIN t : \A q \in DOMAIN t : pages[p] # t[q]
  BY ONLY <1>1, <1>2
<1>4. \A p, q \in P \ DOMAIN t : pages[p] = pages[q] => p = q
  BY ONLY <1>1, <1>2
<1>5. t2 = [p \in DOMAIN t \cup P |-> IF p \in DOMAIN t THEN t[p] ELSE pages[p]]
  BY ONLY <1>1, <1>2
<1>6. P = Abstract!PagePrefixes(ids) /\ Abstract!cached = DOMAIN t /\ Aligned(ids) = Abstract!Aligned(ids)
  BY SameNames DEF Abstract!cached
<1>7. pages \in Abstract!FreshPages(ids)
  BY ONLY <1>2, <1>3, <1>4, <1>6, t = represented.cache DEF Abstract!FreshPages
<1>8. represented'.cache = Abstract!Merged(ids, pages)
  BY ONLY <1>5, <1>6, t = represented.cache, t2 = represented'.cache, Zenon DEF Abstract!Merged
<1>9. Abstract!Store(c, ids, pages, finished)
  BY <1>6, <1>8 DEF Abstract!Store
<1> QED
  BY <1>7, <1>9 DEF Abstract!Next

LEMMA AbstractEvict ==
    ASSUME Less(represented.cache, represented'.cache), PrefixClosed(DOMAIN represented'.cache),
           represented'.handle = represented.handle,
           \A c \in Client : represented.handle[c] # NoHandle =>
              PagePrefixes(represented.handle[c]) \subseteq DOMAIN represented'.cache
    PROVE  Abstract!Next \/ UNCHANGED represented.cache
<1> PICK t, t2 : t = represented.cache /\ t2 = represented'.cache
  OBVIOUS
<1> PICK V : V = DOMAIN t \ DOMAIN t2
  OBVIOUS
<1>1. /\ DOMAIN t2 \subseteq DOMAIN t /\ DOMAIN t2 = DOMAIN t \ V
      /\ t = [p \in DOMAIN t |-> t[p]] /\ t2 = [p \in DOMAIN t2 |-> t[p]]
  BY DEF Less
<1>2. Abstract!cached = DOMAIN t
  BY DEF Abstract!cached
<1>3. CASE V = {}
  <2>1. t2 = t
    BY ONLY <1>1, <1>3
  <2> QED
    BY <2>1
<1>4. CASE V # {}
  <2>1. V \cap Abstract!Protected = {}
    BY <1>1, SameNames DEF Abstract!Protected
  <2>2. Abstract!PrefixClosed(Abstract!cached \ V)
    BY <1>1, <1>2, SameNames
  <2>3. Abstract!Evict(V)
    BY <1>1, <1>2, <1>4, <2>1, <2>2 DEF Abstract!Evict, Abstract!Removable
  <2>4. V \in SUBSET Abstract!cached
    BY <1>2
  <2> QED
    BY <2>3, <2>4 DEF Abstract!Next
<1> QED
  BY <1>3, <1>4


(* Every step is a step of the prefix cache, or invisible to it. *)
LEMMA MapNext ==
    ASSUME MapInv, [MappedNext]_<<vars, represented>>
    PROVE  MapInv' /\ [Abstract!Next]_(Abstract!vars)
<1>0. /\ TrieInv /\ RcInv(radix, handle) /\ Siblings(radix.tree) /\ IsTree(radix.tree)
      /\ HandlesIn(radix.tree, handle)
      /\ represented.cache = TriePages(radix.tree) /\ represented.handle = Covered(radix.tree, handle)
  BY DEF MapInv, TrieInv, Inv, RcInv, CacheInv
<1>1. CASE UNCHANGED <<vars, represented>>
  <2>1. radix' = radix /\ handle' = handle /\ failed' = failed /\ represented' = represented
    BY <1>1 DEF vars
  <2>2. MapInv'
    <3>1. TrieInv'
      BY <1>0, <2>1, NextTrie DEF vars
    <3> QED
      BY <1>0, <2>1, <3>1 DEF MapInv
  <2> QED
    BY <2>1, <2>2 DEF Abstract!vars
<1>2. CASE MappedNext
  <2>1. TrieInv'
    BY <1>0, <1>2, NextTrie DEF MappedNext
  <2>2. /\ represented'.cache = TriePages(radix'.tree)
        /\ represented'.handle = Covered(radix'.tree, handle')
    BY <1>2 DEF MappedNext, Represented, Covered
  <2>3. MapInv'
    BY <2>1, <2>2 DEF MapInv
  <2>4. /\ represented.handle = [b \in Client |-> represented.handle[b]]
        /\ \A b \in Client : handle[b] = NoHandle => represented.handle[b] = NoHandle
        /\ \A b \in Client : handle[b] # NoHandle =>
              /\ represented.handle[b] = PathKey(radix.tree, handle[b].node)
              /\ represented.handle[b] # NoHandle
    BY <1>0, CoveredIs
  <2>5. ASSUME NEW ids \in Input, Match(ids) PROVE UNCHANGED Abstract!vars
    <3>1. radix' = Settled(MatchPrefix(radix, ids).radix) /\ handle' = handle
      BY <2>5, Zenon DEF Match, Settle, Settled
    <3>2. ids \in Seq(Token)
      BY InputAssumption
    <3>3. /\ TriePages(radix'.tree) = TriePages(radix.tree)
          /\ Covered(radix'.tree, handle) = Covered(radix.tree, handle)
      BY <1>0, <3>1, <3>2, MatchMaps
    <3>4. represented'.cache = represented.cache /\ represented'.handle = represented.handle
      BY ONLY <1>0, <2>2, <3>1, <3>3, Zenon
    <3> QED
      BY <3>4 DEF Abstract!vars
  <2>6. ASSUME NEW c \in Client, NEW ids \in Input, Acquire(c, ids) PROVE Abstract!Next
    <3> PICK m : m = MatchPrefix(radix, ids)
      OBVIOUS
    <3>1. /\ handle[c] = NoHandle /\ radix' = Settled(LockHandle(m.radix, m.handle))
          /\ handle' = [handle EXCEPT ![c] = m.handle]
      BY <2>6, Zenon DEF Acquire, Settle, Settled
    <3>2. ids \in Seq(Token)
      BY InputAssumption
    <3>3. /\ TriePages(radix'.tree) = TriePages(radix.tree)
          /\ \E h : /\ IsMatch(DOMAIN TriePages(radix.tree), ids, h)
                    /\ Covered(radix'.tree, [handle EXCEPT ![c] = m.handle])
                         = [Covered(radix.tree, handle) EXCEPT ![c] = h]
      <4> PICK rc, hd, rc2 : rc = radix /\ hd = handle /\ rc2 = radix'
        OBVIOUS
      <4>1. RcInv(rc, hd) /\ Siblings(rc.tree) /\ hd[c] = NoHandle /\ m = MatchPrefix(rc, ids)
            /\ rc2 = Settled(LockHandle(m.radix, m.handle))
        BY ONLY <1>0, <3>1, m = MatchPrefix(radix, ids), rc = radix, hd = handle, rc2 = radix', Zenon
      <4>2. /\ TriePages(rc2.tree) = TriePages(rc.tree)
            /\ \E h : /\ IsMatch(DOMAIN TriePages(rc.tree), ids, h)
                      /\ Covered(rc2.tree, [hd EXCEPT ![c] = m.handle])
                           = [Covered(rc.tree, hd) EXCEPT ![c] = h]
        BY ONLY <3>2, <4>1, c \in Client, AcquireMaps
      <4> QED
        BY ONLY <4>2, rc = radix, hd = handle, rc2 = radix', Zenon
    <3>4. PICK h : /\ IsMatch(DOMAIN represented.cache, ids, h)
                   /\ represented'.handle = [represented.handle EXCEPT ![c] = h]
      BY ONLY <1>0, <2>2, <3>1, <3>3, Zenon
    <3>5. represented'.cache = represented.cache
      BY ONLY <1>0, <2>2, <3>3, Zenon
    <3> QED
      BY <2>4, <3>1, <3>4, <3>5, AbstractAcquire
  <2>7. ASSUME NEW c \in Client, Release(c) PROVE Abstract!Next
    <3>1. /\ handle[c] # NoHandle /\ radix' = Settled(UnlockHandle(radix, handle[c]))
          /\ handle' = [handle EXCEPT ![c] = NoHandle]
      BY <2>7, Zenon DEF Release, Settle, Settled
    <3>2. /\ TriePages(radix'.tree) = TriePages(radix.tree)
          /\ Covered(radix'.tree, [handle EXCEPT ![c] = NoHandle])
               = [Covered(radix.tree, handle) EXCEPT ![c] = NoHandle]
      <4> PICK rc, hd, rc2 : rc = radix /\ hd = handle /\ rc2 = radix'
        OBVIOUS
      <4>1. RcInv(rc, hd) /\ Siblings(rc.tree) /\ hd[c] # NoHandle
            /\ rc2 = Settled(UnlockHandle(rc, hd[c]))
        BY ONLY <1>0, <3>1, rc = radix, hd = handle, rc2 = radix', Zenon
      <4>2. /\ TriePages(rc2.tree) = TriePages(rc.tree)
            /\ Covered(rc2.tree, [hd EXCEPT ![c] = NoHandle])
                 = [Covered(rc.tree, hd) EXCEPT ![c] = NoHandle]
        BY ONLY <4>1, c \in Client, ReleaseMaps
      <4> QED
        BY ONLY <4>2, rc = radix, hd = handle, rc2 = radix', Zenon
    <3>3. /\ represented'.cache = represented.cache
          /\ represented'.handle = [represented.handle EXCEPT ![c] = NoHandle]
      BY ONLY <1>0, <2>2, <3>1, <3>2, Zenon
    <3> QED
      BY <2>4, <3>1, <3>3, AbstractRelease
  <2>8. ASSUME NEW c \in Client, NEW ids \in Input, NEW finished \in BOOLEAN, Store(c, ids, finished)
        PROVE  Abstract!Next
    <3>1. ids \in Seq(Token) /\ handle[c] # NoHandle /\ handle[c].cached_len <= Len(ids)
          /\ PathKey(radix.tree, handle[c].node) = SubSeq(ids, 1, handle[c].cached_len)
      BY <2>8, InputAssumption DEF Store
    <3>2. PICK fresh : /\ Fits(fresh, radix.tree, ids)
                       /\ radix' = Settled(Stored(InsertPrefix(radix, ids, fresh), handle[c], finished))
                       /\ handle' = [handle EXCEPT ![c] = IF finished THEN NoHandle
                                                          ELSE InsertPrefix(radix, ids, fresh).handle]
      BY <2>8, Zenon DEF Store, Settle, Settled, Stored, Fits
    <3>3. /\ Adding(TriePages(radix.tree), TriePages(radix'.tree), ids)
          /\ Covered(radix'.tree, handle')
               = [Covered(radix.tree, handle) EXCEPT ![c] = IF finished THEN NoHandle ELSE Aligned(ids)]
      <4> PICK rc, hd, rc2, hd2 : rc = radix /\ hd = handle /\ rc2 = radix' /\ hd2 = handle'
        OBVIOUS
      <4> PICK ins : ins = InsertPrefix(rc, ids, fresh)
        OBVIOUS
      <4> PICK k, p : /\ k = IF finished THEN NoHandle ELSE ins.handle
                      /\ p = IF finished THEN NoHandle ELSE Aligned(ids)
        OBVIOUS
      <4>1. /\ RcInv(rc, hd) /\ Siblings(rc.tree) /\ hd[c] # NoHandle /\ Fits(fresh, rc.tree, ids)
            /\ rc2 = Settled(Stored(ins, hd[c], finished)) /\ Gives(hd, c, k, hd2)
        BY ONLY <1>0, <3>1, <3>2, ins = InsertPrefix(rc, ids, fresh), rc = radix, hd = handle,
                rc2 = radix', hd2 = handle', k = IF finished THEN NoHandle ELSE ins.handle,
                Zenon DEF Gives
      <4>2. /\ Adding(TriePages(rc.tree), TriePages(rc2.tree), ids)
            /\ Gives(Covered(rc.tree, hd), c, p, Covered(rc2.tree, hd2))
        BY ONLY <3>1, <4>1, c \in Client, finished \in BOOLEAN, ins = InsertPrefix(rc, ids, fresh),
                k = IF finished THEN NoHandle ELSE ins.handle,
                p = IF finished THEN NoHandle ELSE Aligned(ids), StoreMaps
      <4> QED
        BY ONLY <4>2, rc = radix, hd = handle, rc2 = radix', hd2 = handle',
                p = IF finished THEN NoHandle ELSE Aligned(ids), Zenon DEF Gives
    <3>4. PathKey(radix.tree, handle[c].node) \in PagePrefixes(ids) \cup {<<>>}
      <4>1. /\ handle[c].node \in DOMAIN radix.tree /\ handle[c].cached_len \in Nat
            /\ Len(PathKey(radix.tree, handle[c].node)) = handle[c].cached_len
        BY <1>0, <3>1 DEF HandlesIn, Handle
      <4> QED
        BY <1>0, <3>1, <4>1, CoversPages
    <3>5. /\ Adding(represented.cache, represented'.cache, ids)
          /\ represented'.handle
               = [represented.handle EXCEPT ![c] = IF finished THEN NoHandle ELSE Aligned(ids)]
      BY ONLY <1>0, <2>2, <3>3, Zenon
    <3> QED
      BY <2>4, <3>1, <3>4, <3>5, AbstractStore
  <2>9. ASSUME NEW pages \in 1..Cardinality(Page), Evict(pages)
        PROVE  Abstract!Next \/ UNCHANGED Abstract!vars
    <3> PICK size : size = PageSize * pages
      OBVIOUS
    <3>1. /\ size <= radix.evictable_size /\ radix' = Settled(EvictLoop(radix, size).radix)
          /\ handle' = handle
      BY <2>9, Zenon DEF Evict, Settle, Settled
    <3>2. size \in Nat
      <4>1. pages \in Nat
        OBVIOUS
      <4> QED
        BY <4>1, PageSizeAssumption
    <3>3. /\ Less(TriePages(radix.tree), TriePages(radix'.tree))
          /\ PrefixClosed(DOMAIN TriePages(radix'.tree))
          /\ Covered(radix'.tree, handle) = Covered(radix.tree, handle)
          /\ \A c \in Client : handle[c] # NoHandle =>
                PagePrefixes(Covered(radix.tree, handle)[c]) \subseteq DOMAIN TriePages(radix'.tree)
      BY <1>0, <3>1, <3>2, EvictMaps
    <3>4. /\ Less(represented.cache, represented'.cache) /\ PrefixClosed(DOMAIN represented'.cache)
          /\ represented'.handle = represented.handle
          /\ \A c \in Client : handle[c] # NoHandle =>
                PagePrefixes(represented.handle[c]) \subseteq DOMAIN represented'.cache
      BY ONLY <1>0, <2>2, <3>1, <3>3, Zenon
    <3>5. \A c \in Client : represented.handle[c] # NoHandle =>
             PagePrefixes(represented.handle[c]) \subseteq DOMAIN represented'.cache
      BY ONLY <2>4, <3>4, Zenon
    <3>6. Abstract!Next \/ UNCHANGED represented.cache
      BY <3>4, <3>5, AbstractEvict
    <3> QED
      BY <3>4, <3>6 DEF Abstract!vars
  <2>10. Next
    BY <1>2 DEF MappedNext
  <2>11. [Abstract!Next]_(Abstract!vars)
    BY <2>5, <2>6, <2>7, <2>8, <2>9, <2>10 DEF Next
  <2> QED
    BY <2>3, <2>11
<1> QED
  BY <1>1, <1>2

(* The tree implements the prefix cache for any clients, pages and inputs: to who *)
(* uses the cache, a split, a lock and a time stamp are invisible, a match is the  *)
(* longest cached prefix, an insert adds the missing pages and an eviction leaves a *)
(* trie with every locked prefix in it (RadixPrefixCache as a BasePrefixCache).    *)
THEOREM RadixImplementsPrefixCache == MappedSpec => ImplementsPrefixCache
<1>1. MappedInit => MapInv /\ Abstract!Init
  BY MapInit
<1>2. MapInv /\ [MappedNext]_<<vars, represented>> => MapInv' /\ [Abstract!Next]_(Abstract!vars)
  BY MapNext
<1> QED
  BY <1>1, <1>2, PTL DEF MappedSpec, ImplementsPrefixCache, Abstract!Spec



-----------------------------------------------------------------------------
(* The order of use *)

LEMMA OwnPath ==
    ASSUME NEW tree, IsTree(tree)
    PROVE  \A n \in Nodes(tree) : n \in Path(tree, n)
<1> TAKE n \in Nodes(tree)
<1>1. Path(tree, n) = {n} \cup Path(tree, tree[n].parent)
  BY TreePaths
<1> QED
  BY ONLY <1>1

(* Neither is above the other. *)
Apart(tree, g, n) == g \notin Path(tree, n) /\ n \notin Path(tree, g)

(* Two nodes have one time stamp only when one walk marked both, so one is above the *)
(* other; and a node is older than its parent, or no third node was used in between: *)
(* a leaf is made after the walk to its parent, but before anything else happens.    *)
Aged(tree) ==
    /\ \A g, n \in Nodes(tree) : Apart(tree, g, n) => tree[g].time # tree[n].time
    /\ \A g, n \in Nodes(tree) :
          tree[n].parent # Root /\ Apart(tree, g, tree[n].parent) /\ tree[g].time < tree[n].time
             => tree[g].time < tree[tree[n].parent].time

(* Another tree with the same nodes and their times in the same order. *)
LEMMA AgedAlike ==
    ASSUME NEW tree, Aged(tree), NEW tree2, DOMAIN tree2 = DOMAIN tree, IsTree(tree),
           \A n \in DOMAIN tree : tree2[n].parent = tree[n].parent /\ Path(tree2, n) = Path(tree, n),
           \A n, m \in DOMAIN tree : /\ tree2[n].time < tree2[m].time <=> tree[n].time < tree[m].time
                                     /\ tree2[n].time = tree2[m].time => tree[n].time = tree[m].time
    PROVE  Aged(tree2)
<1>1. Nodes(tree2) = Nodes(tree) /\ \A n \in Nodes(tree) : n \in DOMAIN tree /\ tree[n].parent \in DOMAIN tree
  BY TreeKeys DEF Nodes
<1>2. \A g, n \in DOMAIN tree : Apart(tree2, g, n) <=> Apart(tree, g, n)
  BY DEF Apart
<1>3. \A g, n \in Nodes(tree2) : Apart(tree2, g, n) => tree2[g].time # tree2[n].time
  BY <1>1, <1>2 DEF Aged
<1>4. ASSUME NEW g \in Nodes(tree2), NEW n \in Nodes(tree2), tree2[n].parent # Root,
             Apart(tree2, g, tree2[n].parent), tree2[g].time < tree2[n].time
      PROVE  tree2[g].time < tree2[tree2[n].parent].time
  <2>1. /\ g \in DOMAIN tree /\ n \in DOMAIN tree /\ tree2[n].parent = tree[n].parent
        /\ tree[n].parent \in DOMAIN tree
    BY <1>1
  <2>2. tree[g].time < tree[n].time /\ Apart(tree, g, tree[n].parent)
    BY <1>2, <1>4, <2>1
  <2>3. tree[g].time < tree[tree[n].parent].time
    BY <1>1, <1>4, <2>1, <2>2 DEF Aged
  <2> QED
    BY <2>1, <2>3
<1> QED
  BY ONLY <1>3, <1>4, Zenon DEF Aged

(* A path that is marked. *)
LEMMA AgedMarked ==
    ASSUME NEW tree, Aged(tree), NEW tree2, IsTree(tree2), NEW x \in DOMAIN tree2,
           NEW tic \in Nat, NEW Q, Q = Path(tree2, x),
           \A n \in Q : tree2[n].time = tic,
           \A n \in Nodes(tree2) \ Q :
              /\ n \in Nodes(tree) /\ tree2[n].time = tree[n].time /\ tree[n].time < tic
              /\ tree2[n].parent \in Q \/ tree2[n].parent = tree[n].parent,
           \A g, n \in Nodes(tree2) \ Q : Apart(tree2, g, n) => Apart(tree, g, n)
    PROVE  Aged(tree2)
<1>1. \A n \in Q : n \in Nodes(tree2)
  BY TreePaths DEF Nodes
<1>2. \A g, n \in Q : ~Apart(tree2, g, n)
  BY PathIsChain DEF Apart
<1>3. \A n \in Nodes(tree2) : tree2[n].time \in Nat
  BY DEF IsTree, Linked, Node, Nodes
<1>4. \A n \in Nodes(tree2) \ Q : tree2[n].time < tic
  OBVIOUS
<1>5. \A g, n \in Nodes(tree2) : Apart(tree2, g, n) => tree2[g].time # tree2[n].time
  <2> SUFFICES ASSUME NEW g \in Nodes(tree2), NEW n \in Nodes(tree2), Apart(tree2, g, n),
                      tree2[g].time = tree2[n].time
               PROVE  FALSE
    OBVIOUS
  <2>1. CASE g \in Q
    <3>1. n \notin Q /\ tree2[g].time = tic
      BY <1>2, <2>1
    <3>2. tree2[n].time < tic
      BY <1>4, <3>1
    <3> QED
      BY ONLY <3>1, <3>2, tree2[g].time = tree2[n].time, tic \in Nat
  <2>2. CASE n \in Q
    <3>1. g \notin Q /\ tree2[n].time = tic
      BY <1>2, <2>2
    <3>2. tree2[g].time < tic
      BY <1>4, <3>1
    <3> QED
      BY ONLY <3>1, <3>2, tree2[g].time = tree2[n].time, tic \in Nat
  <2>3. CASE g \notin Q /\ n \notin Q
    BY <2>3 DEF Aged
  <2> QED
    BY <2>1, <2>2, <2>3
<1>6. ASSUME NEW g \in Nodes(tree2), NEW n \in Nodes(tree2), NEW p, p = tree2[n].parent, p # Root,
             Apart(tree2, g, p), tree2[g].time < tree2[n].time
      PROVE  tree2[g].time < tree2[p].time
  <2>0. p \in Nodes(tree2)
    BY <1>6, TreeKeys DEF Nodes
  <2>1. CASE p \in Q
    <3>1. g \notin Q /\ tree2[p].time = tic
      BY <1>2, <1>6, <2>1
    <3> QED
      BY <1>4, <3>1
  <2>2. CASE p \notin Q
    <3>1. n \notin Q
      BY <1>6, <2>2, PathsGoUp
    <3>2. g \notin Q
      <4>1. tree2[n].time < tic /\ tree2[g].time \in Nat /\ tree2[n].time \in Nat
        BY <1>3, <1>4, <3>1
      <4>2. tree2[g].time # tic
        BY ONLY <1>6, <4>1, tic \in Nat
      <4> QED
        BY <4>2
    <3>3. p = tree[n].parent /\ Apart(tree, g, p) /\ tree[g].time < tree[n].time
          /\ g \in Nodes(tree) /\ n \in Nodes(tree)
      BY <1>6, <2>0, <2>2, <3>1, <3>2
    <3>4. tree[g].time < tree[p].time
      BY <1>6, <3>3 DEF Aged
    <3> QED
      BY <2>0, <2>2, <3>2, <3>4
  <2> QED
    BY <2>1, <2>2
<1> QED
  BY ONLY <1>5, <1>6, Zenon DEF Aged


(* A new leaf, made after the walk to its parent. *)
LEMMA AgedGrown ==
    ASSUME NEW tree, Aged(tree), IsTree(tree), NEW tree2, NEW new, NEW node,
           new \in Nat \ DOMAIN tree, node.parent \in DOMAIN tree,
           tree2 = Grown(tree, new, node), GrowKeeps(tree, tree2, new, node),
           NEW tic \in Nat,
           \A n \in Path(tree, node.parent) : tree[n].time = tic,
           \A n \in Nodes(tree) \ Path(tree, node.parent) : tree[n].time < tic,
           \A n \in DOMAIN tree : tree[n].time < node.time
    PROVE  Aged(tree2)
<1>1. /\ DOMAIN tree2 = DOMAIN tree \cup {new} /\ tree2[new] = node
      /\ \A n \in DOMAIN tree : tree2[n] = tree[n]
  BY DEF Grown
<1>2. /\ IsTree(tree2) /\ Path(tree2, new) = {new} \cup Path(tree, node.parent)
      /\ \A n \in DOMAIN tree : Path(tree2, n) = Path(tree, n)
  BY DEF GrowKeeps
<1>3. \A n \in Nodes(tree2) : n = new \/ (n # new /\ n \in Nodes(tree) /\ n \in DOMAIN tree)
  BY <1>1 DEF Nodes
<1>4. \A n \in DOMAIN tree2 : tree2[n].time \in Nat
  BY <1>2 DEF IsTree, Linked, Node
<1>5. \A n \in DOMAIN tree : tree2[n].time < tree2[new].time
  BY <1>1
<1>6. \A g, n \in DOMAIN tree : Apart(tree2, g, n) <=> Apart(tree, g, n)
  BY <1>2 DEF Apart
<1>7. ASSUME NEW g \in Nodes(tree2), NEW n \in Nodes(tree2), Apart(tree2, g, n),
             tree2[g].time = tree2[n].time
      PROVE  FALSE
  <2>1. g # n
    BY <1>2, <1>7, OwnPath DEF Apart
  <2>2. CASE g = new
    <3>1. n \in DOMAIN tree /\ tree2[n].time \in Nat
      BY <1>3, <1>1, <1>4, <2>1, <2>2
    <3>2. tree2[n].time < tree2[g].time
      BY <1>5, <2>2, <3>1
    <3> QED
      BY ONLY <1>7, <3>1, <3>2
  <2>3. CASE n = new
    <3>1. g \in DOMAIN tree /\ tree2[g].time \in Nat
      BY <1>3, <1>1, <1>4, <2>1, <2>3
    <3>2. tree2[g].time < tree2[n].time
      BY <1>5, <2>3, <3>1
    <3> QED
      BY ONLY <1>7, <3>1, <3>2
  <2>4. CASE g # new /\ n # new
    BY <1>1, <1>3, <1>6, <1>7, <2>4 DEF Aged
  <2> QED
    BY <2>2, <2>3, <2>4
<1>8. ASSUME NEW g \in Nodes(tree2), NEW n \in Nodes(tree2), tree2[n].parent # Root,
             Apart(tree2, g, tree2[n].parent), tree2[g].time < tree2[n].time
      PROVE  tree2[g].time < tree2[tree2[n].parent].time
  <2> PICK p : p = tree2[n].parent
    OBVIOUS
  <2>1. g # new
    <3> SUFFICES ASSUME g = new PROVE FALSE
      OBVIOUS
    <3>1. n \in DOMAIN tree2 /\ tree2[n].time \in Nat /\ tree2[g].time \in Nat
      BY <1>4 DEF Nodes
    <3>2. n # new
      BY ONLY <1>8, <3>1, g = new
    <3>3. tree2[n].time < tree2[g].time
      BY <1>3, <1>5, <3>2
    <3> QED
      BY ONLY <1>8, <3>1, <3>3
  <2>2. g \in Nodes(tree) /\ g \in DOMAIN tree
    BY <1>3, <2>1
  <2>3. CASE n = new
    <3>1. p = node.parent /\ p \in DOMAIN tree /\ p # Root
      BY <1>1, <1>8, <2>3
    <3>2. p \in Path(tree, p)
      BY <3>1, OwnPath DEF Nodes
    <3>3. Apart(tree, g, p)
      BY <1>6, <1>8, <2>2, <3>1
    <3>4. tree[g].time < tic /\ tree[p].time = tic
      BY <2>2, <3>1, <3>2, <3>3 DEF Apart
    <3> QED
      BY <1>1, <2>2, <3>1, <3>4
  <2>4. CASE n # new
    <3>1. n \in Nodes(tree) /\ n \in DOMAIN tree /\ p = tree[n].parent /\ p \in DOMAIN tree
      BY <1>1, <1>3, <2>4, TreeKeys
    <3>2. tree[g].time < tree[n].time /\ Apart(tree, g, p) /\ p # Root
      BY <1>1, <1>6, <1>8, <2>2, <3>1
    <3>3. tree[g].time < tree[p].time
      BY <2>2, <3>1, <3>2 DEF Aged
    <3> QED
      BY <1>1, <2>2, <3>1, <3>3
  <2> QED
    BY <2>3, <2>4
<1> QED
  BY ONLY <1>7, <1>8, Zenon DEF Aged

(* Fewer nodes. *)
LEMMA AgedShrunk ==
    ASSUME NEW tree, Aged(tree), NEW tree2, IsTree(tree2), DOMAIN tree2 \subseteq DOMAIN tree,
           \A n \in DOMAIN tree2 : tree2[n] = tree[n] /\ Path(tree2, n) = Path(tree, n)
    PROVE  Aged(tree2)
<1>1. \A n \in Nodes(tree2) : /\ n \in DOMAIN tree2 /\ n \in Nodes(tree)
                              /\ tree2[n].parent \in DOMAIN tree2
  BY TreeKeys DEF Nodes
<1>2. \A g, n \in DOMAIN tree2 : Apart(tree2, g, n) <=> Apart(tree, g, n)
  BY DEF Apart
<1>3. \A g, n \in Nodes(tree2) : Apart(tree2, g, n) => tree2[g].time # tree2[n].time
  BY <1>1, <1>2 DEF Aged
<1>4. ASSUME NEW g \in Nodes(tree2), NEW n \in Nodes(tree2), tree2[n].parent # Root,
             Apart(tree2, g, tree2[n].parent), tree2[g].time < tree2[n].time
      PROVE  tree2[g].time < tree2[tree2[n].parent].time
  <2>1. /\ g \in DOMAIN tree2 /\ n \in DOMAIN tree2 /\ g \in Nodes(tree) /\ n \in Nodes(tree)
        /\ tree2[n].parent = tree[n].parent /\ tree2[n].parent \in DOMAIN tree2
    BY <1>1
  <2>2. tree[g].time < tree[n].time /\ Apart(tree, g, tree[n].parent) /\ tree[n].parent # Root
    BY <1>2, <1>4, <2>1
  <2>3. tree[g].time < tree[tree[n].parent].time
    BY <2>1, <2>2 DEF Aged
  <2> QED
    BY <2>1, <2>3
<1> QED
  BY ONLY <1>3, <1>4, Zenon DEF Aged

(* Ranks are in the order of the times. *)
LEMMA RanksOrdered ==
    ASSUME NEW tree, IsTree(tree)
    PROVE  \A n, m \in DOMAIN tree :
              /\ Ranked(tree)[n].time < Ranked(tree)[m].time <=> tree[n].time < tree[m].time
              /\ Ranked(tree)[n].time = Ranked(tree)[m].time => tree[n].time = tree[m].time
<1> DEFINE Before(n) == {t \in Times(tree) : t < tree[n].time}
<1>0. \A n \in DOMAIN tree : tree[n].time \in Nat /\ tree[n].time \in Times(tree)
  BY DEF IsTree, Linked, Node, Times
<1>1. Times(tree) \subseteq Nat
  BY TimesAre
<1>2. \A n \in DOMAIN tree : IsFiniteSet(Before(n)) /\ Cardinality(Before(n)) \in Nat
  <2> TAKE n \in DOMAIN tree
  <2>1. Before(n) \in SUBSET Times(tree)
    OBVIOUS
  <2> QED
    BY <2>1, TimesAre, FS_Subset, FS_CardinalityType
<1>3. ASSUME NEW n \in DOMAIN tree, NEW m \in DOMAIN tree, tree[n].time < tree[m].time
      PROVE  Cardinality(Before(n)) < Cardinality(Before(m))
  <2>1. Before(n) \in SUBSET Before(m)
    BY <1>0, <1>1, <1>3
  <2>2. tree[n].time \in Before(m) /\ tree[n].time \notin Before(n)
    BY <1>0, <1>3
  <2>3. Cardinality(Before(n)) <= Cardinality(Before(m)) /\ Cardinality(Before(m)) # Cardinality(Before(n))
    <3> HIDE DEF Before
    <3> QED
      BY <1>2, <2>1, <2>2, FS_Subset
  <2> HIDE DEF Before
  <2> QED
    BY <1>2, <2>3
<1>4. \A n \in DOMAIN tree : Ranked(tree)[n].time = Cardinality(Before(n))
  <2> TAKE n \in DOMAIN tree
  <2> PICK rank : rank = [i \in DOMAIN tree |-> Cardinality({t \in Times(tree) : t < tree[i].time})]
    OBVIOUS
  <2>1. Ranked(tree) = [i \in DOMAIN tree |-> [tree[i] EXCEPT !.time = rank[i]]]
    BY DEF Ranked, Times
  <2> PICK q \in Node : q = tree[n]
    BY DEF IsTree, Linked
  <2>2. Ranked(tree)[n] = [q EXCEPT !.time = rank[n]]
    BY <2>1
  <2>3. Ranked(tree)[n].time = rank[n]
    BY ONLY <2>2, q \in Node DEF Node
  <2>4. rank[n] = Cardinality(Before(n))
    OBVIOUS
  <2> QED
    BY ONLY <2>3, <2>4, Zenon
<1> HIDE DEF Before
<1> SUFFICES ASSUME NEW n \in DOMAIN tree, NEW m \in DOMAIN tree
             PROVE  /\ Ranked(tree)[n].time < Ranked(tree)[m].time <=> tree[n].time < tree[m].time
                    /\ Ranked(tree)[n].time = Ranked(tree)[m].time => tree[n].time = tree[m].time
  OBVIOUS
<1> PICK a, b, x, y : /\ a = Cardinality(Before(n)) /\ b = Cardinality(Before(m))
                      /\ x = tree[n].time /\ y = tree[m].time
  OBVIOUS
<1>5. x \in Nat /\ y \in Nat /\ a \in Nat /\ b \in Nat
  BY <1>0, <1>2
<1>6. (x < y => a < b) /\ (y < x => b < a)
  BY <1>3
<1>7. x = y => a = b
  <2> SUFFICES ASSUME x = y PROVE a = b
    OBVIOUS
  <2>1. Before(n) = Before(m)
    BY ONLY x = y, x = tree[n].time, y = tree[m].time DEF Before
  <2> QED
    BY <2>1
<1>8. (a < b <=> x < y) /\ (a = b => x = y)
  BY ONLY <1>5, <1>6, <1>7
<1> QED
  BY <1>4, <1>8

LEMMA AgedSettled ==
    ASSUME NEW rc, NEW hd, RcInv(rc, hd), Aged(rc.tree)
    PROVE  Aged(Settled(rc).tree)
<1> PICK tree, tree2 : tree = rc.tree /\ tree2 = Ranked(tree)
  OBVIOUS
<1>1. IsTree(tree)
  BY DEF RcInv, CacheInv
<1>2. Settled(rc).tree = tree2 /\ IsTree(tree2)
  BY SettledInv DEF RcInv, CacheInv
<1>3. SameShape(tree, tree2)
  BY <1>1, RankedIs
<1>4. tree2 \in [DOMAIN tree2 -> Node] /\ tree2[Root].ref_count = 1
  BY <1>2 DEF IsTree, Linked
<1>5. \A n \in DOMAIN tree : Path(tree2, n) = Path(tree, n)
  BY <1>1, <1>3, <1>4, ShapeKept
<1>6. DOMAIN tree2 = DOMAIN tree /\ \A n \in DOMAIN tree : tree2[n].parent = tree[n].parent
  BY <1>3 DEF SameShape
<1>7. \A n, m \in DOMAIN tree : /\ tree2[n].time < tree2[m].time <=> tree[n].time < tree[m].time
                                /\ tree2[n].time = tree2[m].time => tree[n].time = tree[m].time
  BY <1>1, RanksOrdered
<1>8. Aged(tree2)
  BY <1>1, <1>5, <1>6, <1>7, AgedAlike
<1> QED
  BY <1>2, <1>8


(* A walk has marked the path that it is on, and that alone. *)
Marked(w, tic) ==
    /\ Aged(w.tree)
    /\ \A n \in Path(w.tree, w.node) : w.tree[n].time = tic
    /\ \A n \in Nodes(w.tree) \ Path(w.tree, w.node) : w.tree[n].time < tic

LEMMA DescendMarks ==
    ASSUME NEW w, NEW ids, NEW tic \in Nat, Marked(w, tic), NEW w2, NEW m,
           Descended(w, ids, tic, w2, m)
    PROVE  Marked(w2, tic)
<1> PICK tree, tree2 : tree = w.tree /\ tree2 = w2.tree
  OBVIOUS
<1>1. /\ IsTree(tree) /\ IsTree(tree2) /\ StampedAt(tree, tree2, m, tic) /\ DOMAIN tree2 = DOMAIN tree
      /\ m \in Nodes(tree) /\ tree[m].parent = w.node /\ w2.node = m
  BY DEF Descended
<1>2. \A k \in DOMAIN tree : Path(tree2, k) = Path(tree, k)
  BY DEF Descended
<1>3. \A k \in DOMAIN tree : /\ tree2[k].time = IF k = m THEN tic ELSE tree[k].time
                             /\ tree2[k].parent = tree[k].parent
  BY <1>1 DEF StampedAt, SameShape
<1>4. /\ Aged(tree) /\ \A n \in Path(tree, w.node) : tree[n].time = tic
      /\ \A n \in Nodes(tree) \ Path(tree, w.node) : tree[n].time < tic
  BY DEF Marked
<1> PICK Q : Q = Path(tree2, m)
  OBVIOUS
<1>5. Q = {m} \cup Path(tree, w.node) /\ m \in DOMAIN tree2 /\ Nodes(tree2) = Nodes(tree)
      /\ Q \subseteq DOMAIN tree
  <2>1. Path(tree, m) = {m} \cup Path(tree, tree[m].parent)
    BY <1>1, TreePaths
  <2>2. Path(tree, m) \subseteq Nodes(tree)
    BY <1>1, TreePaths DEF Nodes
  <2> QED
    BY <1>1, <1>2, <2>1, <2>2 DEF Nodes
<1>6. \A n \in Q : tree2[n].time = tic
  BY ONLY <1>3, <1>4, <1>5
<1>7. \A n \in Nodes(tree2) \ Q : /\ n \in Nodes(tree) /\ tree2[n].time = tree[n].time /\ tree[n].time < tic
                                  /\ tree2[n].parent \in Q \/ tree2[n].parent = tree[n].parent
  BY ONLY <1>3, <1>4, <1>5 DEF Nodes
<1>8. \A g, n \in Nodes(tree2) \ Q : Apart(tree2, g, n) => Apart(tree, g, n)
  BY ONLY <1>2, <1>5 DEF Apart, Nodes
<1>9. Aged(tree2)
  BY ONLY <1>1, <1>4, <1>5, <1>6, <1>7, <1>8, tic \in Nat, Q = Path(tree2, m), AgedMarked
<1>10. \A n \in Nodes(tree2) \ Q : tree2[n].time < tic
  BY ONLY <1>7
<1> QED
  BY ONLY <1>1, <1>6, <1>9, <1>10, tree2 = w2.tree, Q = Path(tree2, m), Zenon DEF Marked

LEMMA SplitMarks ==
    ASSUME NEW w, NEW ids, NEW tic \in Nat, Marked(w, tic), NEW w2, NEW n, NEW pos,
           SplitOff(w, ids, tic, w2, n, pos)
    PROVE  Marked(w2, tic)
<1> PICK tree, tree2, new : tree = w.tree /\ tree2 = w2.tree /\ new = w2.node
  OBVIOUS
<1>1. Cut(tree, tree2, n, new, pos, tic) /\ tree[n].parent = w.node
  BY DEF SplitOff
<1>2. /\ IsTree(tree) /\ IsTree(tree2) /\ new \in Nat \ DOMAIN tree
      /\ DOMAIN tree2 = DOMAIN tree \cup {new} /\ n \in Nodes(tree)
      /\ Path(tree2, new) = {new} \cup Path(tree, w.node)
      /\ tree2[n].parent = new /\ tree2[new].time = tic
  BY <1>1 DEF Cut
<1>3. \A m \in DOMAIN tree : Path(tree, m) \subseteq Path(tree2, m)
  BY <1>1 DEF Cut
<1>4. \A m \in DOMAIN tree : /\ tree2[m].time = tree[m].time
                             /\ m # n => tree2[m].parent = tree[m].parent
  BY <1>1 DEF Cut
<1>5. /\ Aged(tree) /\ \A m \in Path(tree, w.node) : tree[m].time = tic
      /\ \A m \in Nodes(tree) \ Path(tree, w.node) : tree[m].time < tic
  BY DEF Marked
<1> PICK Q : Q = Path(tree2, new)
  OBVIOUS
<1>6. /\ Q = {new} \cup Path(tree, w.node) /\ new \in DOMAIN tree2 /\ Path(tree, w.node) \subseteq DOMAIN tree
      /\ \A m \in Nodes(tree2) \ Q : m \in Nodes(tree) /\ m \in DOMAIN tree
  <2>1. w.node \in DOMAIN tree
    BY <1>1, <1>2, TreeKeys
  <2>2. Path(tree, w.node) \subseteq Nodes(tree)
    BY <1>2, <2>1, TreePaths
  <2> QED
    BY <1>2, <2>2 DEF Nodes
<1>7. \A m \in Q : tree2[m].time = tic
  BY ONLY <1>2, <1>4, <1>5, <1>6
<1>8. \A m \in Nodes(tree2) \ Q : /\ m \in Nodes(tree) /\ tree2[m].time = tree[m].time /\ tree[m].time < tic
                                  /\ tree2[m].parent \in Q \/ tree2[m].parent = tree[m].parent
  BY ONLY <1>2, <1>4, <1>5, <1>6
<1>9. \A g, m \in Nodes(tree2) \ Q : Apart(tree2, g, m) => Apart(tree, g, m)
  BY ONLY <1>3, <1>6 DEF Apart
<1>10. Aged(tree2)
  BY <1>2, <1>5, <1>6, <1>7, <1>8, <1>9, AgedMarked
<1>11. \A m \in Nodes(tree2) \ Q : tree2[m].time < tic
  BY ONLY <1>8
<1> QED
  BY ONLY <1>7, <1>10, <1>11, tree2 = w2.tree, new = w2.node, Q = Path(tree2, new), Zenon DEF Marked

LEMMA WalkMarks ==
    ASSUME NEW tree, NEW ids \in Seq(Token), NEW ev, NEW pr, NEW hd, CacheInv(tree, ev, pr, hd),
           Aged(tree), NEW w, w = TreeWalk(tree, ids)
    PROVE  Marked(w, Now(tree)) /\ Now(tree) \in Nat
<1>0. IsTree(tree)
  BY DEF CacheInv
<1> PICK tic \in Nat : tic = Now(tree)
  BY <1>0, NowIsLater
<1>1. PICK f, N : N \in Nat /\ N = Len(ids) /\ Rounds(f, N, tree, ids, ev, pr, hd)
  BY WalkRounds
<1> DEFINE S == {k \in 0..N : Marked(f[k], tic)}
<1>2. /\ TreeWalk(tree, ids) = f[N] /\ f[0] = AtRoot(tree)
      /\ \A k \in 1..N : f[k] = WalkStep(f[k - 1], ids, Now(tree))
      /\ \A k \in 0..N : Walking(f[k], tree, ids, k, ev, pr, hd)
  BY ONLY <1>1, Zenon DEF Rounds
<1>3. 0 \in S
  <2>1. f[0].tree = tree /\ f[0].node = Root
    BY <1>2 DEF AtRoot
  <2>2. Path(tree, Root) = {} /\ \A n \in Nodes(tree) : tree[n].time < tic
    BY <1>0, TreePaths, NowIsLater DEF Nodes
  <2>3. Marked(f[0], tic)
    BY <2>1, <2>2 DEF Marked
  <2> QED
    BY <1>1, <2>3
<1>4. ASSUME NEW k \in 1..N, k - 1 \in S PROVE k \in S
  <2> PICK v : v = f[k - 1]
    OBVIOUS
  <2> PICK v2 : v2 = f[k]
    OBVIOUS
  <2>1. k \in 0..N /\ k - 1 \in 0..N
    BY <1>1
  <2>2. Marked(v, tic)
    BY <1>4
  <2>3. CacheInv(v.tree, ev, pr, hd) /\ Arrived(v, ids)
    BY <1>2, <2>1 DEF Walking
  <2>4. IsTree(v.tree)
    BY <2>3 DEF CacheInv
  <2>5. v2 = WalkStep(v, ids, tic)
    BY <1>2
  <2>6. \/ Stuck(v, ids) /\ v2 = v
        \/ ~Stuck(v, ids) /\ \E m : Descends(v, ids, tic, v2, m)
        \/ ~Stuck(v, ids) /\ \E m, pos : Splits(v, ids, tic, v2, m, pos)
    BY ONLY <2>3, <2>4, <2>5, tic \in Nat, ids \in Seq(Token), WalkStepIs
  <2>7. CASE v2 = v
    BY <2>1, <2>2, <2>7
  <2>8. ASSUME NEW m, Descends(v, ids, tic, v2, m) PROVE Marked(v2, tic)
    <3>1. Descended(v, ids, tic, v2, m)
      BY ONLY <2>4, <2>8, tic \in Nat, ids \in Seq(Token), DescendedIs
    <3> QED
      BY ONLY <2>2, <3>1, tic \in Nat, DescendMarks
  <2>9. ASSUME NEW m, NEW pos, Splits(v, ids, tic, v2, m, pos) PROVE Marked(v2, tic)
    <3>1. SplitOff(v, ids, tic, v2, m, pos)
      BY ONLY <2>4, <2>9, tic \in Nat, ids \in Seq(Token), SplitOffIs
    <3> QED
      BY ONLY <2>2, <3>1, tic \in Nat, SplitMarks
  <2> QED
    BY <2>1, <2>6, <2>7, <2>8, <2>9
<1>5. \A k \in 0..N : k \in S
  <2> HIDE DEF S
  <2> QED
    BY <1>1, <1>3, <1>4, UpTo
<1> QED
  BY <1>1, <1>2, <1>5

LEMMA InsertAged ==
    ASSUME NEW rc, NEW hd, RcInv(rc, hd), Aged(rc.tree), NEW ids \in Seq(Token),
           NEW fresh, Fits(fresh, rc.tree, ids),
           NEW ins, ins = InsertPrefix(rc, ids, fresh)
    PROVE  Aged(ins.radix.tree)
<1> PICK al : al = Aligned(ids)
  OBVIOUS
<1> PICK w : w = TreeWalk(rc.tree, al)
  OBVIOUS
<1> PICK tree2 : tree2 = ins.radix.tree
  OBVIOUS
<1>1. al \in Seq(Token)
  BY AlignedIs
<1>2. CacheInv(rc.tree, rc.evictable_size, rc.protected_size, hd)
  BY DEF RcInv
<1> PICK tic \in Nat : tic = Now(rc.tree)
  BY <1>1, <1>2, WalkMarks
<1>3. Marked(w, tic) /\ IsTree(w.tree) /\ w.node \in DOMAIN w.tree
  <2>1. CacheInv(w.tree, rc.evictable_size, rc.protected_size, hd) /\ Arrived(w, al)
    BY ONLY <1>1, <1>2, w = TreeWalk(rc.tree, al), WalkKeeps
  <2>2. Marked(w, tic)
    BY <1>1, <1>2, WalkMarks
  <2> QED
    BY <2>1, <2>2 DEF CacheInv, Arrived
<1>4. Inserts(w, al, fresh, tree2)
  BY InsertInv
<1>5. Aged(w.tree)
  BY <1>3 DEF Marked
<1>6. ASSUME NEW new, NEW node, Leaf(w, Rest(w, al), fresh, tree2, new, node)
      PROVE  Aged(tree2)
  <2>1. /\ new \in Nat \ DOMAIN w.tree /\ node.parent = w.node
        /\ tree2 = Grown(w.tree, new, node) /\ GrowKeeps(w.tree, tree2, new, node)
        /\ node.time = Now(w.tree)
    BY ONLY <1>6, Zenon DEF Leaf
  <2>2. \A n \in DOMAIN w.tree : w.tree[n].time < node.time
    BY <1>3, <2>1, NowIsLater
  <2>3. /\ \A n \in Path(w.tree, node.parent) : w.tree[n].time = tic
        /\ \A n \in Nodes(w.tree) \ Path(w.tree, node.parent) : w.tree[n].time < tic
    BY <1>3, <2>1 DEF Marked
  <2> PICK tree : tree = w.tree
    OBVIOUS
  <2>4. Aged(tree2)
    BY <1>3, <1>5, <2>1, <2>2, <2>3, AgedGrown
  <2> QED
    BY <2>4
<1>7. Aged(tree2)
  BY ONLY <1>4, <1>5, <1>6, Zenon DEF Inserts
<1> QED
  BY <1>7


(* A path holds the paths of its nodes. *)
LEMMA PathInPath ==
    ASSUME NEW tree, IsTree(tree), NEW n \in DOMAIN tree, NEW x \in Path(tree, n)
    PROVE  Path(tree, x) \subseteq Path(tree, n)
<1> DEFINE S == {k \in DOMAIN tree : \A a \in Path(tree, k) : Path(tree, a) \subseteq Path(tree, k)}
<1>1. Root \in S
  BY TreeKeys, TreePaths
<1>2. \A k \in Nodes(tree) : tree[k].parent \in S => k \in S
  <2> SUFFICES ASSUME NEW k \in Nodes(tree), tree[k].parent \in S, NEW a \in Path(tree, k)
               PROVE  Path(tree, a) \subseteq Path(tree, k)
    BY TreeKeys
  <2>1. Path(tree, k) = {k} \cup Path(tree, tree[k].parent)
    BY TreePaths
  <2> QED
    BY <2>1
<1>3. DOMAIN tree \subseteq S
  <2> HIDE DEF S
  <2> QED
    BY <1>1, <1>2, OnTree
<1> QED
  BY <1>3

(* The path to a node spells more than the path to its parent. *)
LEMMA KeysGrow ==
    ASSUME NEW tree, IsTree(tree), NEW m \in Nodes(tree)
    PROVE  Len(PathKey(tree, tree[m].parent)) < Len(PathKey(tree, m))
<1> PICK n : n = tree[m].parent
  OBVIOUS
<1> PICK a, b : a = PathKey(tree, n) /\ b = tree[m].key
  OBVIOUS
<1>1. a \in Seq(Token) /\ b \in Seq(Token) /\ b # <<>>
  <2>1. tree[m] \in Node /\ tree[m].key # <<>>
    BY DEF IsTree, Linked, Nodes
  <2> QED
    BY <2>1, TreeKeys DEF Node
<1>2. PathKey(tree, m) = a \o b
  BY TreeKeys
<1>3. Len(a \o b) = Len(a) + Len(b)
  BY ONLY <1>1, ConcatProperties
<1>4. Len(b) \in Nat \ {0} /\ Len(a) \in Nat
  BY ONLY <1>1, LenProperties, EmptySeq
<1>5. Len(a) < Len(PathKey(tree, m))
  BY ONLY <1>2, <1>3, <1>4
<1> QED
  BY <1>5

(* Nothing is below a leaf. *)
LEMMA BelowLeaf ==
    ASSUME NEW tree, IsTree(tree), NEW n \in Nodes(tree), IsLeaf(tree, n),
           NEW m \in DOMAIN tree, n \in Path(tree, m)
    PROVE  m = n
<1> SUFFICES ASSUME m # n PROVE FALSE
  OBVIOUS
<1>1. \E k \in Children(tree, n) : k \in Path(tree, m)
  BY ChildAbove DEF Below
<1> QED
  BY <1>1 DEF IsLeaf

(* The oldest leaf is older than every free node that is not above it: were such a *)
(* node older, the lowest node below it that is older would have a child that is     *)
(* not, and that child would be younger than the leaf, but not the parent.           *)
LEMMA OldestLeaf ==
    ASSUME NEW tree, IsTree(tree), Aged(tree), NEW hd, HandlesIn(tree, hd), Counted(tree, hd),
           NEW n \in Nodes(tree), n \in EvictableLeaves(tree),
           \A m \in EvictableLeaves(tree) : tree[n].time <= tree[m].time,
           NEW kept \in Free(tree), kept \notin Path(tree, n)
    PROVE  tree[n].time < tree[kept].time
<1>1. IsLeaf(tree, n)
  BY DEF EvictableLeaves
<1>2. \A m \in Nodes(tree) : m \in DOMAIN tree /\ tree[m].time \in Nat /\ m # Root
  BY DEF IsTree, Linked, Node, Nodes
<1>3. kept \in Nodes(tree) /\ kept # n /\ kept \in Path(tree, kept)
  BY OwnPath DEF Free
(* A node below kept is apart from n. *)
<1>4. ASSUME NEW x \in Nodes(tree), kept \in Path(tree, x)
      PROVE  Apart(tree, n, x)
  <2>1. n \notin Path(tree, x)
    <3> SUFFICES ASSUME n \in Path(tree, x) PROVE FALSE
      OBVIOUS
    <3>1. x = n
      BY <1>1, <1>2, BelowLeaf
    <3> QED
      BY <1>4, <3>1
  <2>2. x \notin Path(tree, n)
    <3> SUFFICES ASSUME x \in Path(tree, n) PROVE FALSE
      OBVIOUS
    <3>1. Path(tree, x) \subseteq Path(tree, n)
      BY <1>2, PathInPath
    <3> QED
      BY <1>4, <3>1
  <2> QED
    BY <2>1, <2>2 DEF Apart
<1> SUFFICES ASSUME ~(tree[n].time < tree[kept].time) PROVE FALSE
  OBVIOUS
<1> DEFINE S == {x \in Free(tree) : kept \in Path(tree, x) /\ tree[x].time < tree[n].time}
<1>5. kept \in S
  <2>1. tree[kept].time # tree[n].time
    BY <1>3, <1>4 DEF Aged
  <2> QED
    BY <1>2, <1>3, <2>1
<1>6. \A x \in S : \E m \in S : Len(PathKey(tree, x)) < Len(PathKey(tree, m))
  <2> TAKE x \in S
  <2>1. x \in Free(tree) /\ x \in Nodes(tree) /\ kept \in Path(tree, x) /\ tree[x].time < tree[n].time
    BY DEF Free
  <2>2. ~IsLeaf(tree, x)
    <3> SUFFICES ASSUME IsLeaf(tree, x) PROVE FALSE
      OBVIOUS
    <3>1. x \in EvictableLeaves(tree)
      BY <1>2, <2>1 DEF EvictableLeaves, Free
    <3>2. tree[n].time <= tree[x].time /\ tree[n].time \in Nat /\ tree[x].time \in Nat
      BY <1>2, <2>1, <3>1
    <3> QED
      BY ONLY <2>1, <3>2
  <2>3. PICK m \in Children(tree, x) : TRUE
    BY <2>2 DEF IsLeaf
  <2>4. m \in Free(tree) /\ m \in Nodes(tree) /\ tree[m].parent = x
    BY <2>1, <2>3, FreeBelow DEF Children, Nodes
  <2>5. kept \in Path(tree, m)
    <3>1. Path(tree, m) = {m} \cup Path(tree, tree[m].parent)
      BY <2>4, TreePaths
    <3> QED
      BY ONLY <2>1, <2>4, <3>1
  <2>6. tree[m].time < tree[n].time
    <3> SUFFICES ASSUME ~(tree[m].time < tree[n].time) PROVE FALSE
      OBVIOUS
    <3>1. Apart(tree, n, m) /\ Apart(tree, n, x)
      BY <1>4, <2>1, <2>4, <2>5
    <3>2. tree[n].time # tree[m].time
      BY <2>4, <3>1 DEF Aged
    <3>3. tree[n].time < tree[m].time
      BY <1>2, <2>4, <3>2
    <3>4. tree[m].parent # Root
      BY <1>2, <2>1, <2>4
    <3>5. tree[n].time < tree[x].time
      BY <2>4, <3>1, <3>3, <3>4 DEF Aged
    <3>6. tree[n].time \in Nat /\ tree[x].time \in Nat
      BY <1>2, <2>1
    <3> QED
      BY ONLY <2>1, <3>5, <3>6
  <2>7. m \in S
    BY <2>4, <2>5, <2>6
  <2>8. Len(PathKey(tree, x)) < Len(PathKey(tree, m))
    BY <1>2, <2>4, KeysGrow
  <2> QED
    BY <2>7, <2>8
<1>7. S \subseteq DOMAIN tree
  BY DEF Free, Nodes
<1> HIDE DEF S
<1> PICK f : f = [x \in S |-> Len(PathKey(tree, x))]
  OBVIOUS
<1> PICK L : L = {f[x] : x \in S}
  OBVIOUS
<1>8. IsFiniteSet(L) /\ L \subseteq Nat /\ L # {}
  <2>1. IsFiniteSet(S)
    BY <1>7, FS_Subset DEF IsTree, Linked
  <2>2. f = [x \in S |-> f[x]]
    OBVIOUS
  <2>3. IsFiniteSet(L)
    BY ONLY <2>1, <2>2, L = {f[x] : x \in S}, ImageCount
  <2>4. \A x \in S : f[x] \in Nat
    BY <1>7, TreeKeys, LenProperties
  <2> QED
    BY <1>5, <2>3, <2>4
<1>9. PICK x \in S : \A m \in S : f[m] <= f[x]
  BY ONLY <1>8, L = {f[x] : x \in S}, MaxIs
<1>10. PICK m \in S : f[x] < f[m]
  BY <1>6, <1>9
<1>11. f[m] <= f[x] /\ f[m] \in Nat /\ f[x] \in Nat
  BY <1>8, <1>9
<1> QED
  BY ONLY <1>10, <1>11


(* After some rounds: what is gone is older than what is free and left, its ancestors *)
(* aside.                                                                              *)
Older(tree, tree2) ==
    /\ DOMAIN tree2 \subseteq DOMAIN tree
    /\ \A n \in DOMAIN tree2 : tree2[n] = tree[n] /\ Path(tree2, n) = Path(tree, n)
    /\ \A gone \in DOMAIN tree \ DOMAIN tree2 :
         \A kept \in DOMAIN tree2 \ Path(tree, gone) :
            tree[kept].ref_count = 0 => tree[gone].time < tree[kept].time

EvictedOldest(e, tree, hd) ==
    Evicting(e, hd) /\ Aged(e.radix.tree) /\ Older(tree, e.radix.tree)

LEMMA EvictsOldestOn ==
    ASSUME NEW e, NEW tree, NEW hd, EvictedOldest(e, tree, hd)
    PROVE  EvictedOldest(EvictStep(e), tree, hd)
<1> PICK e2 : e2 = EvictStep(e)
  OBVIOUS
<1>1. Evicting(e, hd) /\ Aged(e.radix.tree) /\ Older(tree, e.radix.tree)
  BY DEF EvictedOldest
<1>2. /\ Evicting(e2, hd)
      /\ \/ e.size <= 0 /\ e2 = e
         \/ ~(e.size <= 0) /\ \E n : Evicts(e, e2, n)
  BY <1>1, EvictStepIs
<1>3. ASSUME NEW n, Evicts(e, e2, n) PROVE EvictedOldest(e2, tree, hd)
  <2> PICK t1, t2 : t1 = e.radix.tree /\ t2 = e2.radix.tree
    OBVIOUS
  <2>1. /\ n \in Nodes(t1) /\ t2 = [m \in DOMAIN t1 \ {n} |-> t1[m]]
        /\ n \in EvictableLeaves(t1) /\ IsLeaf(t1, n)
        /\ \A m \in EvictableLeaves(t1) : t1[n].time <= t1[m].time
    BY <1>3 DEF Evicts, EvictableLeaves
  <2>2. IsTree(t1) /\ HandlesIn(t1, hd) /\ Counted(t1, hd)
    BY <1>1 DEF Evicting, RcInv, CacheInv
  <2>3. IsTree(t2) /\ \A m \in DOMAIN t1 \ {n} : Path(t2, m) = Path(t1, m)
    BY <2>1, <2>2, ShrinkTree
  <2>4. DOMAIN t2 = DOMAIN t1 \ {n} /\ \A m \in DOMAIN t2 : t2[m] = t1[m]
    BY ONLY <2>1
  <2>5. Aged(t2)
    BY <1>1, <2>3, <2>4, AgedShrunk
  <2>6. /\ DOMAIN t1 \subseteq DOMAIN tree
        /\ \A m \in DOMAIN t1 : t1[m] = tree[m] /\ Path(t1, m) = Path(tree, m)
        /\ \A gone \in DOMAIN tree \ DOMAIN t1 :
             \A kept \in DOMAIN t1 \ Path(tree, gone) :
                tree[kept].ref_count = 0 => tree[gone].time < tree[kept].time
    BY <1>1 DEF Older
  <2>7. ASSUME NEW kept \in DOMAIN t2 \ Path(tree, n), tree[kept].ref_count = 0
        PROVE  tree[n].time < tree[kept].time
    <3>1. kept \in DOMAIN t1 /\ n \in DOMAIN t1
      BY <2>1, <2>4 DEF Nodes
    <3>2. t1[kept] = tree[kept] /\ t1[n] = tree[n] /\ Path(t1, n) = Path(tree, n)
      BY ONLY <2>6, <3>1
    <3>3. kept # Root
      BY <2>2, <2>7, <3>2 DEF IsTree, Linked
    <3>4. kept \in Free(t1) /\ kept \notin Path(t1, n)
      BY <2>7, <3>1, <3>2, <3>3 DEF Free, Nodes
    <3>5. t1[n].time < t1[kept].time
      BY <1>1, <2>1, <2>2, <3>4, OldestLeaf
    <3> QED
      BY ONLY <3>2, <3>5
  <2>8. Older(tree, t2)
    <3>1. DOMAIN t2 \subseteq DOMAIN tree
      BY ONLY <2>4, <2>6
    <3>2. \A m \in DOMAIN t2 : t2[m] = tree[m] /\ Path(t2, m) = Path(tree, m)
      BY ONLY <2>3, <2>4, <2>6
    <3>3. ASSUME NEW gone \in DOMAIN tree \ DOMAIN t2, NEW kept \in DOMAIN t2 \ Path(tree, gone),
                 tree[kept].ref_count = 0
          PROVE  tree[gone].time < tree[kept].time
      <4>1. CASE gone = n
        BY ONLY <2>7, <3>3, <4>1
      <4>2. CASE gone \notin DOMAIN t1
        BY ONLY <2>4, <2>6, <3>3, <4>2
      <4> QED
        BY ONLY <2>4, <3>3, <4>1, <4>2
    <3> QED
      BY ONLY <3>1, <3>2, <3>3, Zenon DEF Older
  <2> QED
    BY <1>2, <2>5, <2>8 DEF EvictedOldest
<1>4. EvictedOldest(e2, tree, hd)
  BY <1>1, <1>2, <1>3 DEF EvictedOldest
<1> QED
  BY ONLY <1>4, e2 = EvictStep(e), Zenon

LEMMA EvictOldest ==
    ASSUME NEW rc, NEW hd, RcInv(rc, hd), Aged(rc.tree),
           NEW size \in Nat, size <= rc.evictable_size, NEW e, e = EvictLoop(rc, size)
    PROVE  Aged(e.radix.tree) /\ Older(rc.tree, e.radix.tree)
<1>0. IsTree(rc.tree)
  BY DEF RcInv, CacheInv
<1>1. PICK f, N : /\ N \in Nat /\ N = Cardinality(DOMAIN rc.tree)
                  /\ EvictLoop(rc, size) = f[N] /\ f[0] = AtLeaves(rc, size)
                  /\ \A k \in 1..N : f[k] = EvictStep(f[k - 1])
  BY <1>0, EvictLoopIs
<1> DEFINE S == {k \in 0..N : EvictedOldest(f[k], rc.tree, hd)}
<1>2. 0 \in S
  <2>1. f[0] = [radix |-> rc, leaves |-> EvictableLeaves(rc.tree), size |-> size]
    BY <1>1 DEF AtLeaves
  <2>2. f[0].radix = rc /\ f[0].leaves = EvictableLeaves(rc.tree) /\ f[0].size = size
    BY ONLY <2>1
  <2>3. Evicting(f[0], hd)
    <3>1. size \in Int
      OBVIOUS
    <3> QED
      BY ONLY <2>1, <2>2, <3>1, RcInv(rc, hd), size <= rc.evictable_size, Zenon DEF Evicting
  <2>4. Older(rc.tree, rc.tree)
    BY DEF Older
  <2>5. EvictedOldest(f[0], rc.tree, hd)
    BY ONLY <2>2, <2>3, <2>4, Aged(rc.tree), Zenon DEF EvictedOldest
  <2> QED
    BY <1>1, <2>5
<1>3. ASSUME NEW k \in 1..N, k - 1 \in S
      PROVE  k \in S
  <2>1. EvictedOldest(f[k - 1], rc.tree, hd) /\ k \in 0..N
    BY <1>1, <1>3
  <2>2. EvictedOldest(EvictStep(f[k - 1]), rc.tree, hd)
    BY ONLY <2>1, EvictsOldestOn
  <2>3. EvictedOldest(f[k], rc.tree, hd)
    BY <1>1, <2>2
  <2> QED
    BY <2>1, <2>3
<1>4. EvictedOldest(f[N], rc.tree, hd)
  <2>1. \A k \in 0..N : k \in S
    <3> HIDE DEF S
    <3> QED
      BY <1>1, <1>2, <1>3, UpTo
  <2> QED
    BY <1>1, <2>1
<1> QED
  BY <1>1, <1>4 DEF EvictedOldest


(* Locks do not touch the times. *)
LEMMA AgedShaped ==
    ASSUME NEW tree, IsTree(tree), Aged(tree), NEW tree2, IsTree(tree2), SameShape(tree, tree2),
           \A n \in DOMAIN tree : tree2[n].time = tree[n].time
    PROVE  Aged(tree2)
<1>1. tree2 \in [DOMAIN tree2 -> Node] /\ tree2[Root].ref_count = 1
  BY DEF IsTree, Linked
<1>2. \A n \in DOMAIN tree : Path(tree2, n) = Path(tree, n)
  BY <1>1, ShapeKept
<1>3. DOMAIN tree2 = DOMAIN tree /\ \A n \in DOMAIN tree : tree2[n].parent = tree[n].parent
  BY DEF SameShape
<1>4. \A n, m \in DOMAIN tree : /\ tree2[n].time < tree2[m].time <=> tree[n].time < tree[m].time
                                /\ tree2[n].time = tree2[m].time => tree[n].time = tree[m].time
  OBVIOUS
<1> QED
  BY <1>2, <1>3, <1>4, AgedAlike

LEMMA LockedAged ==
    ASSUME NEW rc, NEW hd, RcInv(rc, hd), Aged(rc.tree), NEW c \in Client, hd[c] = NoHandle,
           NEW h, Points(h, rc.tree)
    PROVE  Aged(Settled(LockHandle(rc, h)).tree)
<1> PICK rc2 : rc2 = LockHandle(rc, h)
  OBVIOUS
<1> PICK hd2 : hd2 = [hd EXCEPT ![c] = h]
  OBVIOUS
<1>1. /\ RcInv(rc2, hd2) /\ SameShape(rc.tree, rc2.tree)
      /\ \A n \in DOMAIN rc.tree : rc2.tree[n].time = rc.tree[n].time
  BY LockInv DEF Points
<1>2. IsTree(rc.tree) /\ IsTree(rc2.tree)
  BY <1>1 DEF RcInv, CacheInv
<1>3. Aged(rc2.tree)
  BY <1>1, <1>2, AgedShaped
<1>4. Aged(Settled(rc2).tree)
  BY <1>1, <1>3, AgedSettled
<1> QED
  BY <1>4

LEMMA UnlockedAged ==
    ASSUME NEW rc, NEW hd, RcInv(rc, hd), Aged(rc.tree), NEW c \in Client, hd[c] # NoHandle
    PROVE  Aged(UnlockHandle(rc, hd[c]).tree) /\ Aged(Settled(UnlockHandle(rc, hd[c])).tree)
<1> PICK rc2 : rc2 = UnlockHandle(rc, hd[c])
  OBVIOUS
<1> PICK hd2 : hd2 = [hd EXCEPT ![c] = NoHandle]
  OBVIOUS
<1>1. /\ RcInv(rc2, hd2) /\ SameShape(rc.tree, rc2.tree)
      /\ \A n \in DOMAIN rc.tree : rc2.tree[n].time = rc.tree[n].time
  BY UnlockInv
<1>2. IsTree(rc.tree) /\ IsTree(rc2.tree)
  BY <1>1 DEF RcInv, CacheInv
<1>3. Aged(rc2.tree)
  BY <1>1, <1>2, AgedShaped
<1>4. Aged(Settled(rc2).tree)
  BY <1>1, <1>3, AgedSettled
<1> QED
  BY <1>3, <1>4

LEMMA StoredAged ==
    ASSUME NEW rc, NEW hd, RcInv(rc, hd), Siblings(rc.tree), Aged(rc.tree),
           NEW ids \in Seq(Token), NEW c \in Client, hd[c] # NoHandle,
           NEW fresh, Fits(fresh, rc.tree, ids),
           NEW finished \in BOOLEAN, NEW ins, ins = InsertPrefix(rc, ids, fresh)
    PROVE  Aged(Settled(Stored(ins, hd[c], finished)).tree)
<1>1. RcInv(ins.radix, hd) /\ Points(ins.handle, ins.radix.tree) /\ Aged(ins.radix.tree)
      /\ Siblings(ins.radix.tree)
  BY InsertInv, InsertAged, InsertTrie DEF Inserted
<1> PICK rc2 : rc2 = UnlockHandle(ins.radix, hd[c])
  OBVIOUS
<1> PICK hd2 : hd2 = [hd EXCEPT ![c] = NoHandle]
  OBVIOUS
<1>2. RcInv(rc2, hd2) /\ Aged(rc2.tree) /\ Aged(Settled(rc2).tree)
  BY <1>1, UnlockInv, UnlockedAged
<1>3. CASE finished
  BY <1>2, <1>3 DEF Stored
<1>4. CASE ~finished
  <2>1. hd2[c] = NoHandle
    BY GivenTwice DEF RcInv, CacheInv, HandlesIn
  <2>2. Points(ins.handle, rc2.tree)
    <3>1. Reshaped(ins.radix.tree, rc2.tree)
      BY <1>1, UnlockedTrie
    <3> QED
      BY <1>1, <3>1 DEF Points, Reshaped
  <2>3. Aged(Settled(LockHandle(rc2, ins.handle)).tree)
    BY <1>2, <2>1, <2>2, LockedAged
  <2> QED
    BY <1>4, <2>3 DEF Stored
<1> QED
  BY <1>3, <1>4

LEMMA MatchAged ==
    ASSUME NEW rc, NEW hd, RcInv(rc, hd), Aged(rc.tree), NEW ids \in Seq(Token),
           NEW m, m = MatchPrefix(rc, ids)
    PROVE  Aged(m.radix.tree)
<1> PICK w : w = TreeWalk(rc.tree, ids)
  OBVIOUS
<1>1. CacheInv(rc.tree, rc.evictable_size, rc.protected_size, hd)
  BY DEF RcInv
<1>2. Aged(w.tree)
  BY <1>1, WalkMarks DEF Marked
<1> PICK tree2 : tree2 = w.tree
  OBVIOUS
<1>3. m.radix = [rc EXCEPT !.tree = tree2]
  BY DEF MatchPrefix
<1>4. m.radix.tree = tree2
  <2>1. rc = [tree |-> rc.tree, evictable_size |-> rc.evictable_size, protected_size |-> rc.protected_size]
    BY DEF RcInv
  <2> QED
    BY ONLY <1>3, <2>1
<1> QED
  BY <1>2, <1>4



-----------------------------------------------------------------------------
(* Eviction takes the least recently used *)

(* The inductive invariant, with the order of the times. *)
AgeInv == TrieInv /\ Aged(radix.tree)

TakesOldest(tree, tree2) ==
    \A gone \in DOMAIN tree \ DOMAIN tree2 :
        \A kept \in (DOMAIN tree \cap DOMAIN tree2) \ Path(tree, gone) :
            tree[kept].ref_count = 0 => tree[gone].time < tree[kept].time

LEMMA NextAged ==
    ASSUME AgeInv, [Next]_vars
    PROVE  AgeInv' /\ TakesOldest(radix.tree, radix'.tree)
<1>0. TrieInv /\ RcInv(radix, handle) /\ Siblings(radix.tree) /\ Aged(radix.tree)
  BY DEF AgeInv, TrieInv, Inv
<1>1. TrieInv'
  BY <1>0, NextTrie
<1> DEFINE Goal == Aged(radix'.tree) /\ TakesOldest(radix.tree, radix'.tree)
<1>2. ASSUME Aged(radix'.tree), DOMAIN radix.tree \subseteq DOMAIN radix'.tree PROVE Goal
  BY <1>2 DEF TakesOldest
<1>3. ASSUME UNCHANGED vars PROVE Goal
  <2>1. radix' = radix
    BY <1>3 DEF vars
  <2>2. Aged(radix'.tree) /\ DOMAIN radix.tree \subseteq DOMAIN radix'.tree
    BY <1>0, <2>1
  <2> HIDE DEF Goal
  <2> QED
    BY <1>2, <2>2
<1>4. ASSUME NEW ids \in Input, Match(ids) PROVE Goal
  <2> PICK m : m = MatchPrefix(radix, ids)
    OBVIOUS
  <2>1. /\ RcInv(m.radix, handle) /\ Aged(m.radix.tree) /\ Siblings(m.radix.tree)
        /\ DOMAIN radix.tree \subseteq DOMAIN m.radix.tree
    BY <1>0, InputAssumption, MatchInv, MatchAged, MatchTrie DEF Keeps
  <2>2. radix' = Settled(m.radix)
    BY <1>4, Zenon DEF Match, Settle, Settled
  <2>3. Aged(Settled(m.radix).tree) /\ DOMAIN Settled(m.radix).tree = DOMAIN m.radix.tree
    BY <2>1, AgedSettled, SettledTrie DEF Reshaped
  <2> QED
    BY <1>2, <2>1, <2>2, <2>3
<1>5. ASSUME NEW c \in Client, NEW ids \in Input, Acquire(c, ids) PROVE Goal
  <2> PICK m : m = MatchPrefix(radix, ids)
    OBVIOUS
  <2>1. /\ RcInv(m.radix, handle) /\ Aged(m.radix.tree) /\ Siblings(m.radix.tree)
        /\ Points(m.handle, m.radix.tree) /\ DOMAIN radix.tree \subseteq DOMAIN m.radix.tree
    BY <1>0, InputAssumption, MatchInv, MatchAged, MatchTrie DEF Keeps
  <2> PICK rc2 : rc2 = Settled(LockHandle(m.radix, m.handle))
    OBVIOUS
  <2>2. handle[c] = NoHandle /\ radix' = rc2
    BY <1>5, Zenon DEF Acquire, Settle, Settled
  <2>3. Aged(rc2.tree) /\ DOMAIN rc2.tree = DOMAIN m.radix.tree
    BY <2>1, <2>2, LockedAged, LockedTrie DEF Reshaped
  <2> QED
    BY <1>2, <2>1, <2>2, <2>3
<1>6. ASSUME NEW c \in Client, Release(c) PROVE Goal
  <2> PICK rc2 : rc2 = Settled(UnlockHandle(radix, handle[c]))
    OBVIOUS
  <2>1. handle[c] # NoHandle /\ radix' = rc2
    BY <1>6, Zenon DEF Release, Settle, Settled
  <2>2. Aged(rc2.tree) /\ DOMAIN rc2.tree = DOMAIN radix.tree
    BY <1>0, <2>1, UnlockedAged, UnlockedTrie DEF Reshaped
  <2> QED
    BY <1>2, <2>1, <2>2
<1>7. ASSUME NEW c \in Client, NEW ids \in Input, NEW finished \in BOOLEAN, Store(c, ids, finished)
      PROVE  Goal
  <2>1. ids \in Seq(Token) /\ handle[c] # NoHandle
    BY <1>7, InputAssumption DEF Store
  <2>2. PICK fresh : /\ Fits(fresh, radix.tree, ids)
                     /\ radix' = Settled(Stored(InsertPrefix(radix, ids, fresh), handle[c], finished))
    BY <1>7, Zenon DEF Store, Settle, Settled, Stored, Fits
  <2> PICK ins : ins = InsertPrefix(radix, ids, fresh)
    OBVIOUS
  <2> PICK rc2 : rc2 = Settled(Stored(ins, handle[c], finished))
    OBVIOUS
  <2>3. Aged(rc2.tree) /\ DOMAIN rc2.tree = DOMAIN ins.radix.tree
    BY <1>0, <2>1, <2>2, StoredAged, StoredTrie DEF Reshaped
  <2>4. DOMAIN radix.tree \subseteq DOMAIN ins.radix.tree
    BY <1>0, <2>1, <2>2, InsertInv DEF Inserted, Keeps
  <2> QED
    BY <1>2, <2>2, <2>3, <2>4
<1>8. ASSUME NEW pages \in 1..Cardinality(Page), Evict(pages) PROVE Goal
  <2> PICK size : size = PageSize * pages
    OBVIOUS
  <2> PICK e : e = EvictLoop(radix, size)
    OBVIOUS
  <2>1. size <= radix.evictable_size /\ radix' = Settled(e.radix)
    BY <1>8, Zenon DEF Evict, Settle, Settled
  <2>2. size \in Nat
    <3>1. pages \in Nat
      OBVIOUS
    <3> QED
      BY <3>1, PageSizeAssumption
  <2>3. RcInv(e.radix, handle) /\ Siblings(e.radix.tree)
    BY <1>0, <2>1, <2>2, EvictInv, EvictTrie
  <2>4. Aged(e.radix.tree) /\ Older(radix.tree, e.radix.tree)
    BY <1>0, <2>1, <2>2, EvictOldest
  <2>5. Aged(Settled(e.radix).tree) /\ DOMAIN Settled(e.radix).tree = DOMAIN e.radix.tree
    BY <2>3, <2>4, AgedSettled, SettledTrie DEF Reshaped
  <2>6. DOMAIN radix'.tree = DOMAIN e.radix.tree
    BY <2>1, <2>5
  <2>7. TakesOldest(radix.tree, radix'.tree)
    BY <2>4, <2>6 DEF Older, TakesOldest
  <2> QED
    BY <2>1, <2>5, <2>7
<1>9. Goal
  <2>1. CASE Next
    <3> HIDE DEF Goal
    <3> QED
      BY ONLY <1>4, <1>5, <1>6, <1>7, <1>8, <2>1, Zenon DEF Next
  <2> QED
    BY <1>3, <2>1
<1> QED
  BY <1>1, <1>9 DEF AgeInv

(* What eviction removes is older than every unlocked node it leaves, its own ancestors *)
(* aside: RadixPrefixCache.evict takes the least recently used, although its heap holds *)
(* leaves alone and walks, splits and inserts stamp the nodes at different moments.      *)
THEOREM EvictsOldest == Spec => EvictsLeastRecent
<1>1. Init => AgeInv
  <2>1. Init => Nodes(radix.tree) = {}
    BY DEF Init, Nodes
  <2> QED
    BY <2>1, InitTrie DEF AgeInv, Aged
<1>2. AgeInv /\ [Next]_vars => AgeInv' /\ TakesOldest(radix.tree, radix'.tree)
  BY NextAged
<1>3. TakesOldest(radix.tree, radix'.tree)
        => [\A gone \in DOMAIN radix.tree \ DOMAIN radix'.tree :
              \A kept \in (DOMAIN radix.tree \cap DOMAIN radix'.tree) \ Path(radix.tree, gone) :
                 radix.tree[kept].ref_count = 0 =>
                     radix.tree[gone].time < radix.tree[kept].time]_vars
  BY Zenon DEF TakesOldest
<1> QED
  BY <1>1, <1>2, <1>3, PTL DEF Spec, EvictsLeastRecent

=============================================================================
