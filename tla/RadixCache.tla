----------------------------- MODULE RadixCache -----------------------------
(***************************************************************************)
(* The radix tree that keeps the prefix cache (kvcache/radix_cache.py).    *)
(*                                                                         *)
(* A node holds a run of tokens (key) and the pages of their keys and      *)
(* values (value, one entry per page).  A walk splits the node in which it *)
(* diverges; handles point at nodes, so a split must leave every handle    *)
(* with the prefix it covered.  Locking counts references along the path   *)
(* to the root and keeps two running totals, evictable and protected       *)
(* tokens, that admission and eviction rely on without ever recounting.    *)
(*                                                                         *)
(* time.monotonic_ns() stamps are kept as ranks: only their order is used. *)
(***************************************************************************)
EXTENDS PrefixTrie, FiniteSetsExt

CONSTANTS Client, Token, Page, Input, NoHandle

ASSUME InputAssumption == Input \subseteq Seq(Token)

ASSUME PoolAssumption == IsFiniteSet(Client) /\ IsFiniteSet(Page)

ASSUME NoHandleAssumption ==
    NoHandle \notin [node : Nat, cached_len : Nat] /\ NoHandle \notin Seq(Token)

VARIABLES
    radix,      \* the cache object: [tree, evictable_size, protected_size]
    handle,     \* client -> its locked handle [node, cached_len], or NoHandle
    failed      \* an assertion of the code failed

vars == <<radix, handle, failed>>

Root == 0

(* The dictionary of children is keyed by the first page of a key. *)
Children(tree, n) == {m \in DOMAIN tree \ {Root} : tree[m].parent = n}
IsLeaf(tree, n) == Children(tree, n) = {}
Length(tree, n) == Len(tree[n].key)

(* The nodes a handle on n locks: n and its ancestors, the root excluded. *)
Path(tree, n) ==
    LET path[m \in DOMAIN tree] ==
            IF m = Root THEN {} ELSE {m} \cup path[tree[m].parent]
    IN  path[n]

PathKey(tree, n) ==
    LET key[m \in DOMAIN tree] ==
            IF m = Root THEN <<>> ELSE key[tree[m].parent] \o tree[m].key
    IN  key[n]

(* RadixCacheHandle.get_matched_indices, a page at a time. *)
PathValue(tree, n) ==
    LET value[m \in DOMAIN tree] ==
            IF m = Root THEN <<>> ELSE value[tree[m].parent] \o tree[m].value
    IN  value[n]

FreshNode(tree) == Min((0..Cardinality(DOMAIN tree)) \ DOMAIN tree)

Grown(tree, n, node) == [m \in DOMAIN tree \cup {n} |-> IF m = n THEN node ELSE tree[m]]

Now(tree) == 1 + Max({tree[n].time : n \in DOMAIN tree})

(* Replace the time stamps by their ranks. *)
Ranked(tree) ==
    [n \in DOMAIN tree |->
        [tree[n] EXCEPT !.time =
            Cardinality({t \in {tree[m].time : m \in DOMAIN tree} : t < @})]]

Init ==
    /\ radix = [tree |-> [n \in {Root} |-> [parent |-> Root, key |-> <<>>, value |-> <<>>,
                                            ref_count |-> 1, time |-> 0]],
                evictable_size |-> 0,
                protected_size |-> 0]
    /\ handle = [c \in Client |-> NoHandle]
    /\ failed = FALSE

-----------------------------------------------------------------------------
(* Walking and inserting *)

(* Seeded faults, here and below, used by no specification: each deviates   *)
(* from the operator it is named after, to show that a property notices.    *)
FirstPage_WholeKey(key) == key

(* key_fn: the first page of a key, shorter when the key is. *)
FirstPage(key) == SubSeq(key, 1, IF Len(key) < PageSize THEN Len(key) ELSE PageSize)

(* fast_compare_key: how many leading tokens agree. *)
CommonLen(s, t) ==
    Max({n \in 0..Min({Len(s), Len(t)}) : \A i \in 1..n : s[i] = t[i]})

HeadOf_Unreferenced(node, pos) ==
    [node EXCEPT !.key = SubSeq(@, 1, pos), !.value = SubSeq(@, 1, pos \div PageSize),
                 !.ref_count = 0]

HeadOf(node, pos) ==
    [node EXCEPT !.key = SubSeq(@, 1, pos), !.value = SubSeq(@, 1, pos \div PageSize)]

TailOf_FirstPages(node, pos) ==
    [node EXCEPT !.key = SubSeq(@, pos + 1, Len(@)),
                 !.value = SubSeq(@, 1, Len(@) - (pos \div PageSize))]

TailOf(node, pos) ==
    [node EXCEPT !.key = SubSeq(@, pos + 1, Len(@)),
                 !.value = SubSeq(@, (pos \div PageSize) + 1, Len(@))]

SplitAt_TailIsNew(tree, n, pos) ==
    LET new == FreshNode(tree)
    IN  [node |-> n,
         tree |-> Grown([m \in DOMAIN tree |->
                            IF m = n THEN HeadOf(tree[n], pos)
                            ELSE IF m # Root /\ tree[m].parent = n
                            THEN [tree[m] EXCEPT !.parent = new] ELSE tree[m]],
                        new, [TailOf(tree[n], pos) EXCEPT !.parent = n])]

(* The new node takes the head of the key and n's place under its parent; n *)
(* keeps its tail, its children and the handles that point at it.           *)
SplitAt(tree, n, pos) ==
    LET new == FreshNode(tree)
    IN  [node |-> new,
         tree |-> Grown([tree EXCEPT ![n] = [TailOf(@, pos) EXCEPT !.parent = new]],
                        new, HeadOf(tree[n], pos))]

(* _tree_walk has come to a node, with prefix_len tokens of ids matched:   *)
(* one more round of its loop, unless it has returned.                     *)
WalkStep(w, ids, tic) ==
    LET rest == SubSeq(ids, w.prefix_len + 1, Len(ids))
        kids == {m \in Children(w.tree, w.node) : FirstPage(w.tree[m].key) = FirstPage(rest)}
        m    == CHOOSE m \in kids : TRUE
        match_len == AlignDown(CommonLen(w.tree[m].key, rest))
        s    == SplitAt(w.tree, m, match_len)
    IN  IF w.done \/ w.prefix_len >= Len(ids) \/ kids = {} THEN w
        ELSE IF match_len # Length(w.tree, m)
        THEN [tree |-> [s.tree EXCEPT ![s.node].time = tic], node |-> s.node,
              prefix_len |-> w.prefix_len + match_len, done |-> TRUE]
        ELSE [tree |-> [w.tree EXCEPT ![m].time = tic], node |-> m,
              prefix_len |-> w.prefix_len + match_len, done |-> FALSE]

(* A round matches a token or is the last. *)
TreeWalk(tree, ids) ==
    LET walk[k \in 0..Len(ids)] ==
            IF k = 0 THEN [tree |-> tree, node |-> Root, prefix_len |-> 0, done |-> FALSE]
            ELSE WalkStep(walk[k - 1], ids, Now(tree))
    IN  walk[Len(ids)]

(* match_prefix: the cache with its walk done, and the handle it returns. *)
MatchPrefix(rc, ids) ==
    LET w == TreeWalk(rc.tree, ids)
    IN  [radix |-> [rc EXCEPT !.tree = w.tree],
         handle |-> [node |-> w.node, cached_len |-> w.prefix_len]]

(* insert_prefix: fresh holds the pages of the part not yet cached. *)
InsertPrefix(rc, ids, fresh) ==
    LET w   == TreeWalk(rc.tree, Aligned(ids))
        new == FreshNode(w.tree)
        key == SubSeq(Aligned(ids), w.prefix_len + 1, Len(Aligned(ids)))
    IN  IF key = <<>>
        THEN [radix |-> [rc EXCEPT !.tree = w.tree],
              handle |-> [node |-> w.node, cached_len |-> Len(Aligned(ids))]]
        ELSE [radix |-> [rc EXCEPT
                !.tree = Grown(w.tree, new,
                               [parent |-> w.node, key |-> key, value |-> fresh,
                                ref_count |-> 0, time |-> Now(w.tree)]),
                !.evictable_size = @ + Len(key)],
              handle |-> [node |-> new, cached_len |-> Len(Aligned(ids))]]

-----------------------------------------------------------------------------
(* Locking *)

TokensIn(tree, N) == MapThenSumSet(LAMBDA n : Len(tree[n].key), N)

NewlyLocked_All(tree, path) == path

(* Only a node that nobody referenced moves from evictable to protected. *)
NewlyLocked(tree, path) == {n \in path : tree[n].ref_count = 0}

LockHandle_Skipped(rc, h) == rc

LockHandle(rc, h) ==
    LET path  == Path(rc.tree, h.node)
        moved == TokensIn(rc.tree, NewlyLocked(rc.tree, path))
    IN  [tree |-> [n \in DOMAIN rc.tree |->
                    IF n \in path THEN [rc.tree[n] EXCEPT !.ref_count = @ + 1] ELSE rc.tree[n]],
         evictable_size |-> rc.evictable_size - moved,
         protected_size |-> rc.protected_size + moved]

UnlockHandle(rc, h) ==
    LET path  == Path(rc.tree, h.node)
        moved == TokensIn(rc.tree, {n \in path : rc.tree[n].ref_count = 1})
    IN  [tree |-> [n \in DOMAIN rc.tree |->
                    IF n \in path THEN [rc.tree[n] EXCEPT !.ref_count = @ - 1] ELSE rc.tree[n]],
         evictable_size |-> rc.evictable_size + moved,
         protected_size |-> rc.protected_size - moved]

(* "assert node.ref_count >= 0" along the path. *)
UnlockFails(rc, h) == \E n \in Path(rc.tree, h.node) : rc.tree[n].ref_count = 0

-----------------------------------------------------------------------------
(* Eviction *)

(* _collect_leave_nodes_for_evict *)
EvictableLeaves(tree) ==
    {n \in DOMAIN tree : IsLeaf(tree, n) /\ tree[n].ref_count = 0}

MostRecent(tree, leaves) ==
    CHOOSE n \in leaves : \A m \in leaves : tree[m].time <= tree[n].time

(* RadixTreeNode.__lt__ orders the heap. *)
LeastRecent(tree, leaves) ==
    CHOOSE n \in leaves : \A m \in leaves : tree[n].time <= tree[m].time

(* Pop the least recently used leaf, unless size tokens are gone or no leaf *)
(* is left; a parent that becomes an unlocked leaf joins the heap.          *)
EvictStep(e) ==
    LET n == LeastRecent(e.radix.tree, e.leaves)
        tree == [m \in DOMAIN e.radix.tree \ {n} |-> e.radix.tree[m]]
        grown == {p \in {e.radix.tree[n].parent} : IsLeaf(tree, p) /\ tree[p].ref_count = 0}
        len == Length(e.radix.tree, n)
    IN  IF e.size <= 0 \/ e.leaves = {} THEN e
        ELSE [radix |-> [e.radix EXCEPT !.tree = tree, !.evictable_size = @ - len],
              leaves |-> (e.leaves \ {n}) \cup grown,
              size |-> e.size - len]

(* The loop pops no more nodes than there are. *)
EvictLoop(rc, size) ==
    LET evict[k \in 0..Cardinality(DOMAIN rc.tree)] ==
            IF k = 0 THEN [radix |-> rc, leaves |-> EvictableLeaves(rc.tree), size |-> size]
            ELSE EvictStep(evict[k - 1])
    IN  evict[Cardinality(DOMAIN rc.tree)]

-----------------------------------------------------------------------------
(* The operations, as CacheManager calls them *)

Settle(rc) == radix' = [rc EXCEPT !.tree = Ranked(@)]

(* match_req without a lock: an admission that fails its first estimate. *)
Match(ids) ==
    /\ Settle(MatchPrefix(radix, ids).radix)
    /\ UNCHANGED <<handle, failed>>

(* match_req and lock. *)
Acquire(c, ids) ==
    /\ handle[c] = NoHandle
    /\ LET m == MatchPrefix(radix, ids)
       IN  /\ Settle(LockHandle(m.radix, m.handle))
           /\ handle' = [handle EXCEPT ![c] = m.handle]
    /\ UNCHANGED failed

(* unlock: the second estimate of an admission fails. *)
Release(c) ==
    /\ handle[c] # NoHandle
    /\ Settle(UnlockHandle(radix, handle[c]))
    /\ handle' = [handle EXCEPT ![c] = NoHandle]
    /\ failed' = (failed \/ UnlockFails(radix, handle[c]))

PagesInUse(tree) == UNION {{tree[n].value[i] : i \in DOMAIN tree[n].value} : n \in DOMAIN tree}

(* cache_req: insert, then unlock the old handle, then lock the new one if *)
(* the request goes on.                                                    *)
Store(c, ids, finished) ==
    /\ handle[c] # NoHandle
    /\ handle[c].cached_len <= Len(ids)
    /\ PathKey(radix.tree, handle[c].node) = SubSeq(ids, 1, handle[c].cached_len)
    /\ LET missing == (Len(Aligned(ids)) - TreeWalk(radix.tree, Aligned(ids)).prefix_len)
                        \div PageSize
       IN  \E fresh \in Injection(1..missing, Page \ PagesInUse(radix.tree)) :
             LET ins      == InsertPrefix(radix, ids, fresh)
                 unlocked == UnlockHandle(ins.radix, handle[c])
             IN  /\ failed' = (failed \/ UnlockFails(ins.radix, handle[c]))
                 /\ Settle(IF finished THEN unlocked ELSE LockHandle(unlocked, ins.handle))
                 /\ handle' = [handle EXCEPT ![c] = IF finished THEN NoHandle ELSE ins.handle]

(* evict, asked for no more than is evictable (see Scheduler). *)
Evict(pages) ==
    /\ PageSize * pages <= radix.evictable_size
    /\ LET e == EvictLoop(radix, PageSize * pages)
       IN  /\ Settle(e.radix)
           /\ failed' = (failed \/ e.size > 0)
    /\ UNCHANGED handle

Next ==
    \/ \E ids \in Input : Match(ids)
    \/ \E c \in Client, ids \in Input : Acquire(c, ids)
    \/ \E c \in Client : Release(c)
    \/ \E c \in Client, ids \in Input, finished \in BOOLEAN : Store(c, ids, finished)
    \/ \E pages \in 1..Cardinality(Page) : Evict(pages)

Spec == Init /\ [][Next]_vars

-----------------------------------------------------------------------------
(* Properties *)

(* The tree is well-formed: parents exist, a node other than the root has a *)
(* key of whole pages with a page for each, and handles point into the tree. *)
TypeOK ==
    /\ Root \in DOMAIN radix.tree
    /\ IsFiniteSet(DOMAIN radix.tree) /\ DOMAIN radix.tree \subseteq Nat
    /\ \A n \in DOMAIN radix.tree \ {Root} :
          LET node == radix.tree[n]
          IN  /\ node.parent \in DOMAIN radix.tree
              /\ node.key \in Seq(Token) /\ node.value \in Seq(Page)
              /\ node.key # <<>> /\ Len(node.key) = PageSize * Len(node.value)
              /\ node.ref_count \in Nat /\ node.time \in Nat
    /\ \A c \in Client : handle[c] # NoHandle => handle[c].node \in DOMAIN radix.tree

(* No assertion of the code fails: a reference count never goes below zero  *)
(* and eviction never runs out of unlocked leaves before it has freed what  *)
(* evictable_size promised.                                                 *)
NoAssertionFails == ~failed

(* A locked handle's node stays in the tree and keeps covering exactly      *)
(* cached_len tokens, however often the nodes above it are split.           *)
HandlesKeepTheirPrefix ==
    \A c \in Client : handle[c] # NoHandle =>
        Len(PathKey(radix.tree, handle[c].node)) = handle[c].cached_len

(* A node is referenced once by every locked handle at or below it: splits  *)
(* hand the count to both halves, inserts start from zero.                  *)
RefCountsExact ==
    \A n \in DOMAIN radix.tree \ {Root} :
        radix.tree[n].ref_count =
            Cardinality({c \in Client : /\ handle[c] # NoHandle
                                        /\ n \in Path(radix.tree, handle[c].node)})

(* The running totals that admission and eviction trust are the totals of   *)
(* the tree: SizeInfo never drifts.                                         *)
SizesExact ==
    LET nodes == DOMAIN radix.tree \ {Root}
        free  == {n \in nodes : radix.tree[n].ref_count = 0}
    IN  /\ radix.evictable_size = TokensIn(radix.tree, free)
        /\ radix.protected_size = TokensIn(radix.tree, nodes \ free)

(* Eviction takes the least recently used: what it removes is older than    *)
(* every unlocked node it leaves behind, its own ancestors aside.           *)
EvictsLeastRecent ==
    [][\A gone \in DOMAIN radix.tree \ DOMAIN radix'.tree :
         \A kept \in (DOMAIN radix.tree \cap DOMAIN radix'.tree) \ Path(radix.tree, gone) :
            radix.tree[kept].ref_count = 0 =>
                radix.tree[gone].time < radix.tree[kept].time]_vars

-----------------------------------------------------------------------------
(* The tree as the trie it represents *)

TriePages(tree) ==
    [p \in UNION {PagePrefixes(PathKey(tree, n)) : n \in DOMAIN tree} |->
        LET n == CHOOSE n \in DOMAIN tree : p \in PagePrefixes(PathKey(tree, n))
        IN  PathValue(tree, n)[Len(p) \div PageSize]]

(* A walk finds the longest page-aligned prefix that the tree holds, by its  *)
(* first page alone at each node, and leaves every other path as it was.     *)
MatchIsLongest ==
    \A ids \in Input :
        LET m == MatchPrefix(radix, ids)
        IN  /\ IsMatch(DOMAIN TriePages(radix.tree), ids, PathKey(m.radix.tree, m.handle.node))
            /\ TriePages(m.radix.tree) = TriePages(radix.tree)

(* The state of PrefixCache that the tree and the locked handles stand for. *)
Represented ==
    [cache  |-> TriePages(radix.tree),
     handle |-> [c \in Client |-> IF handle[c] = NoHandle THEN NoHandle
                                  ELSE PathKey(radix.tree, handle[c].node)]]

=============================================================================
