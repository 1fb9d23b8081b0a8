---------------------------- MODULE PrefixCache ----------------------------
(***************************************************************************)
(* What a prefix cache promises the scheduler (BasePrefixCache), whatever  *)
(* data structure keeps it: a set of cached prefixes, each with the page   *)
(* that holds its last tokens, and the handles its clients have locked.    *)
(*                                                                         *)
(* A client is a request that is being served; it locks at most one handle *)
(* at a time.  RadixCache is shown to implement this module.               *)
(***************************************************************************)
EXTENDS PrefixTrie

CONSTANTS
    Client,     \* requests that can hold a handle
    Token,      \* token ids
    Page,       \* KV pages
    Input,      \* token sequences a client may present
    NoHandle    \* a client without a locked handle

ASSUME InputAssumption == Input \subseteq Seq(Token)

ASSUME NoHandleAssumption ==
    NoHandle \notin {<<>>} \cup UNION {PagePrefixes(ids) : ids \in Input}

VARIABLES
    cache,      \* cached prefix -> the page of its last PageSize tokens
    handle      \* client -> the prefix its locked handle covers, or NoHandle

vars == <<cache, handle>>

cached == DOMAIN cache

Prefix == UNION {PagePrefixes(ids) : ids \in Input}

(* A seeded fault, used by no specification: it deviates from the operator   *)
(* it is named after, to show that a property below notices.                 *)
Protected_None == {}

(* A prefix is protected while some client's handle extends it. *)
Protected == {p \in cached : \E c \in Client : /\ handle[c] # NoHandle
                                               /\ p \in PagePrefixes(handle[c])}

Init ==
    /\ cache = [p \in {} |-> CHOOSE g \in Page : TRUE]
    /\ handle = [c \in Client |-> NoHandle]

(* match_prefix, then lock_handle before anything else happens. *)
Acquire(c, ids) ==
    /\ handle[c] = NoHandle
    /\ \E h \in PagePrefixes(ids) \cup {<<>>} :
          /\ IsMatch(cached, ids, h)
          /\ handle' = [handle EXCEPT ![c] = h]
    /\ UNCHANGED cache

(* lock_handle(unlock = True), when an admission is taken back. *)
Release(c) ==
    /\ handle[c] # NoHandle
    /\ handle' = [handle EXCEPT ![c] = NoHandle]
    /\ UNCHANGED cache

(* The caller's row has a page for every prefix of ids; those for prefixes *)
(* not yet cached are its own.                                             *)
FreshPages(ids) ==
    LET missing == PagePrefixes(ids) \ cached
    IN  {f \in [PagePrefixes(ids) -> Page] :
            /\ \A p \in missing : \A q \in cached : f[p] # cache[q]
            /\ \A p, q \in missing : f[p] = f[q] => p = q}

(* insert_prefix: what is cached keeps its page. *)
Merged(ids, pages) ==
    [p \in cached \cup PagePrefixes(ids) |-> IF p \in cached THEN cache[p] ELSE pages[p]]

(* CacheManager.cache_req: insert, unlock the old handle, and lock the new  *)
(* one, of everything inserted, unless the request finished.                *)
Store(c, ids, pages, finished) ==
    /\ handle[c] # NoHandle
    /\ handle[c] \in PagePrefixes(ids) \cup {<<>>}
    /\ cache' = Merged(ids, pages)
    /\ handle' = [handle EXCEPT ![c] = IF finished THEN NoHandle ELSE Aligned(ids)]

(* evict: which unprotected prefixes go is the implementation's choice, but *)
(* what stays is still a trie.                                              *)
Removable(V) == V \cap Protected = {} /\ PrefixClosed(cached \ V)

Evict(V) ==
    /\ V # {}
    /\ Removable(V)
    /\ cache' = [p \in cached \ V |-> cache[p]]
    /\ UNCHANGED handle

Next ==
    \/ \E c \in Client, ids \in Input : Acquire(c, ids)
    \/ \E c \in Client : Release(c)
    \/ \E c \in Client, ids \in Input, finished \in BOOLEAN :
          \E pages \in FreshPages(ids) : Store(c, ids, pages, finished)
    \/ \E V \in SUBSET cached : Evict(V)

Spec == Init /\ [][Next]_vars

-----------------------------------------------------------------------------

(* Only page-aligned prefixes of inputs are cached, a page for each, and a *)
(* client holds one of them, the empty prefix or nothing.                  *)
TypeOK ==
    /\ cached \subseteq Prefix
    /\ cache \in [cached -> Page]
    /\ handle \in [Client -> Prefix \cup {<<>>, NoHandle}]

(* base.py: "When a handle is locked, it cannot be evicted" - whatever the *)
(* other clients insert and evict, every page under a locked handle stays. *)
LockedStaysCached ==
    \A c \in Client : handle[c] # NoHandle => PagePrefixes(handle[c]) \subseteq cached

=============================================================================
