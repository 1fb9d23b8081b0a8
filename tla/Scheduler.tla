------------------------------ MODULE Scheduler ------------------------------
(***************************************************************************)
(* The scheduler worker (python/minisgl/scheduler): one thread that loops  *)
(* over receiving messages, choosing a prefill or a decode batch, running  *)
(* it on the engine and processing the tokens of a batch.  With Overlap    *)
(* the batch whose tokens are processed is the one of the iteration before *)
(* (overlap_loop), otherwise the one just run (normal_loop).               *)
(*                                                                         *)
(* The module composes the cache manager, the table of running requests,   *)
(* the prefill and decode managers and the engine's effect on the KV pool. *)
(* The prefix cache is the one PrefixCache promises and RadixCache         *)
(* implements, with its reference counts; which unlocked prefixes an       *)
(* eviction takes is left open.                                            *)
(*                                                                         *)
(* Page-table rows are kept a page at a time: every run of PageSize token  *)
(* slots is written together and starts at a multiple of PageSize.         *)
(***************************************************************************)
EXTENDS PrefixTrie, SequencesExt, FiniteSetsExt

CONSTANTS
    Req,            \* uids, in the order the front end numbers them
    Prompt,         \* uid -> tokens of the prompt
    MaxTokens,      \* uid -> sampling_params.max_tokens
    IgnoreEos,      \* uids whose sampling_params.ignore_eos is set
    Sampled,        \* tokens the model may sample
    Eos,            \* eos_token_id
    Abortable,      \* uids the front end may abort
    NumPages,       \* pages of the KV pool
    MaxRunningReq,  \* rows of the page table
    MaxSeqLen,      \* engine.max_seq_len, never more than the pool holds
    PrefillBudget,  \* max_extend_tokens
    Overlap,        \* overlap_loop rather than normal_loop
    CacheTypes      \* what the operator may configure: "radix", "naive"

ASSUME SchedulerAssumptions ==
    /\ Req \subseteq Nat /\ IsFiniteSet(Req)
    /\ DOMAIN Prompt = Req /\ \A r \in Req : Prompt[r] \in Seq(Nat) \ {<<>>}
    /\ MaxTokens \in [Req -> Nat \ {0}]
    /\ Abortable \subseteq Req /\ IgnoreEos \subseteq Req
    /\ NumPages \in Nat \ {0}
    /\ MaxRunningReq \in Nat \ {0}
    /\ MaxSeqLen \in 1..(NumPages * PageSize)
    /\ PrefillBudget \in Nat \ {0}
    /\ Sampled \subseteq Nat /\ Eos \in Nat
    /\ Overlap \in BOOLEAN
    /\ CacheTypes \subseteq {"radix", "naive"}

Page == 0..(NumPages - 1)
Row  == 0..(MaxRunningReq - 1)

NoBatch == [phase |-> "none", reqs |-> <<>>]

NoReq == [ids |-> <<>>, host_len |-> 0, cached_len |-> 0, device_len |-> 0,
          max_device_len |-> 0, table_idx |-> 0, handle_len |-> 0, chunked |-> FALSE]

VARIABLES
    cache_type,     \* config.cache_type, chosen when the server starts
    phase,          \* where the loop is: receive, admit, allocate, forward, process, failed
    to_send,        \* requests the front end has not sent yet
    to_abort,       \* aborts it may still send
    pending_list,   \* PrefillManager
    adder,          \* PrefillAdder and the progress of schedule_next_batch
    running_reqs,   \* DecodeManager
    req,            \* uid -> its latest Req or ChunkedReq object
    batch,          \* the batch of this iteration
    last_data,      \* the batch of the iteration before, with Overlap
    next,           \* the next entry of the batch being processed
    finished_reqs, new_finished_reqs,
    row_slots,      \* TableManager._free_slots
    free_slots,     \* CacheManager.free_slots
    lazy_free_list, \* pages freed in the lazy_free_region
    page_table,     \* row -> index of a page in the sequence -> page
    cache,          \* prefix cache: prefix -> [page, ref_count]
    kv,             \* ghost: page -> offset -> the tokens its KV was computed from
    live,           \* ghost: requests that hold a row and pages
    told_finished   \* ghost: requests whose reply said finished

loop_vars  == <<phase, adder, batch, last_data, next>>
input_vars == <<to_send, to_abort>>
queue_vars == <<pending_list, running_reqs, req, finished_reqs, new_finished_reqs>>
pool_vars  == <<row_slots, free_slots, lazy_free_list, page_table, cache>>
ghost_vars == <<kv, live, told_finished>>
vars == <<cache_type, loop_vars, input_vars, queue_vars, pool_vars, ghost_vars>>

Idle == last_data = NoBatch /\ pending_list = <<>> /\ running_reqs = {}

MaxOutputLen(r) == MaxSeqLen - Len(Prompt[r])

(* max_tokens as _process_one_msg leaves it. *)
OutputLen(r) == IF MaxTokens[r] > MaxOutputLen(r) THEN MaxOutputLen(r) ELSE MaxTokens[r]

RemainLen(q) == q.max_device_len - q.device_len

(* ChunkedReq.can_decode is always false. *)
CanDecode(q) == ~q.chunked /\ RemainLen(q) > 0

(* pending_req.chunked_req is not None. *)
Continuing(r) == req[r].chunked

Init ==
    /\ cache_type \in CacheTypes
    /\ phase = "receive"
    /\ to_send = Req /\ to_abort = Abortable
    /\ pending_list = <<>> /\ running_reqs = {}
    /\ adder = [token_budget |-> 0, reserved_size |-> 0, reqs |-> <<>>, chunked_list |-> <<>>]
    /\ req = [r \in Req |-> NoReq]
    /\ batch = NoBatch /\ last_data = NoBatch /\ next = 1
    /\ finished_reqs = {} /\ new_finished_reqs = {}
    /\ row_slots = [i \in 1..MaxRunningReq |-> i - 1]
    /\ free_slots = [i \in 1..NumPages |-> i - 1]
    /\ lazy_free_list = <<>>
    /\ page_table = [w \in Row |-> [i \in 0..(DivCeil(MaxSeqLen) - 1) |-> 0]]
    /\ cache = [p \in {} |-> [page |-> 0, ref_count |-> 0]]
    /\ kv = [g \in Page |-> [o \in 0..(PageSize - 1) |-> <<>>]]
    /\ live = {} /\ told_finished = {}

-----------------------------------------------------------------------------
(* The prefix cache, as RadixCache keeps it *)

Longest(cc, ids) ==
    CHOOSE h \in PagePrefixes(ids) \cup {<<>>} : IsMatch(DOMAIN cc, ids, h)

LockHandle(cc, h) ==
    [p \in DOMAIN cc |-> IF p \in PagePrefixes(h)
                         THEN [cc[p] EXCEPT !.ref_count = @ + 1] ELSE cc[p]]

(* Seeded faults, here and below, used by no specification: each deviates   *)
(* from the operator it is named after, to show that a property notices.    *)
UnlockHandle_Skipped(cc, h) == cc

UnlockHandle(cc, h) ==
    [p \in DOMAIN cc |-> IF p \in PagePrefixes(h)
                         THEN [cc[p] EXCEPT !.ref_count = @ - 1] ELSE cc[p]]

(* "assert node.ref_count >= 0" holds for every node of the handle. *)
CanUnlock(cc, h) == \A p \in PagePrefixes(h) : p \in DOMAIN cc /\ cc[p].ref_count > 0

Evictable(cc) == {p \in DOMAIN cc : cc[p].ref_count = 0}

EvictableSize(cc) == PageSize * Cardinality(Evictable(cc))

(* The sets of prefixes that evict(size) may remove: unlocked, enough, and *)
(* leaving a trie.                                                         *)
Victims(cc, pages) ==
    {V \in SUBSET Evictable(cc) : Cardinality(V) >= pages /\ PrefixClosed(DOMAIN cc \ V)}

-----------------------------------------------------------------------------
(* CacheManager *)

AvailableSize_WithProtected(cc) == PageSize * (Cardinality(DOMAIN cc) + Len(free_slots))

AvailableSize(cc) == EvictableSize(cc) + Len(free_slots) * PageSize

(* match_req: at least one token is left to compute. *)
MatchReq(cc, r) == Longest(cc, SubSeq(Prompt[r], 1, Len(Prompt[r]) - 1))

(* Entries lo..hi-1 of the row of q: a page-strided slice of the page table. *)
RowSlice(q, lo, hi) ==
    [i \in 1..(IF lo < hi THEN hi - lo ELSE 0) |-> page_table[q.table_idx][lo + i - 1]]

HandleOf(q) == SubSeq(q.ids, 1, q.handle_len)

Duplicates_Kept(q, cached_len) == <<>>

(* What the cache already had when q's prefix came to be inserted. *)
Duplicates(q, cached_len) ==
    RowSlice(q, q.handle_len \div PageSize, cached_len \div PageSize)

Leftover_FreedEarly(q, new_len, finished) ==
    RowSlice(q, new_len \div PageSize, DivCeil(q.cached_len))

(* What a finished request computed beyond the prefix it leaves cached. *)
Leftover(q, new_len, finished) ==
    IF finished THEN RowSlice(q, new_len \div PageSize, DivCeil(q.cached_len)) ELSE <<>>

(* How much of a prefix insert_prefix keeps: the naive cache keeps nothing. *)
InsertLen(ids) == IF cache_type = "radix" THEN AlignDown(Len(ids)) ELSE 0

(* cache_req on the object q: the cache it leaves, the pages it frees, the  *)
(* length of the handle q then holds, and whether unlocking was legal.      *)
CacheReq(cc, q, finished) ==
    LET insert_ids == SubSeq(q.ids, 1, Min({q.host_len, q.cached_len}))
        new_len    == InsertLen(insert_ids)
        stored     == PagePrefixes(SubSeq(insert_ids, 1, new_len))
        cached_len == Len(Longest(cc, insert_ids))
        inserted   == [p \in DOMAIN cc \cup stored |->
                        IF p \in DOMAIN cc THEN cc[p]
                        ELSE [page |-> page_table[q.table_idx][Len(p) \div PageSize - 1],
                              ref_count |-> 0]]
        unlocked   == UnlockHandle(inserted, HandleOf(q))
    IN  [cache      |-> IF finished THEN unlocked
                        ELSE LockHandle(unlocked, SubSeq(insert_ids, 1, new_len)),
         freed      |-> Duplicates(q, cached_len) \o Leftover(q, new_len, finished),
         handle_len |-> new_len,
         ok         |-> CanUnlock(inserted, HandleOf(q))]

-----------------------------------------------------------------------------
(* receive_msg and _process_one_msg *)

FreeRow_Lost(row) == row_slots

(* TableManager.free *)
FreeRow(row) == Append(row_slots, row)

RemoveReq_Skipped(r) == running_reqs

(* DecodeManager.remove_req *)
RemoveReq(r) == running_reqs \ {r}

(* A prompt that leaves no room for output is dropped. *)
ReceiveUser(r) ==
    /\ phase = "receive"
    /\ r \in to_send
    /\ to_send' = to_send \ {r}
    /\ pending_list' = IF MaxOutputLen(r) <= 0 THEN pending_list ELSE Append(pending_list, r)
    /\ UNCHANGED <<loop_vars, to_abort, running_reqs, req, finished_reqs,
                   new_finished_reqs, pool_vars, ghost_vars>>

(* _free_req_resources, its pages going straight to the free list. *)
FreeNow(r) ==
    LET c == CacheReq(cache, req[r], TRUE)
    IN  IF c.ok
        THEN /\ row_slots' = FreeRow(req[r].table_idx)
             /\ free_slots' = free_slots \o c.freed
             /\ cache' = c.cache
             /\ live' = live \ {r}
             /\ UNCHANGED <<phase, lazy_free_list, page_table>>
        ELSE /\ phase' = "failed"
             /\ UNCHANGED <<pool_vars, live>>

(* An abort of a request that is waiting, half prefilled, running, or no   *)
(* longer known.                                                           *)
ReceiveAbort(r) ==
    /\ phase = "receive"
    /\ r \in to_abort \ to_send
    /\ to_abort' = to_abort \ {r}
    /\ LET waiting == Contains(pending_list, r)
       IN  /\ pending_list' = RemoveFirst(pending_list, r)
           /\ running_reqs' = IF waiting THEN running_reqs ELSE RemoveReq(r)
           /\ IF (waiting /\ Continuing(r)) \/ (~waiting /\ r \in running_reqs)
              THEN FreeNow(r)
              ELSE UNCHANGED <<phase, pool_vars, live>>
    /\ UNCHANGED <<adder, batch, last_data, next, to_send, req, finished_reqs,
                   new_finished_reqs, kv, told_finished>>

(* DecodeManager.inflight_tokens *)
InflightTokens ==
    MapThenSumSet(LAMBDA r : RemainLen(req[r]), running_reqs)
        + (PageSize - 1) * Cardinality(running_reqs)

(* No message is left; an idle loop blocks instead. *)
StartSchedule ==
    /\ phase = "receive"
    /\ ~Idle
    /\ phase' = "admit"
    /\ adder' = [token_budget |-> PrefillBudget, reserved_size |-> InflightTokens,
                 reqs |-> <<>>, chunked_list |-> <<>>]
    /\ UNCHANGED <<batch, last_data, next, input_vars, queue_vars, pool_vars, ghost_vars>>

-----------------------------------------------------------------------------
(* PrefillManager.schedule_next_batch: one pending request at a time *)

Candidate_Newest == pending_list[Len(pending_list) - Len(adder.reqs)]

Candidate == pending_list[Len(adder.reqs) + 1]

MoreCandidates == Len(adder.reqs) < Len(pending_list) /\ adder.token_budget > 0

CanAllocate_CheckedOnce(r) ==
    LET estimated == Len(Prompt[r]) - Len(MatchReq(cache, r)) + OutputLen(r)
    IN  row_slots # <<>> /\ estimated + adder.reserved_size <= AvailableSize(cache)

(* _try_allocate_one: a row is free and the estimate fits, before and after *)
(* the matched prefix is locked.                                            *)
CanAllocate(r) ==
    LET handle    == MatchReq(cache, r)
        estimated == Len(Prompt[r]) - Len(handle) + OutputLen(r)
        fits(cc)  == estimated + adder.reserved_size <= AvailableSize(cc)
    IN  row_slots # <<>> /\ fits(cache) /\ fits(LockHandle(cache, handle))

ChunkSize(remain) == Min({adder.token_budget, remain})

(* _add_one_req: the Req, or the ChunkedReq when the budget cuts it. *)
AddOneReq(r, table_idx, cached_len, handle_len) ==
    LET remain     == Len(Prompt[r]) - cached_len
        chunk_size == ChunkSize(remain)
        end        == cached_len + chunk_size
    IN  /\ req' = [req EXCEPT ![r] =
                    [ids |-> Prompt[r], host_len |-> end,
                     cached_len |-> cached_len, device_len |-> end,
                     max_device_len |-> end + OutputLen(r),
                     table_idx |-> table_idx, handle_len |-> handle_len,
                     chunked |-> chunk_size < remain]]
        /\ adder' = [token_budget |-> adder.token_budget - chunk_size,
                     reserved_size |-> adder.reserved_size + remain + OutputLen(r),
                     reqs |-> Append(adder.reqs, [uid |-> r, chunked |-> chunk_size < remain]),
                     chunked_list |-> IF chunk_size < remain
                                      THEN Append(adder.chunked_list, r)
                                      ELSE adder.chunked_list]

(* The next chunk of a request that is partly prefilled. *)
AdmitChunk ==
    /\ phase = "admit"
    /\ MoreCandidates
    /\ LET r == Candidate
       IN  /\ Continuing(r)
           /\ AddOneReq(r, req[r].table_idx, req[r].cached_len, req[r].handle_len)
    /\ UNCHANGED <<phase, batch, last_data, next, input_vars, pending_list, running_reqs,
                   finished_reqs, new_finished_reqs, pool_vars, ghost_vars>>

(* A request that gets its row and locks what the cache has of its prompt. *)
AdmitNew ==
    /\ phase = "admit"
    /\ MoreCandidates
    /\ LET r      == Candidate
           handle == MatchReq(cache, r)
           row    == Last(row_slots)
       IN  /\ ~Continuing(r)
           /\ CanAllocate(r)
           /\ cache' = LockHandle(cache, handle)
           /\ row_slots' = Front(row_slots)
           /\ page_table' = [page_table EXCEPT ![row] =
                 [i \in DOMAIN @ |->
                    IF PageSize * (i + 1) <= Len(handle)
                    THEN cache[SubSeq(handle, 1, PageSize * (i + 1))].page ELSE @[i]]]
           /\ AddOneReq(r, row, Len(handle), Len(handle))
           /\ live' = live \cup {r}
    /\ UNCHANGED <<phase, batch, last_data, next, input_vars, pending_list, running_reqs,
                   finished_reqs, new_finished_reqs, free_slots, lazy_free_list,
                   kv, told_finished>>

AdmissionStops ==
    MoreCandidates => ~Continuing(Candidate) /\ ~CanAllocate(Candidate)

Unscheduled == SubSeq(pending_list, Len(adder.reqs) + 1, Len(pending_list))

StillPending_ChunksLast == Unscheduled \o adder.chunked_list

(* A request whose prompt was cut goes back to the head of the list. *)
StillPending == adder.chunked_list \o Unscheduled

(* The prefill batch, if anything was admitted. *)
SchedulePrefill ==
    /\ phase = "admit"
    /\ AdmissionStops
    /\ adder.reqs # <<>>
    /\ pending_list' = StillPending
    /\ batch' = [phase |-> "prefill", reqs |-> adder.reqs]
    /\ phase' = "allocate"
    /\ UNCHANGED <<adder, last_data, next, input_vars, running_reqs, req, finished_reqs,
                   new_finished_reqs, pool_vars, ghost_vars>>

(* Otherwise a decode batch of everything that runs, in uid order. *)
ScheduleDecode ==
    /\ phase = "admit"
    /\ AdmissionStops
    /\ adder.reqs = <<>>
    /\ running_reqs # {}
    /\ \E order \in [1..Cardinality(running_reqs) -> running_reqs] :
          /\ \A i, j \in DOMAIN order : i < j => order[i] < order[j]
          /\ batch' = [phase |-> "decode",
                       reqs |-> [i \in DOMAIN order |->
                                    [uid |-> order[i], chunked |-> FALSE]]]
    /\ phase' = "allocate"
    /\ UNCHANGED <<adder, last_data, next, input_vars, queue_vars, pool_vars, ghost_vars>>

(* Otherwise nothing runs in this iteration. *)
ScheduleNothing ==
    /\ phase = "admit"
    /\ AdmissionStops
    /\ adder.reqs = <<>>
    /\ running_reqs = {}
    /\ phase' = "process"
    /\ UNCHANGED <<adder, batch, last_data, next, input_vars, queue_vars, pool_vars,
                   ghost_vars>>

-----------------------------------------------------------------------------
(* _prepare_batch and _forward *)

BatchUids == {batch.reqs[i].uid : i \in DOMAIN batch.reqs}

FirstPage_Floor(q) == q.cached_len \div PageSize

FirstPage(q) == DivCeil(q.cached_len)
LastPage(q)  == DivCeil(q.device_len)

(* The entries of its row that entry i of the batch still needs pages for. *)
PagesOf(i) == FirstPage(req[batch.reqs[i].uid])..(LastPage(req[batch.reqs[i].uid]) - 1)

Needed == UNION {{i} \X PagesOf(i) : i \in DOMAIN batch.reqs}

NeededPages == Cardinality(Needed)

(* Where the pages of entry i start among those allocated to the batch. *)
OffsetOf(i) == Cardinality({n \in Needed : n[1] < i})

(* _write_page_table: the allocated pages, in batch order. *)
WritePageTable(pages) ==
    page_table' =
        [w \in Row |-> [k \in DOMAIN page_table[w] |->
            LET written == {i \in DOMAIN batch.reqs :
                                req[batch.reqs[i].uid].table_idx = w /\ k \in PagesOf(i)}
            IN  IF written = {} THEN page_table[w][k]
                ELSE LET i == Max(written)
                     IN  pages[OffsetOf(i) + k - FirstPage(req[batch.reqs[i].uid]) + 1]]]

(* allocate_paged when the free list suffices. *)
AllocateFree ==
    /\ phase = "allocate"
    /\ NeededPages <= Len(free_slots)
    /\ WritePageTable(free_slots)
    /\ free_slots' = SubSeq(free_slots, NeededPages + 1, Len(free_slots))
    /\ phase' = "forward"
    /\ UNCHANGED <<adder, batch, last_data, next, input_vars, queue_vars, row_slots,
                   lazy_free_list, cache, ghost_vars>>

(* allocate_paged with an eviction; the order of the evicted pages is not *)
(* told apart.                                                            *)
AllocateEvict ==
    /\ phase = "allocate"
    /\ NeededPages > Len(free_slots)
    /\ \E V \in Victims(cache, NeededPages - Len(free_slots)) :
          LET slots == free_slots \o SetToSeq({cache[p].page : p \in V})
          IN  /\ cache' = [p \in DOMAIN cache \ V |-> cache[p]]
              /\ WritePageTable(slots)
              /\ free_slots' = SubSeq(slots, NeededPages + 1, Len(slots))
    /\ phase' = "forward"
    /\ UNCHANGED <<adder, batch, last_data, next, input_vars, queue_vars, row_slots,
                   lazy_free_list, ghost_vars>>

(* "assert size <= self.evictable_size" fails. *)
AllocateFails ==
    /\ phase = "allocate"
    /\ PageSize * (NeededPages - Len(free_slots)) > EvictableSize(cache)
    /\ phase' = "failed"
    /\ UNCHANGED <<adder, batch, last_data, next, input_vars, queue_vars, pool_vars,
                   ghost_vars>>

(* The token slot of position pos of q. *)
SlotPage(q, pos) == page_table[q.table_idx][pos \div PageSize]

(* forward_batch writes the KV of the positions each entry extends by. *)
StoreKV ==
    kv' = [g \in Page |-> [o \in 0..(PageSize - 1) |->
            LET writers == {i \in DOMAIN batch.reqs :
                    LET q == req[batch.reqs[i].uid]
                    IN  \E pos \in q.cached_len..(q.device_len - 1) :
                            SlotPage(q, pos) = g /\ pos % PageSize = o}
            IN  IF writers = {} THEN kv[g][o]
                ELSE LET q   == req[batch.reqs[Max(writers)].uid]
                         pos == CHOOSE pos \in q.cached_len..(q.device_len - 1) :
                                    SlotPage(q, pos) = g /\ pos % PageSize = o
                     IN  SubSeq(q.ids, 1, pos + 1)]]

Completed_DeviceFirst(q, token) ==
    [q EXCEPT !.cached_len = q.device_len + 1,
              !.device_len = q.device_len + 1,
              !.ids = IF q.chunked THEN @ ELSE Append(@, token)]

(* complete_one, and the sampled token in the token pool unless the entry is *)
(* a chunk.                                                                  *)
Completed(q, token) ==
    [q EXCEPT !.cached_len = q.device_len,
              !.device_len = q.device_len + 1,
              !.ids = IF q.chunked THEN @ ELSE Append(@, token)]

(* The batch runs on the engine; filter_reqs keeps what can go on decoding. *)
Forward ==
    /\ phase = "forward"
    /\ StoreKV
    /\ \E token \in [{r \in BatchUids : ~req[r].chunked} -> Sampled] :
          LET done == [r \in Req |->
                        IF r \notin BatchUids THEN req[r]
                        ELSE Completed(req[r], IF req[r].chunked THEN Eos ELSE token[r])]
          IN  /\ req' = done
              /\ running_reqs' = {r \in running_reqs \cup BatchUids : CanDecode(done[r])}
    /\ phase' = "process"
    /\ UNCHANGED <<adder, batch, last_data, next, input_vars, pending_list, finished_reqs,
                   new_finished_reqs, pool_vars, live, told_finished>>

-----------------------------------------------------------------------------
(* _process_last_data, one request of the batch at a time *)

Work == IF Overlap THEN last_data ELSE batch

(* append_host: the next token the host has not seen. *)
Appended(q) == [q EXCEPT !.host_len = @ + 1]
NextToken(q) == q.ids[q.host_len + 1]

Finished_OneEarly(r) ==
    RemainLen(req[r]) <= 1 \/ (r \notin IgnoreEos /\ NextToken(req[r]) = Eos)

Finished(r) == ~CanDecode(req[r]) \/ (r \notin IgnoreEos /\ NextToken(req[r]) = Eos)

(* The host's copy of the token, and its reply. *)
Deliver(r) ==
    /\ req' = [req EXCEPT ![r] = Appended(@)]
    /\ told_finished' = IF Finished(r) THEN told_finished \cup {r} ELSE told_finished

InProcess == phase = "process" /\ next <= Len(Work.reqs)

(* A chunk of a prompt has no token to deliver. *)
ProcessChunk ==
    /\ InProcess
    /\ Work.reqs[next].chunked
    /\ next' = next + 1
    /\ UNCHANGED <<phase, adder, batch, last_data, input_vars, queue_vars, pool_vars,
                   ghost_vars>>

(* With Overlap, the step in flight when the request finished. *)
FreedAlready(r) == Finished(r) /\ r \in finished_reqs

(* The request is over: its row and pages go, its prefix stays cached. *)
ProcessFinished ==
    /\ InProcess
    /\ ~Work.reqs[next].chunked
    /\ LET r == Work.reqs[next].uid
           c == CacheReq(cache, Appended(req[r]), TRUE)
       IN  /\ Finished(r)
           /\ ~FreedAlready(r)
           /\ c.ok
           /\ Deliver(r)
           /\ running_reqs' = RemoveReq(r)
           /\ row_slots' = FreeRow(req[r].table_idx)
           /\ cache' = c.cache
           /\ lazy_free_list' = lazy_free_list \o c.freed
           /\ new_finished_reqs' = new_finished_reqs \cup {r}
           /\ live' = live \ {r}
    /\ next' = next + 1
    /\ UNCHANGED <<phase, adder, batch, last_data, input_vars, pending_list, finished_reqs,
                   free_slots, page_table, kv>>

(* The prompt is computed and the request goes on: cache its prefix. *)
ProcessPrefilled ==
    /\ InProcess
    /\ ~Work.reqs[next].chunked
    /\ Work.phase = "prefill"
    /\ LET r == Work.reqs[next].uid
           c == CacheReq(cache, Appended(req[r]), FALSE)
       IN  /\ ~Finished(r) \/ FreedAlready(r)
           /\ c.ok
           /\ req' = [req EXCEPT ![r] = [Appended(@) EXCEPT !.handle_len = c.handle_len]]
           /\ told_finished' = IF Finished(r) THEN told_finished \cup {r} ELSE told_finished
           /\ cache' = c.cache
           /\ lazy_free_list' = lazy_free_list \o c.freed
    /\ next' = next + 1
    /\ UNCHANGED <<phase, adder, batch, last_data, input_vars, pending_list, running_reqs,
                   finished_reqs, new_finished_reqs, row_slots, free_slots, page_table,
                   kv, live>>

(* One more token of a decode, or the token of a step that was already in *)
(* flight when the request finished.                                      *)
ProcessDecoded ==
    /\ InProcess
    /\ ~Work.reqs[next].chunked
    /\ Work.phase = "decode"
    /\ LET r == Work.reqs[next].uid
       IN  /\ ~Finished(r) \/ FreedAlready(r)
           /\ Deliver(r)
    /\ next' = next + 1
    /\ UNCHANGED <<phase, adder, batch, last_data, input_vars, pending_list, running_reqs,
                   finished_reqs, new_finished_reqs, pool_vars, kv, live>>

(* Unlocking a handle that was unlocked before trips the cache's assertion. *)
ProcessFails ==
    /\ InProcess
    /\ ~Work.reqs[next].chunked
    /\ LET r == Work.reqs[next].uid
           over == Finished(r) /\ ~FreedAlready(r)
       IN  /\ ~over => Work.phase = "prefill"
           /\ ~CacheReq(cache, Appended(req[r]), over).ok
    /\ phase' = "failed"
    /\ UNCHANGED <<adder, batch, last_data, next, input_vars, queue_vars, pool_vars,
                   ghost_vars>>

(* The lazy_free_region ends and the loop starts over.  Without a batch to  *)
(* process, _process_last_data returns before it resets finished_reqs.      *)
EndIteration ==
    /\ phase = "process"
    /\ next > Len(Work.reqs)
    /\ phase' = "receive"
    /\ next' = 1
    /\ last_data' = IF Overlap THEN batch ELSE NoBatch
    /\ batch' = NoBatch
    /\ adder' = [token_budget |-> 0, reserved_size |-> 0, reqs |-> <<>>, chunked_list |-> <<>>]
    /\ finished_reqs' = IF Work = NoBatch THEN finished_reqs ELSE new_finished_reqs
    /\ new_finished_reqs' = {}
    /\ free_slots' = free_slots \o lazy_free_list
    /\ lazy_free_list' = <<>>
    /\ UNCHANGED <<input_vars, pending_list, running_reqs, req, row_slots, page_table, cache,
                   ghost_vars>>

-----------------------------------------------------------------------------

Receive == \E r \in Req : ReceiveUser(r) \/ ReceiveAbort(r)

Admit == AdmitChunk \/ AdmitNew \/ SchedulePrefill \/ ScheduleDecode \/ ScheduleNothing

Allocate == AllocateFree \/ AllocateEvict \/ AllocateFails

Process == \/ ProcessChunk \/ ProcessFinished \/ ProcessPrefilled \/ ProcessDecoded
           \/ ProcessFails \/ EndIteration

(* One step of the loop once its messages are in. *)
Loop == StartSchedule \/ Admit \/ Allocate \/ Forward \/ Process

Next == (Receive \/ Loop) /\ UNCHANGED cache_type

Spec == Init /\ [][Next]_vars

(* run_forever never leaves the loop; messages come when they come. *)
FairSpec == Spec /\ WF_vars(Loop /\ UNCHANGED cache_type)

-----------------------------------------------------------------------------
(* Types: in particular, a batch never overdraws the token budget, a handle *)
(* never covers more than is computed, and only overlap_loop keeps a batch. *)

TypeOK ==
    /\ phase \in {"receive", "admit", "allocate", "forward", "process", "failed"}
    /\ to_send \subseteq Req /\ to_abort \subseteq Abortable
    /\ pending_list \in Seq(Req) /\ running_reqs \subseteq Req
    /\ adder.token_budget \in 0..PrefillBudget /\ adder.reserved_size \in Nat
    /\ \A r \in Req : /\ req[r].table_idx \in Row /\ req[r].chunked \in BOOLEAN
                      /\ req[r].handle_len <= req[r].cached_len
                      /\ req[r].cached_len <= req[r].device_len
    /\ batch.phase \in {"none", "prefill", "decode"} /\ BatchUids \subseteq Req
    /\ (last_data # NoBatch => Overlap)
    /\ finished_reqs \subseteq Req /\ new_finished_reqs \subseteq Req
    /\ row_slots \in Seq(Row) /\ free_slots \in Seq(Page) /\ lazy_free_list \in Seq(Page)
    /\ \A p \in DOMAIN cache : cache[p].page \in Page
    /\ live \subseteq Req /\ told_finished \subseteq Req

-----------------------------------------------------------------------------
(* Ownership *)

(* The pages a live request holds beyond those its handle shares: what was *)
(* allocated to it, in this iteration's batch or before.                   *)
Allocated(r) == IF phase = "forward" /\ r \in BatchUids
                THEN req[r].device_len ELSE req[r].cached_len

OwnEntries(r) == (req[r].handle_len \div PageSize)..(DivCeil(Allocated(r)) - 1)

Own(r) == {page_table[req[r].table_idx][k] : k \in OwnEntries(r)}

(* Every page is in exactly one place: the free list, the pages about to be *)
(* freed, the prefix cache, or the tail of one request.  None is lost and   *)
(* none is handed out twice, through admissions, chunks, duplicate prefixes,*)
(* finishes and aborts.                                                     *)
PagesPartitioned ==
    /\ Page = ToSet(free_slots) \cup ToSet(lazy_free_list)
              \cup {cache[p].page : p \in DOMAIN cache}
              \cup UNION {Own(r) : r \in live}
    /\ NumPages = Len(free_slots) + Len(lazy_free_list) + Cardinality(DOMAIN cache)
                  + Cardinality(UNION {{r} \X OwnEntries(r) : r \in live})

(* Every row of the page table is free or belongs to exactly one live       *)
(* request: no request is freed twice, and none keeps a row it gave back.   *)
RowsPartitioned ==
    /\ Row = ToSet(row_slots) \cup {req[r].table_idx : r \in live}
    /\ MaxRunningReq = Len(row_slots) + Cardinality(live)

(* A cached prefix is locked once for each live request whose handle covers *)
(* it, across chunks, re-inserts and aborts: nothing stays locked for ever  *)
(* and nothing in use can be evicted.                                       *)
RefCountsExact ==
    /\ \A r \in live : PagePrefixes(HandleOf(req[r])) \subseteq DOMAIN cache
    /\ \A p \in DOMAIN cache :
          cache[p].ref_count =
              Cardinality({r \in live : p \in PagePrefixes(HandleOf(req[r]))})

(* No assertion of the cache fails: admission reserved enough that a batch  *)
(* can always be allocated, and no handle is unlocked twice.                *)
NoAssertionFails == phase # "failed"

(* What the request that is partly prefilled can still ask for. *)
ContinuingTokens ==
    MapThenSumSet(LAMBDA r : Len(Prompt[r]) - req[r].cached_len + OutputLen(r),
                  {r \in ToSet(pending_list) : Continuing(r)})

(* The reservation behind it: when a batch is chosen, the free and evictable *)
(* pages cover all that the running requests and the request that is partly  *)
(* prefilled can still ask for.                                              *)
ReservationHolds ==
    phase = "receive" => InflightTokens + ContinuingTokens <= AvailableSize(cache)

-----------------------------------------------------------------------------
(* The contents of the KV pool *)

(* "[0, req.cached_len) This part is valid for attention kernel read/write": *)
(* through its row, a live request finds the KV of exactly its own tokens.   *)
RowsValid ==
    \A r \in live : \A pos \in 0..(req[r].cached_len - 1) :
        kv[SlotPage(req[r], pos)][pos % PageSize] = SubSeq(req[r].ids, 1, pos + 1)

(* A cached prefix's page holds the KV of that prefix: a match never gives a *)
(* request another request's context.                                        *)
CacheValid ==
    \A p \in DOMAIN cache : \A o \in 0..(PageSize - 1) :
        kv[cache[p].page][o] = SubSeq(p, 1, Len(p) - PageSize + o + 1)

-----------------------------------------------------------------------------
(* Scheduling *)

(* Only the head of the pending list is ever partly prefilled, and it holds *)
(* its row while it waits; a request behind it holds nothing.               *)
OnlyHeadIsChunked ==
    phase = "receive" =>
        \A i \in DOMAIN pending_list :
            /\ Continuing(pending_list[i]) => i = 1
            /\ Continuing(pending_list[i]) <=> pending_list[i] \in live

(* First come, first served: a request is admitted only when all those      *)
(* received before it are, however well it would fit.                       *)
AdmittedInOrder ==
    [][\A r \in live' \ live : \A i, j \in DOMAIN pending_list :
          pending_list[j] = r /\ i < j => pending_list[i] \in live']_vars

(* The reply that says finished is the last one of its request. *)
FinishedReplyIsLast ==
    [][\A r \in told_finished : req'[r].host_len = req[r].host_len]_vars

(* A request whose client was told that it finished got all the tokens it   *)
(* asked for, unless the model ended it.                                    *)
FinishedMeansComplete ==
    \A r \in told_finished :
        \/ req[r].host_len - Len(Prompt[r]) >= OutputLen(r)
        \/ r \notin IgnoreEos /\ \E i \in (Len(Prompt[r]) + 1)..req[r].host_len :
                                    req[r].ids[i] = Eos

(* Every request the scheduler accepts is finished or aborted in the end:   *)
(* no reservation, row or locked page is held in a way that blocks the head *)
(* of the pending list for ever, and decoding is not starved by prefills.   *)
AcceptedRequestsFinish ==
    \A r \in Req :
        Contains(pending_list, r) ~> r \in told_finished \cup (Abortable \ to_abort)

=============================================================================
