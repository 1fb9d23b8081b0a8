----------------------------- MODULE Attention -----------------------------
(* What the attention of a batch reads: each backend makes its metadata     *)
(* from the page table (attention/fi.py, fi_mla.py, fa.py, trtllm.py), and  *)
(* a decode batch that fits is padded and replayed from a CUDA graph, whose *)
(* buffers keep what earlier batches left in them (engine/graph.py).        *)
EXTENDS EngineBoot, Functions

CONSTANTS
  Batches(_, _),  \* the batches of requests of up to a length, under a configuration
  MaxRuns         \* bound: batches run

VARIABLES
  runs,   \* batches run
  reads   \* what the last batch's query tokens read, <<>> before it

attention_vars == <<boot_vars, runs, reads>>

AttentionInit == BootInit /\ runs = 0 /\ reads = <<>>

(* allocate_paged: the batch's requests get pages in turn; the row of the   *)
(* dummy request points to the page after the last.                         *)
PagesFor(len) == (len + config.page_size - 1) \div config.page_size
Before(reqs, i) == SumFunction([k \in 1..i - 1 |-> PagesFor(reqs[k].len)])
Allocated(reqs) ==
  [i \in DOMAIN reqs |-> "page" :> Before(reqs, i) @@ reqs[i]]
page_table_at(req, t) ==
  IF req.page = eng.num_pages THEN eng.num_tokens ELSE req.page * config.page_size + t
OverrunsRow(reqs) == \E r \in Range(reqs) : PagesFor(r.len) * config.page_size > eng.columns

(* pad_batch.                                                               *)
dummy_req == [cached |-> 0, len |-> 1, page |-> eng.num_pages]
can_use_cuda_graph(batch) == batch.phase = "decode" /\ Len(batch.reqs) <= MaxGraph
padded_size(batch) ==
  IF can_use_cuda_graph(batch) THEN Min({bs \in eng.graph_bs_list : bs >= Len(batch.reqs)})
  ELSE Len(batch.reqs)
padded_reqs(batch) ==
  Allocated(batch.reqs) \o [i \in 1..padded_size(batch) - Len(batch.reqs) |-> dummy_req]

Lengths(reqs) == [i \in DOMAIN reqs |-> reqs[i].len]
Extends(reqs) == [i \in DOMAIN reqs |-> reqs[i].len - reqs[i].cached]
Cumulated(s) == [i \in 0..Len(s) |-> SumFunction(SubSeq(s, 1, i))]

(* prepare_metadata: FlashInfer lists locations, the others a request's     *)
(* pages.                                                                   *)
ListsTokens(kind) == kind \in {"fi", "mla"}
prepare_metadata(kind, reqs) ==
  LET size == config.page_size
      q == Extends(reqs)
      k == Cumulated(Lengths(reqs))
      pages == 1..PagesFor(Max(Range(Lengths(reqs))))
      tokens == FlattenSeq([i \in DOMAIN reqs |->
                  [t \in 1..reqs[i].len |-> page_table_at(reqs[i], t - 1)]])
  IN  [cu_seqlens_q |-> CASE kind # "mla" /\ Max(Range(q)) = 1 -> [i \in 0..Len(reqs) |-> i]
                          [] kind # "mla" /\ \A r \in Range(reqs) : r.cached = 0 -> k
                          [] OTHER -> Cumulated(q),
       cu_seqlens_k |-> k, seq_lens |-> Lengths(reqs),
       page_table |->
         IF ListsTokens(kind) THEN [e \in {1} \X (DOMAIN tokens) |-> tokens[e[2]]]
         ELSE [e \in (DOMAIN reqs) \X pages |->
                 page_table_at(reqs[e[1]], (e[2] - 1) * size) \div size]]

(* A seeded fault, used by no specification: lengths are not copied.        *)
Replayed_LengthsKept(m, c) ==
  [cu_seqlens_q |-> [i \in DOMAIN c.cu_seqlens_k |-> i],
   cu_seqlens_k |-> m.cu_seqlens_k @@ c.cu_seqlens_k, seq_lens |-> c.seq_lens,
   page_table |-> m.page_table @@ c.page_table]

(* prepare_for_replay writes the metadata over what the buffers held.       *)
Replayed(m, c) ==
  [cu_seqlens_q |-> [i \in DOMAIN c.cu_seqlens_k |-> i],
   cu_seqlens_k |-> m.cu_seqlens_k @@ c.cu_seqlens_k, seq_lens |-> m.seq_lens @@ c.seq_lens,
   page_table |-> m.page_table @@ c.page_table]

(* The kernels: each query token of request i sees its keys up to its own.  *)
Attended(kind, m, i) ==
  LET n == m.cu_seqlens_q[i] - m.cu_seqlens_q[i - 1]
      size == config.page_size
      At(t) == IF ListsTokens(kind) THEN m.page_table[1, m.cu_seqlens_k[i - 1] + t + 1]
               ELSE m.page_table[i, t \div size + 1] * size + (t % size)
  IN  [j \in 1..n |-> [t \in 0..m.seq_lens[i] - n + j - 1 |-> At(t)]]

(* A batch of requests: each query token's reads, where its key is stored,  *)
(* and the row of the logits each request is sampled from.                  *)
RunBatch(batch) ==
  LET reqs == padded_reqs(batch)
      real == DOMAIN batch.reqs
      graph == can_use_cuda_graph(batch)
      backend == Backend(batch.phase)
      kind == IF backend = "fi" /\ host.is_mla THEN "mla" ELSE backend
      m == prepare_metadata(kind, reqs)
      used == IF graph THEN Replayed(m, eng.capture) ELSE m
      out_loc == FlattenSeq([i \in DOMAIN reqs |->
                   [j \in 1..Extends(reqs)[i] |-> page_table_at(reqs[i], reqs[i].cached + j - 1)]])
  IN  /\ stage = "ready" /\ runs < MaxRuns
      /\ Before(batch.reqs, Len(batch.reqs) + 1) <= eng.num_pages
      /\ runs' = runs + 1
      /\ IF OverrunsRow(batch.reqs)
         THEN stage' = "overrun" /\ UNCHANGED <<eng, reads>>
         ELSE /\ reads' = [reqs |-> SubSeq(reqs, 1, Len(batch.reqs)), tokens |-> Len(out_loc),
                           attended |-> [i \in real |-> Attended(kind, used, i)],
                           out_loc |-> out_loc,
                           sampled |-> [i \in real |-> IF batch.phase = "prefill"
                                                       THEN m.cu_seqlens_q[i] - 1 ELSE i - 1]]
              /\ eng' = IF graph THEN [eng EXCEPT !.capture =
                                         [f \in DOMAIN @ |-> used[f]]] ELSE eng
              /\ UNCHANGED stage
      /\ UNCHANGED <<host, config>>

AttentionNext ==
  \/ BootNext /\ UNCHANGED <<runs, reads>>
  \/ stage = "ready" /\ \E batch \in Batches(eng.max_seq_len, config) : RunBatch(batch)

(* Whatever backend and graph a batch runs with, and whatever earlier       *)
(* batches left in the graph's buffers: a token's attention reads the keys  *)
(* of its own request up to its own, which is stored where it is read, each *)
(* request is sampled from its own last token, and the CPU experts have     *)
(* room for the batch. Only where the page size does not divide the columns *)
(* of the page table can a request overrun its row of it.                   *)
AttentionExact ==
  /\ reads # <<>> =>
       LET reqs == reads.reqs
           at(i) == SumFunction(SubSeq(Extends(reqs), 1, i))
           own(i, j) == [t \in 0..reqs[i].cached + j - 1 |-> page_table_at(reqs[i], t)]
       IN  /\ \A i \in DOMAIN reqs :
                /\ reads.attended[i] = [j \in 1..Extends(reqs)[i] |-> own(i, j)]
                /\ \A j \in 1..Extends(reqs)[i] :
                     reads.out_loc[at(i - 1) + j] = own(i, j)[reqs[i].cached + j - 1]
                /\ reads.sampled[i] = at(i) - 1
           /\ reads.tokens <= eng.capacity
  /\ stage = "overrun" => eng.columns % config.page_size # 0
============================================================================
