------------------------------ MODULE MCEngine ------------------------------
(* Instances of the four parts of the engine, each checked in states where  *)
(* the other three stand still: a checkpoint is loaded, batches run from a  *)
(* configured engine, Python drives two streams, and micro-batches take     *)
(* turns.                                                                   *)
EXTENDS Weights, DualBatch, Streams, Attention

VARIABLE part   \* which of the four runs
parts_vars == <<part>>

(* Weights: five configurations, each with a sound checkpoint in several    *)
(* layouts and with every kind of damage a checkpoint can have.             *)
Attention16 ==
  [num_hidden_layers |-> 2, num_attention_heads |-> 2, hidden_size |-> 160, vocab_size |-> 70,
   intermediate_size |-> 96, rope_theta |-> 7]
Qwen3 ==
  Attention16 @@ [model_type |-> "qwen3_moe", architectures |-> "Qwen3MoeForCausalLM",
                  num_key_value_heads |-> 1, head_dim |-> 48, num_experts |-> 3,
                  moe_intermediate_size |-> 40]
Glm4 ==
  Attention16 @@ [model_type |-> "glm4_moe", architectures |-> "Glm4MoeForCausalLM",
                  num_key_value_heads |-> 1, n_routed_experts |-> 3,
                  moe_intermediate_size |-> 40, partial_rotary_divisor |-> 2,
                  first_k_dense_replace |-> 1, n_shared_experts |-> 2]
Deepseek ==
  Attention16 @@ [model_type |-> "deepseek_v2", architectures |-> "DeepseekV2ForCausalLM",
                  n_routed_experts |-> 3, moe_intermediate_size |-> 40,
                  first_k_dense_replace |-> 1, n_shared_experts |-> 2, q_lora_rank |-> 150,
                  kv_lora_rank |-> 90, qk_nope_head_dim |-> 30, qk_rope_head_dim |-> 20,
                  v_head_dim |-> 35]
MCHFConfigs ==
  {Qwen3, Glm4, Deepseek, [tie_word_embeddings |-> TRUE] @@ Qwen3,
   [architectures |-> "Qwen3MoeForCausalLM", text_config |-> Attention16 @@
      [model_type |-> "qwen3_moe", head_dim |-> 48, num_experts |-> 3,
       moe_intermediate_size |-> 40]]}

(* What llama.cpp writes for a configuration.                               *)
Written(conf, combined) ==
  LET Tensor1(l, name, shape) == [name |-> <<l, name>>, shape |-> shape]
      Wide(l, p) == Tensor1(l, "ffn_" \o p \o "_exps.weight",
                            <<conf.num_experts, conf.moe_intermediate_size, conf.hidden_size>>)
      Wides(l) == << Wide(l, "gate"), Wide(l, "up"),
                       Tensor1(l, "ffn_down_exps.weight",
                          <<conf.num_experts, conf.hidden_size, conf.moe_intermediate_size>>) >>
      KVB(l) == << Tensor1(l, "attn_kv_b.weight",
                     <<conf.num_qo_heads * (conf.qk_nope_head_dim + conf.v_head_dim),
                       conf.kv_lora_rank>>) >>
      Split(s) == s.source[2] \in {"attn_k_b.weight", "attn_v_b.weight"}
      tied(s) == s.target[3] = "lm_head" /\ conf.tie_word_embeddings
      read == SelectSeq(_gpu_tensor_specs(conf),
                        LAMBDA s : ~tied(s) /\ ~(combined /\ Split(s)))
  IN  [i \in DOMAIN read |-> [name |-> read[i].source, shape |-> read[i].shape]]
      \o FlattenSeq([i \in 1..conf.num_layers |->
            (IF i - 1 \in MoELayers(conf) THEN Wides(i - 1) ELSE <<>>)
            \o (IF combined THEN KVB(i - 1) ELSE <<>>)])

Header(conf) ==
  "general.architecture" :> Architecture(conf) @@ "embedding_length" :> conf.hidden_size
  @@ (IF is_glm4_moe(conf)
      THEN "nextn_predict_layers" :> 1 @@ "block_count" :> conf.num_layers + 1
      ELSE "block_count" :> conf.num_layers)
  @@ (IF is_mla(conf)
      THEN "attention.head_count_kv" :> 1
           @@ "attention.key_length" :> conf.kv_lora_rank + conf.qk_rope_head_dim
      ELSE "attention.head_count_kv" :> conf.num_kv_heads
           @@ "attention.key_length" :> conf.head_dim)

File(fields, written) ==
  [little_endian |-> TRUE, fields |-> fields, tensors |-> written]
WholeFile(conf, combined) == File(Header(conf), Written(conf, combined))

Directory(files, damaged) ==
  [files |-> files, parts |-> <<>>, whole |-> <<>>, mappable |-> 0, truncated |-> FALSE,
   damaged |-> damaged]

(* Two shards; the second has no header of its own but its shard number.    *)
Shards(conf, combined, numbers) ==
  LET Second(t) == t.name[1] = 1
      Split(no) == "split.count" :> 2 @@ "split.no" :> no
  IN  << File(Header(conf) @@ Split(numbers[1]),
              SelectSeq(Written(conf, combined), LAMBDA t : ~Second(t))),
         File(Split(numbers[2]), SelectSeq(Written(conf, combined), Second)) >>

PartFile(number, of, size) == [number |-> number, of |-> of, size |-> size, piece |-> number]
(* Three byte-split parts, listed as their file names sort.                 *)
Parts(conf, parts, mappable, truncated, damaged) ==
  [files |-> <<>>, parts |-> parts, whole |-> WholeFile(conf, FALSE), mappable |-> mappable,
   truncated |-> truncated, damaged |-> damaged]
Three(size3) == << PartFile(3, 3, size3), PartFile(1, 3, "pages"), PartFile(2, 3, "pages") >>

Damaged(conf, w) ==
  LET Turned(t) == IF t.name # <<1, "ffn_down_exps.weight">> THEN t
                   ELSE [t EXCEPT !.shape = << @[1], @[3], @[2] >>]
  IN  { <<>>, << [w EXCEPT !.little_endian = FALSE] >>,
        << [w EXCEPT !.fields = ("general.architecture" :> "llama") @@ @] >>,
        << [w EXCEPT !.fields = ("block_count" :> conf.num_layers + 2) @@ @] >>,
        << [w EXCEPT !.fields = ("split.count" :> 2 @@ "split.no" :> 0) @@ @] >>,
        << [w EXCEPT !.tensors = Append(@, @[1])] >>,
        << w, w >>, << w, File(w.fields, <<>>) >>,
        << [w EXCEPT !.tensors = [i \in DOMAIN @ |-> Turned(@[i])]] >>,
        Shards(conf, FALSE, <<0, 0>>), Shards(conf, FALSE, <<1, 2>>) }
      \union { << [w EXCEPT !.tensors = RemoveAt(@, i)] >> :
                  i \in {j \in DOMAIN w.tensors : w.tensors[j].name[1] # 0} }

MCDirsOf(conf) ==
  LET whole == WholeFile(conf, FALSE)
      combined == IF is_mla(conf) THEN {FALSE, TRUE} ELSE {FALSE}
  IN  {Directory(<<WholeFile(conf, k)>>, FALSE) : k \in combined}
      \union {Directory(Shards(conf, k, n), FALSE) : k \in combined, n \in {<<0, 1>>, <<1, 0>>}}
      \union {Directory(d, TRUE) : d \in Damaged(conf, whole)}
      \union {Parts(conf, Three(size3), 3, FALSE, FALSE) : size3 \in {"pages", "unaligned"}}
      \union {Parts(conf, Three("pages"), 2, FALSE, TRUE),
              Parts(conf, Three("pages"), 3, TRUE, TRUE),
              Parts(conf, Three("empty"), 3, FALSE, TRUE),
              Parts(conf, << PartFile(1, 3, "unaligned"), PartFile(2, 3, "pages"), PartFile(3, 3, "pages") >>,
                    3, FALSE, TRUE),
              Parts(conf, << PartFile(1, 3, "pages"), PartFile(3, 3, "pages") >>, 2, FALSE, TRUE),
              [Parts(conf, Three("pages"), 3, FALSE, TRUE) EXCEPT !.files = <<whole>>]}

(* Attention: one sound command line on six hosts, and what else may be     *)
(* asked of the first of them.                                              *)
Sound ==
  [shell_mode |-> FALSE, attention_backend |-> <<"auto">>, dtype |-> "auto",
   cache_type |-> "radix", moe_backend |-> "kt", kt_method |-> "LLAMAFILE",
   kt_weight_path |-> TRUE, kt_cpuinfer |-> 4, kt_threadpool_count |-> 2, tp_size |-> 1,
   max_running_req |-> 3, max_extend_tokens |-> 6, max_seq_len_override |-> {},
   num_page_override |-> {}, page_size |-> 1, memory_percent |-> 90,
   cuda_graph_max_bs |-> {2}, cuda_graph_bs |-> {}]
Ampere ==
  [dtype |-> "bfloat16", supported |-> TRUE, is_mla |-> FALSE, mla_sizes |-> FALSE, sm |-> 80,
   max_position |-> 6, free |-> 100, model_memory |-> 50, cache_width |-> 2, free_gb |-> 40]
MCHosts ==
  {Ampere, [Ampere EXCEPT !.sm = 90], [Ampere EXCEPT !.sm = 100, !.cache_width = 1, !.free = 300],
   [Ampere EXCEPT !.is_mla = TRUE, !.mla_sizes = TRUE], [Ampere EXCEPT !.dtype = "float32"],
   [Ampere EXCEPT !.model_memory = 95]}
MCCommandLines(h) ==
  {Sound} \union
  IF h # Ampere THEN {}
  ELSE {[Sound EXCEPT !.shell_mode = TRUE], [Sound EXCEPT !.tp_size = 2],
        [Sound EXCEPT !.kt_weight_path = FALSE], [Sound EXCEPT !.kt_threadpool_count = 5],
        [Sound EXCEPT !.moe_backend = "fused"],
        [Sound EXCEPT !.attention_backend = <<"auto", "fi">>],
        [Sound EXCEPT !.attention_backend = <<"fi", "fa", "fi">>],
        [Sound EXCEPT !.cuda_graph_max_bs = {0}], [Sound EXCEPT !.cuda_graph_bs = {1, 3}],
        [Sound EXCEPT !.cuda_graph_max_bs = {}, !.num_page_override = {9}],
        [Sound EXCEPT !.attention_backend = <<"fa">>, !.page_size = 4, !.num_page_override = {6}],
        [Sound EXCEPT !.attention_backend = <<"fa", "fi">>, !.page_size = 2,
                      !.num_page_override = {9}],
        [Sound EXCEPT !.attention_backend = <<"trtllm", "fa">>, !.max_seq_len_override = {70},
                      !.num_page_override = {4}, !.max_extend_tokens = 80]}
MCBatches(longest, conf) ==
  LET Of(S, n) == UNION {[1..k -> S] : k \in 1..Min({n, conf.max_running_req})}
      req(before, len) == [cached |-> before, len |-> len]
      decodes == {req(1, 2), req(longest - 1, longest)}
      prefills == {req(0, 1), req(0, 2), req(1, 3), req(longest - 2, longest - 1)}
      Fits(s) == SumFunction([i \in DOMAIN s |-> s[i].len - s[i].cached])
                 <= conf.max_extend_tokens
  IN  {[phase |-> "decode", reqs |-> s] : s \in Of(decodes, 3)}
      \union {[phase |-> "prefill", reqs |-> s] : s \in {t \in Of(prefills, 2) : Fits(t)}}

(* Streams: three prompts, the second in two chunks.                        *)
MCPrompts == <<1, 3, 2>>

(* DualBatch: pairs either runner is given, and pairs the DeepSeek runner   *)
(* must refuse.                                                             *)
Decodes(rows) ==
  [rows |-> rows, is_decode |-> TRUE, padded_size |-> Len(rows), extend_len |-> 1]
PairOf(m0, m1) == [mb \in MB |-> IF mb = 0 THEN m0 ELSE m1]
MCSupplied(runner) ==
  {PairOf(Decodes(<<1, 2>>), Decodes(<<3>>)), PairOf(Decodes(<<2>>), Decodes(<<1>>)),
   PairOf(Decodes(<<1>>), Decodes(<<3, 2>>))}
  \union
  IF runner = "glm" THEN {}
  ELSE {PairOf(Decodes(<<1, 2>>), Decodes(<<2>>)), PairOf(Decodes(<<1, 2, 3>>), Decodes(<<4>>)),
        PairOf(Decodes(<<1>>), [Decodes(<<2>>) EXCEPT !.padded_size = 2]),
        PairOf(Decodes(<<1>>), [Decodes(<<2>>) EXCEPT !.is_decode = FALSE]),
        PairOf(Decodes(<<1>>), [Decodes(<<2>>) EXCEPT !.extend_len = 2])}

(* The part that runs may start in any of its states, the others in one.    *)
EngineInit ==
  /\ part \in {"weights", "attention", "streams", "dual"}
  /\ WeightsInit
  /\ part # "weights" => c = from_hf(Qwen3) /\ dir = Directory(<<WholeFile(c, FALSE)>>, FALSE)
  /\ AttentionInit /\ (part # "attention" => host = Ampere /\ config = Sound)
  /\ StreamsInit /\ (part # "streams" => overlap)
  /\ DualInit /\ (part # "dual" => family = "glm")

EngineNext ==
  \/ /\ part = "weights" /\ WeightsNext
     /\ UNCHANGED <<parts_vars, attention_vars, stream_vars, dual_vars>>
  \/ /\ part = "attention" /\ AttentionNext
     /\ UNCHANGED <<parts_vars, weights_vars, stream_vars, dual_vars>>
  \/ /\ part = "streams" /\ StreamsNext
     /\ UNCHANGED <<parts_vars, weights_vars, attention_vars, dual_vars>>
  \/ /\ part = "dual" /\ DualNext
     /\ UNCHANGED <<parts_vars, weights_vars, attention_vars, stream_vars>>

EngineSpec ==
  EngineInit /\ [][EngineNext]_<<parts_vars, weights_vars, attention_vars, stream_vars, dual_vars>>
=============================================================================
