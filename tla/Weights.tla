------------------------------ MODULE Weights ------------------------------
(* Loading a GGUF checkpoint into a model: open and map the files, index    *)
(* and validate them (GGUFWeights), install the CPU experts, yield the      *)
(* weights one tensor at a time (GGUFWeights.weights), and hand them to     *)
(* load_state_dict.  The engine does these steps in this order.             *)
(*                                                                          *)
(* A value is the list of the pieces of the checkpoint it is made of, with  *)
(* its shape and type; the numbers in it are never looked into.  A reader   *)
(* is a record of its header fields and its tensors, in file order.         *)
EXTENDS WeightSpecs, TLC

CONSTANTS HFConfigs,      \* the model configurations tried
          DirsOf(_),      \* the checkpoint directories tried with each of them
          ChunkBytes      \* chunk_bytes of _dequantize

VARIABLES c, dir, at, step, readers, mapped, tensors, shard_ids,
          merged, combined_kv, state_dict, wrappers

weights_vars == <<c, dir, at, step, readers, mapped, tensors, shard_ids,
                  merged, combined_kv, state_dict, wrappers>>

NoValue == [pieces |-> <<>>]

WeightsInit ==
  /\ \E hf \in HFConfigs : c = from_hf(hf) /\ dir \in DirsOf(c)
  /\ at = "open" /\ step = 1 /\ readers = <<>> /\ mapped = <<>>
  /\ tensors = <<>> /\ shard_ids = <<>> /\ merged = <<>> /\ combined_kv = NoValue
  /\ state_dict = <<>> /\ wrappers = {}

Stop(verdict) ==
  /\ at' = verdict
  /\ UNCHANGED <<c, dir, step, readers, tensors, shard_ids, merged, combined_kv,
                 state_dict, wrappers>>

-----------------------------------------------------------------------------
(* open_gguf_readers and _MappedParts                                       *)


(* The byte-split parts of one checkpoint, in the order of their numbers,   *)
(* whatever order the directory lists them in.                              *)
Numbered(d) == [n \in 1..Len(d.parts) |-> CHOOSE p \in ToSet(d.parts) : p.number = n]

PartsRefused(d) ==
  LET parts == ToSet(d.parts)
  IN  \/ d.files # <<>>
      \/ {p.of : p \in parts} # {Len(d.parts)}
      \/ {p.number : p \in parts} # 1..Len(d.parts)
      \/ \E n \in 1..Len(d.parts) : LET size == Numbered(d)[n].size
                                    IN  size = "empty" \/ (size = "unaligned" /\ n < Len(d.parts))

OpenFiles ==
  /\ at = "open" /\ dir.parts = <<>>
  /\ IF dir.files = <<>>
     THEN Stop("rejected") /\ UNCHANGED mapped
     ELSE /\ at' = "index" /\ readers' = dir.files
          /\ UNCHANGED <<c, dir, step, mapped, tensors, shard_ids, merged, combined_kv,
                         state_dict, wrappers>>

OpenParts ==
  /\ at = "open" /\ dir.parts # <<>>
  /\ Stop(IF PartsRefused(dir) THEN "rejected" ELSE "map")
  /\ UNCHANGED mapped

(* One part is mapped behind the parts before it; when that fails the whole *)
(* range is unmapped.                                                       *)
MapPart ==
  /\ at = "map" /\ Len(mapped) < Len(dir.parts)
  /\ IF Len(mapped) < dir.mappable
     THEN mapped' = Append(mapped, Numbered(dir)[Len(mapped) + 1].piece) /\ Stop("map")
     ELSE mapped' = <<>> /\ Stop("rejected")

(* _PartsReader parses the mapped range: what it reads is the checkpoint    *)
(* only when the pieces are in place, and a read beyond its end is refused. *)
ReadParts ==
  /\ at = "map" /\ Len(mapped) = Len(dir.parts)
  /\ IF dir.truncated \/ mapped # [n \in 1..Len(mapped) |-> n]
     THEN Stop("rejected")
     ELSE /\ at' = "index" /\ readers' = <<dir.whole>>
          /\ UNCHANGED <<c, dir, step, tensors, shard_ids, merged, combined_kv,
                         state_dict, wrappers>>
  /\ UNCHANGED mapped

-----------------------------------------------------------------------------
(* GGUFWeights.__init__                                                     *)

FieldIs(reader, key, value) == key \in DOMAIN reader.fields => reader.fields[key] = value

ReaderRefused(reader, first) ==
  \/ ~reader.little_endian
  \/ first /\ "general.architecture" \notin DOMAIN reader.fields
  \/ ~FieldIs(reader, "general.architecture", Architecture(c))
  \/ "split.count" \in DOMAIN reader.fields /\ "split.no" \notin DOMAIN reader.fields
  \/ ~FieldIs(reader, "split.count", Len(readers))
  \/ \E i \in DOMAIN reader.tensors :
        \/ reader.tensors[i].name \in DOMAIN tensors
        \/ \E j \in 1..(i - 1) : reader.tensors[j].name = reader.tensors[i].name

IndexReader ==
  /\ at = "index" /\ step <= Len(readers)
  /\ LET reader == readers[step]
         names == {t.name : t \in ToSet(reader.tensors)}
         ShapeOf(name) == (CHOOSE t \in ToSet(reader.tensors) : t.name = name).shape
     IN  IF ReaderRefused(reader, step = 1)
         THEN Stop("rejected") /\ UNCHANGED mapped
         ELSE /\ tensors' = [n \in names |-> ShapeOf(n)] @@ tensors
              /\ shard_ids' = IF "split.count" \in DOMAIN reader.fields
                              THEN Append(shard_ids, reader.fields["split.no"]) ELSE shard_ids
              /\ step' = step + 1
              /\ UNCHANGED <<c, dir, at, readers, mapped, merged, combined_kv, state_dict,
                             wrappers>>

ShardsRefused ==
  \/ /\ shard_ids # <<>>
     /\ \/ Len(shard_ids) # Len(readers)
        \/ ToSet(shard_ids) # 0 .. Len(readers) - 1
  \/ Len(readers) > 1 /\ shard_ids = <<>>

HasCombinedKV(l) == <<l, "attn_kv_b.weight">> \in DOMAIN tensors

(* Every tensor the checkpoint must have, experts included, with its shape; *)
(* a layer with a combined KV-B has no K-B and V-B.                         *)
Expected ==
  LET specs == ToSet(_gpu_tensor_specs(c))
      dropped == {<<l, kv>> : l \in {m \in Layers(c) : is_mla(c) /\ HasCombinedKV(m)},
                              kv \in {"attn_k_b.weight", "attn_v_b.weight"}}
      gpu == {s \in specs : s.source \notin dropped}
      combined == {<<l, "attn_kv_b.weight">> : l \in {d[1] : d \in dropped}}
      experts == {<<l, p>> : l \in MoELayers(c),
                  p \in {"ffn_gate_exps.weight", "ffn_up_exps.weight", "ffn_down_exps.weight"}}
  IN  [n \in {s.source : s \in gpu} |-> (CHOOSE s \in gpu : s.source = n).shape]
      @@ [n \in combined |-> <<c.num_qo_heads * (c.qk_nope_head_dim + c.v_head_dim),
                               c.kv_lora_rank>>]
      @@ [n \in experts |-> IF n[2] = "ffn_down_exps.weight"
                            THEN <<c.num_experts, c.hidden_size, c.moe_intermediate_size>>
                            ELSE <<c.num_experts, c.moe_intermediate_size, c.hidden_size>>]

(* The header fields the configuration fixes; the first reader tells        *)
(* whether the heads of an MLA checkpoint are compressed, and how many      *)
(* prediction layers a GLM checkpoint has on top.                           *)
Metadata ==
  LET first == readers[1].fields
      compressed == "attention.head_count_kv" \in DOMAIN first
                      /\ first["attention.head_count_kv"] = 1
      nextn == IF "nextn_predict_layers" \in DOMAIN first THEN first["nextn_predict_layers"] ELSE 0
      shared == [n \in {"rope.dimension_count", "leading_dense_block_count",
                        "expert_shared_count"} |->
                   CASE n = "rope.dimension_count" -> c.rotary_dim
                     [] n = "leading_dense_block_count" -> c.first_k_dense_replace
                     [] OTHER -> c.n_shared_experts]
      mla == ("attention.head_count_kv" :> (IF compressed THEN 1 ELSE c.num_kv_heads)
              @@ "attention.key_length" :>
                   (IF compressed THEN c.kv_lora_rank + c.qk_rope_head_dim ELSE c.head_dim)
              @@ "attention.value_length" :>
                   (IF compressed THEN c.kv_lora_rank ELSE c.v_head_dim)
              @@ "attention.key_length_mla" :> c.head_dim
              @@ "attention.value_length_mla" :> c.v_head_dim
              @@ "attention.q_lora_rank" :> c.q_lora_rank
              @@ "attention.kv_lora_rank" :> c.kv_lora_rank)
      plain == ("block_count" :> c.num_layers + (IF is_glm4_moe(c) THEN nextn ELSE 0)
                @@ "embedding_length" :> c.hidden_size
                @@ "attention.head_count" :> c.num_qo_heads
                @@ "attention.head_count_kv" :> c.num_kv_heads
                @@ "attention.key_length" :> c.head_dim
                @@ "attention.value_length" :> c.head_dim
                @@ "expert_count" :> c.num_experts
                @@ "expert_feed_forward_length" :> c.moe_intermediate_size
                @@ "rope.freq_base" :> c.base)
  IN  CASE is_mla(c) -> mla @@ shared @@ plain
        [] is_glm4_moe(c) -> shared @@ plain
        [] OTHER -> plain

Validate ==
  /\ at = "index" /\ step > Len(readers)
  /\ LET expected == Expected
         metadata == Metadata
         accepted ==
           /\ ~ShardsRefused
           /\ \A n \in DOMAIN expected : n \in DOMAIN tensors /\ tensors[n] = expected[n]
           /\ \A i \in DOMAIN readers, k \in DOMAIN metadata : FieldIs(readers[i], k, metadata[k])
     IN  at' = IF accepted THEN "experts" ELSE "rejected"
  /\ step' = 1
  /\ UNCHANGED <<c, dir, readers, mapped, tensors, shard_ids, merged, combined_kv, state_dict,
                 wrappers>>

-----------------------------------------------------------------------------
(* load_ktransformers_experts: every routed MLP is replaced by (Qwen3) or   *)
(* given (DeepSeek, GLM) a wrapper, which reads the packed experts.         *)
InstallExperts ==
  /\ at = "experts"
  /\ wrappers' = {l \in Layers(c) : is_mla(c) \/ is_glm4_moe(c) => l >= c.first_k_dense_replace}
  /\ at' = IF \A l \in wrappers' :
                \A p \in {"gate", "up", "down"} :
                   <<l, "ffn_" \o p \o "_exps.weight">> \in DOMAIN tensors
           THEN "weights" ELSE "crash"
  /\ UNCHANGED <<c, dir, step, readers, mapped, tensors, shard_ids, merged, combined_kv,
                 state_dict>>

-----------------------------------------------------------------------------
(* GGUFWeights.weights                                                      *)

(* The rows _dequantize fills, a chunk at a time.                           *)
WrittenRows(rows, width) ==
  LET quotient == ChunkBytes \div (width * 4)
      chunk == IF quotient > 1 THEN quotient ELSE 1
      starts == {k * chunk : k \in 0 .. (rows - 1) \div chunk}
  IN  UNION {s .. (IF s + chunk < rows THEN s + chunk ELSE rows) - 1 : s \in starts}

_dequantize(name, dtype) ==
  LET shape == tensors[name]
      rows == IF Len(shape) = 1 THEN 1
              ELSE IF Len(shape) = 2 THEN shape[1] ELSE shape[1] * shape[2]
      filled == WrittenRows(rows, shape[Len(shape)]) = 0 .. rows - 1
  IN  [pieces |-> <<IF filled THEN name ELSE "uninitialised">>, shape |-> shape, dtype |-> dtype]

(* K-B and V-B of a layer are two slices of its combined KV-B, the first    *)
(* one transposed; the value read for K-B is kept for V-B.                  *)
YieldCombinedKV(spec) ==
  LET l == spec.source[1]
      read == _dequantize(<<l, "attn_kv_b.weight">>, "bfloat16")
      Slice(value, half, shape) ==
        (spec.target :> [value EXCEPT !.pieces = <<Append(@[1], half)>>, !.shape = shape])
  IN  IF spec.source[2] = "attn_k_b.weight"
      THEN /\ combined_kv' = read
           /\ state_dict' =
                Slice(read, "k", <<c.num_qo_heads, c.kv_lora_rank, c.qk_nope_head_dim>>)
                  @@ state_dict
           /\ UNCHANGED at
      ELSE /\ combined_kv' = NoValue
           /\ IF combined_kv = NoValue
              THEN at' = "crash" /\ UNCHANGED state_dict
              ELSE /\ state_dict' =
                        Slice(combined_kv, "v", <<c.num_qo_heads, c.v_head_dim, c.kv_lora_rank>>)
                          @@ state_dict
                   /\ UNCHANGED at

Kind(target) ==
  LET qkv == target[3] \in {"q_proj", "k_proj", "v_proj"}
  IN  CASE qkv /\ target[4] = "weight" -> "qkv"
        [] qkv /\ target[4] = "bias" -> "qkv_bias"
        [] target[3] \in {"gate_proj", "up_proj"} -> "gate_up"
        [] OTHER -> "alone"

(* How many tensors of each kind make one parameter, and its name.          *)
Group(kind) == CASE kind \in {"qkv", "qkv_bias"} -> 3 [] kind = "gate_up" -> 2 [] OTHER -> 1
MergedTarget(target) ==
  CASE Kind(target) = "qkv" -> [target EXCEPT ![3] = "qkv_proj"]
    [] Kind(target) = "qkv_bias" -> [target EXCEPT ![3] = "qkv_bias", ![4] = ""]
    [] Kind(target) = "gate_up" -> [target EXCEPT ![3] = "gate_up_proj"]
    [] OTHER -> target

IsMarlin(target) ==
  \/ Kind(target) \in {"qkv", "gate_up"}
  \/ target[3] \in {"o_proj", "lm_head", "q_a_proj", "q_b_proj", "kv_a_proj_with_mqa", "down_proj"}

(* torch.cat along the rows.                                                *)
Cat(values) ==
  [pieces |-> FlattenSeq([i \in DOMAIN values |-> values[i].pieces]),
   shape |-> <<FoldSeq(LAMBDA v, sum : sum + v.shape[1], 0, values)>> \o Tail(values[1].shape),
   dtype |-> values[1].dtype]

Yielded(target, marlin, value) ==
  IF marlin
  THEN LET shapes == Marlin(value.shape[1], value.shape[2])
       IN  target :> [value EXCEPT !.shape = shapes.weight, !.dtype = "int32"]
           @@ [target EXCEPT ![4] = "scales"] :> [value EXCEPT !.shape = shapes.scales]
  ELSE target :> value

YieldTensor(spec) ==
  LET kind == Kind(spec.target)
      router == spec.target[2] = "mlp" /\ spec.target[3] = "gate"
      dtype == IF (is_mla(c) \/ is_glm4_moe(c)) /\ router THEN "float32" ELSE "bfloat16"
      pending == Append(merged, _dequantize(spec.source, dtype))
      complete == kind = "alone" \/ Len(pending) >= Group(kind)
      value == IF kind = "alone" THEN pending[Len(pending)] ELSE Cat(pending)
  IN  /\ merged' = IF kind = "alone" THEN merged ELSE IF complete THEN <<>> ELSE pending
      /\ state_dict' = IF ~complete THEN state_dict
                       ELSE Yielded(MergedTarget(spec.target), IsMarlin(spec.target), value)
                              @@ state_dict
      /\ UNCHANGED <<combined_kv, at>>

Yield ==
  /\ at = "weights" /\ step <= Len(_gpu_tensor_specs(c))
  /\ LET spec == _gpu_tensor_specs(c)[step]
         half == is_mla(c) /\ spec.source[2] \in {"attn_k_b.weight", "attn_v_b.weight"}
     IN  IF half /\ HasCombinedKV(spec.source[1])
         THEN YieldCombinedKV(spec) /\ UNCHANGED merged
         ELSE YieldTensor(spec)
  /\ step' = step + 1
  /\ UNCHANGED <<c, dir, readers, mapped, tensors, shard_ids, wrappers>>

-----------------------------------------------------------------------------
(* BaseOP.load_state_dict: every parameter pops its name, with its shape    *)
(* and type, and nothing may be left.                                       *)
Load ==
  /\ at = "weights" /\ step > Len(_gpu_tensor_specs(c))
  /\ LET held == Parameters(c)
         popped == {p[1] : p \in held}
         fits == /\ popped \subseteq DOMAIN state_dict
                 /\ \A p \in held : /\ state_dict[p[1]].shape = p[2]
                                    /\ state_dict[p[1]].dtype = p[3]
     IN  Stop(IF fits /\ DOMAIN state_dict = popped THEN "loaded" ELSE "crash")
  /\ UNCHANGED mapped

WeightsNext ==
  \/ OpenFiles
  \/ OpenParts
  \/ MapPart
  \/ ReadParts
  \/ IndexReader
  \/ Validate
  \/ InstallExperts
  \/ Yield
  \/ Load

-----------------------------------------------------------------------------
(* The tensor of the checkpoint each unmerged parameter holds.              *)
GGUFName ==
  [embed_tokens |-> "token_embd", norm |-> "output_norm", o_proj |-> "attn_output",
   q_norm |-> "attn_q_norm", k_norm |-> "attn_k_norm", input_layernorm |-> "attn_norm",
   post_attention_layernorm |-> IF is_glm4_moe(c) THEN "post_attention_norm" ELSE "ffn_norm",
   gate |-> "ffn_gate_inp", q_a_proj |-> "attn_q_a", q_a_layernorm |-> "attn_q_a_norm",
   q_b_proj |-> "attn_q_b", kv_a_proj_with_mqa |-> "attn_kv_a_mqa",
   kv_a_layernorm |-> "attn_kv_a_norm", k_b_proj |-> "attn_k_b", v_b_proj |-> "attn_v_b",
   lm_head |-> IF c.tie_word_embeddings THEN "token_embd" ELSE "output"]

(* The pieces a parameter must hold, in order.                              *)
PiecesOf(key) ==
  LET l == key[1]
      shexp == IF key[2] = "mlp.shared_experts" THEN "_shexp" ELSE ""
      Named(base) == <<l, base \o ".weight">>
  IN  CASE key[3] = "qkv_proj" -> <<Named("attn_q"), Named("attn_k"), Named("attn_v")>>
        [] key[3] = "qkv_bias" -> <<<<l, "attn_q.bias">>, <<l, "attn_k.bias">>, <<l, "attn_v.bias">>>>
        [] key[3] = "gate_up_proj" -> <<Named("ffn_gate" \o shexp), Named("ffn_up" \o shexp)>>
        [] key[3] = "down_proj" -> <<Named("ffn_down" \o shexp)>>
        [] key[4] = "e_score_correction_bias" -> <<<<l, "exp_probs_b.bias">>>>
        [] key[3] = "k_b_proj" /\ HasCombinedKV(l) -> <<<<l, "attn_kv_b.weight", "k">>>>
        [] key[3] = "v_b_proj" /\ HasCombinedKV(l) -> <<<<l, "attn_kv_b.weight", "v">>>>
        [] OTHER -> <<Named(GGUFName[key[3]])>>

=============================================================================
