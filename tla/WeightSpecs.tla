------------------------------ MODULE WeightSpecs ------------------------------
(* The two sides a checkpoint is loaded between: the tensors models/gguf.py *)
(* asks of it, and the parameters the three models hold (models/config.py,  *)
(* the model files, layers/marlin.py, moe/ktransformers.py).                *)
(*                                                                          *)
(* A tensor of the checkpoint is named <<layer, base name>> and a parameter *)
(* of the model <<layer, module, op, kind>>; the layer is -1 outside the    *)
(* layers.                                                                  *)
EXTENDS Integers, Sequences, SequencesExt, FiniteSets

(* ModelConfig of a Hugging Face configuration, a function on the names of  *)
(* the attributes it has.                                                   *)
from_hf(config) ==
  LET GetFrom(r, name, default) == IF name \in DOMAIN r THEN r[name] ELSE default
      shared == {"architectures", "rope_theta"}
      text == GetFrom(config, "text_config", config)
      given == {n \in shared : n \notin DOMAIN text /\ n \in DOMAIN config}
      f == [n \in DOMAIN text \union given |-> IF n \in given THEN config[n] ELSE text[n]]
      Get(name, default) == GetFrom(f, name, default)
      type == Get("model_type", "llama")
      mla == type = "deepseek_v2"
      head_dim == IF mla THEN f.qk_nope_head_dim + f.qk_rope_head_dim
                  ELSE Get("head_dim", f.hidden_size \div f.num_attention_heads)
      Mla(name) == IF mla THEN f[name] ELSE 0
      Shared(name) == IF mla \/ type = "glm4_moe" THEN f[name] ELSE 0
  IN  [model_type |-> type, architectures |-> Get("architectures", "LlamaForCausalLM"),
       num_layers |-> f.num_hidden_layers, num_qo_heads |-> f.num_attention_heads,
       num_kv_heads |-> Get("num_key_value_heads", f.num_attention_heads),
       head_dim |-> head_dim, hidden_size |-> f.hidden_size, vocab_size |-> f.vocab_size,
       intermediate_size |-> f.intermediate_size,
       tie_word_embeddings |-> Get("tie_word_embeddings", FALSE),
       num_experts |-> Get("num_local_experts",
                           Get("num_experts", Get("n_routed_experts", 0))),
       moe_intermediate_size |-> Get("moe_intermediate_size", 0),
       base |-> Get("rope_theta", 10000),
       rotary_dim |-> IF mla THEN f.qk_rope_head_dim
                      ELSE head_dim \div Get("partial_rotary_divisor", 1),
       first_k_dense_replace |-> Shared("first_k_dense_replace"),
       n_shared_experts |-> Shared("n_shared_experts"),
       q_lora_rank |-> Mla("q_lora_rank"), kv_lora_rank |-> Mla("kv_lora_rank"),
       qk_nope_head_dim |-> Mla("qk_nope_head_dim"),
       qk_rope_head_dim |-> Mla("qk_rope_head_dim"), v_head_dim |-> Mla("v_head_dim")]

is_mla(c) == c.model_type = "deepseek_v2"
is_glm4_moe(c) == c.model_type = "glm4_moe"
Architecture(c) ==
  IF is_mla(c) THEN "deepseek2" ELSE IF is_glm4_moe(c) THEN "glm4moe" ELSE "qwen3moe"
Layers(c) == 0 .. c.num_layers - 1
(* The layers whose MLP is routed to experts.                               *)
MoELayers(c) == {l \in Layers(c) : (is_mla(c) \/ is_glm4_moe(c)) => l >= c.first_k_dense_replace}

-----------------------------------------------------------------------------
(* What is read from the checkpoint: _gpu_tensor_specs                      *)

Read(source, target, shape) == [source |-> source, target |-> target, shape |-> shape]

Projections(c) == << <<"q", c.num_qo_heads>>, <<"k", c.num_kv_heads>>, <<"v", c.num_kv_heads>> >>

QKV(c, l, kind, Shape(_)) ==
  [i \in 1..3 |-> Read(<<l, "attn_" \o Projections(c)[i][1] \o "." \o kind>>,
                       <<l, "self_attn", Projections(c)[i][1] \o "_proj", kind>>,
                       Shape(Projections(c)[i][2] * c.head_dim))]

Qwen3LayerSpecs(c, l) ==
     QKV(c, l, "weight", LAMBDA size : <<size, c.hidden_size>>)
  \o << Read(<<l, "attn_output.weight">>, <<l, "self_attn", "o_proj", "weight">>,
             <<c.hidden_size, c.num_qo_heads * c.head_dim>>),
        Read(<<l, "attn_q_norm.weight">>, <<l, "self_attn", "q_norm", "weight">>, <<c.head_dim>>),
        Read(<<l, "attn_k_norm.weight">>, <<l, "self_attn", "k_norm", "weight">>, <<c.head_dim>>),
        Read(<<l, "attn_norm.weight">>, <<l, "", "input_layernorm", "weight">>, <<c.hidden_size>>),
        Read(<<l, "ffn_norm.weight">>, <<l, "", "post_attention_layernorm", "weight">>,
             <<c.hidden_size>>),
        Read(<<l, "ffn_gate_inp.weight">>, <<l, "mlp", "gate", "weight">>,
             <<c.num_experts, c.hidden_size>>) >>

(* The dense or shared MLP of a DeepSeek or GLM layer, with its router.     *)
SharedMlpSpecs(c, l, router) ==
  LET dense == l < c.first_k_dense_replace
      size == IF dense THEN c.intermediate_size ELSE c.n_shared_experts * c.moe_intermediate_size
      suffix == IF dense THEN "" ELSE "_shexp"
      mlp == IF dense THEN "mlp" ELSE "mlp.shared_experts"
      Proj(p, shape) == Read(<<l, "ffn_" \o p \o suffix \o ".weight">>,
                             <<l, mlp, p \o "_proj", "weight">>, shape)
  IN  (IF dense THEN <<>> ELSE router)
      \o << Proj("gate", <<size, c.hidden_size>>), Proj("up", <<size, c.hidden_size>>),
            Proj("down", <<c.hidden_size, size>>) >>

RouterSpec(c, l) == Read(<<l, "ffn_gate_inp.weight">>, <<l, "mlp", "gate", "weight">>,
                         <<c.num_experts, c.hidden_size>>)

Glm4LayerSpecs(c, l) ==
     QKV(c, l, "weight", LAMBDA size : <<size, c.hidden_size>>)
  \o QKV(c, l, "bias", LAMBDA size : <<size>>)
  \o << Read(<<l, "attn_output.weight">>, <<l, "self_attn", "o_proj", "weight">>,
             <<c.hidden_size, c.num_qo_heads * c.head_dim>>),
        Read(<<l, "attn_norm.weight">>, <<l, "", "input_layernorm", "weight">>, <<c.hidden_size>>),
        Read(<<l, "post_attention_norm.weight">>, <<l, "", "post_attention_layernorm", "weight">>,
             <<c.hidden_size>>) >>
  \o SharedMlpSpecs(c, l,
       << RouterSpec(c, l),
          Read(<<l, "exp_probs_b.bias">>, <<l, "mlp", "gate", "e_score_correction_bias">>,
               <<c.num_experts>>) >>)

DeepseekLayerSpecs(c, l) ==
  LET Attn(name, target, shape) ==
        Read(<<l, name \o ".weight">>, <<l, "self_attn", target, "weight">>, shape)
  IN  << Attn("attn_q_a", "q_a_proj", <<c.q_lora_rank, c.hidden_size>>),
         Attn("attn_q_a_norm", "q_a_layernorm", <<c.q_lora_rank>>),
         Attn("attn_q_b", "q_b_proj", <<c.num_qo_heads * c.head_dim, c.q_lora_rank>>),
         Attn("attn_kv_a_mqa", "kv_a_proj_with_mqa",
              <<c.kv_lora_rank + c.qk_rope_head_dim, c.hidden_size>>),
         Attn("attn_kv_a_norm", "kv_a_layernorm", <<c.kv_lora_rank>>),
         Attn("attn_k_b", "k_b_proj", <<c.num_qo_heads, c.kv_lora_rank, c.qk_nope_head_dim>>),
         Attn("attn_v_b", "v_b_proj", <<c.num_qo_heads, c.v_head_dim, c.kv_lora_rank>>),
         Attn("attn_output", "o_proj", <<c.hidden_size, c.num_qo_heads * c.v_head_dim>>),
         Read(<<l, "attn_norm.weight">>, <<l, "", "input_layernorm", "weight">>, <<c.hidden_size>>),
         Read(<<l, "ffn_norm.weight">>, <<l, "", "post_attention_layernorm", "weight">>,
              <<c.hidden_size>>) >>
      \o SharedMlpSpecs(c, l, <<RouterSpec(c, l)>>)

_gpu_tensor_specs(c) ==
  LET head == IF c.tie_word_embeddings THEN "token_embd.weight" ELSE "output.weight"
      layer == [i \in 1..c.num_layers |->
                  CASE is_mla(c) -> DeepseekLayerSpecs(c, i - 1)
                    [] is_glm4_moe(c) -> Glm4LayerSpecs(c, i - 1)
                    [] OTHER -> Qwen3LayerSpecs(c, i - 1)]
  IN  << Read(<<-1, "token_embd.weight">>, <<-1, "model", "embed_tokens", "weight">>,
              <<c.vocab_size, c.hidden_size>>),
         Read(<<-1, "output_norm.weight">>, <<-1, "model", "norm", "weight">>, <<c.hidden_size>>),
         Read(<<-1, head>>, <<-1, "", "lm_head", "weight">>, <<c.vocab_size, c.hidden_size>>) >>
      \o FlattenSeq(layer)

-----------------------------------------------------------------------------
(* What the model holds: the names, shapes and types of its parameters      *)

Padded(size, multiple) == ((size + multiple - 1) \div multiple) * multiple

(* Shapes of the two tensors pack_marlin makes of an [n, k] matrix.         *)
Marlin(n, k) ==
  [weight |-> <<Padded(k, 128) \div 16, Padded(n, 64) * 2>>,
   scales |-> <<Padded(k, 128) \div 64, Padded(n, 64)>>]

Tensor(key, shape, dtype) == {<<key, shape, dtype>>}
MarlinLinear(layer, module, op, input, output) ==
  Tensor(<<layer, module, op, "weight">>, Marlin(output, input).weight, "int32")
    \union Tensor(<<layer, module, op, "scales">>, Marlin(output, input).scales, "bfloat16")
Norm(layer, module, op, size) == Tensor(<<layer, module, op, "weight">>, <<size>>, "bfloat16")

MLP(l, module, hidden, intermediate) ==
  MarlinLinear(l, module, "gate_up_proj", hidden, 2 * intermediate)
    \union MarlinLinear(l, module, "down_proj", intermediate, hidden)

MlaAttention(c, l) ==
  LET Linear(op, input, output) == MarlinLinear(l, "self_attn", op, input, output)
  IN  Linear("q_a_proj", c.hidden_size, c.q_lora_rank)
      \union Norm(l, "self_attn", "q_a_layernorm", c.q_lora_rank)
      \union Linear("q_b_proj", c.q_lora_rank, c.num_qo_heads * c.head_dim)
      \union Linear("kv_a_proj_with_mqa", c.hidden_size, c.kv_lora_rank + c.qk_rope_head_dim)
      \union Norm(l, "self_attn", "kv_a_layernorm", c.kv_lora_rank)
      \union Tensor(<<l, "self_attn", "k_b_proj", "weight">>,
                    <<c.num_qo_heads, c.kv_lora_rank, c.qk_nope_head_dim>>, "bfloat16")
      \union Tensor(<<l, "self_attn", "v_b_proj", "weight">>,
                    <<c.num_qo_heads, c.v_head_dim, c.kv_lora_rank>>, "bfloat16")
      \union Linear("o_proj", c.num_qo_heads * c.v_head_dim, c.hidden_size)

(* The attention of Qwen3 (with head norms) and of GLM (with a bias).       *)
Attention(c, l) ==
  LET qkv == (c.num_qo_heads + 2 * c.num_kv_heads) * c.head_dim
  IN  MarlinLinear(l, "self_attn", "qkv_proj", c.hidden_size, qkv)
      \union MarlinLinear(l, "self_attn", "o_proj", c.num_qo_heads * c.head_dim, c.hidden_size)
      \union IF is_glm4_moe(c)
             THEN Tensor(<<l, "self_attn", "qkv_bias", "">>, <<qkv>>, "bfloat16")
             ELSE Norm(l, "self_attn", "q_norm", c.head_dim)
                    \union Norm(l, "self_attn", "k_norm", c.head_dim)

(* The router of a layer whose experts are on the CPU; the rest of the      *)
(* layer's MLP is the shared experts of DeepSeek and GLM.                   *)
Router(c, l) ==
  Tensor(<<l, "mlp", "gate", "weight">>, <<c.num_experts, c.hidden_size>>,
         IF is_mla(c) \/ is_glm4_moe(c) THEN "float32" ELSE "bfloat16")
    \union IF is_glm4_moe(c)
           THEN Tensor(<<l, "mlp", "gate", "e_score_correction_bias">>, <<c.num_experts>>, "float32")
           ELSE {}

DecoderLayer(c, l) ==
  (IF is_mla(c) THEN MlaAttention(c, l) ELSE Attention(c, l))
  \union Norm(l, "", "input_layernorm", c.hidden_size)
  \union Norm(l, "", "post_attention_layernorm", c.hidden_size)
  \union (IF l \in MoELayers(c) THEN Router(c, l) ELSE {})
  \union (CASE ~is_mla(c) /\ ~is_glm4_moe(c) -> {}
            [] l < c.first_k_dense_replace -> MLP(l, "mlp", c.hidden_size, c.intermediate_size)
            [] OTHER -> MLP(l, "mlp.shared_experts", c.hidden_size,
                            c.n_shared_experts * c.moe_intermediate_size))

Parameters(c) ==
  Tensor(<<-1, "model", "embed_tokens", "weight">>, <<c.vocab_size, c.hidden_size>>, "bfloat16")
  \union UNION {DecoderLayer(c, l) : l \in Layers(c)}
  \union Norm(-1, "model", "norm", c.hidden_size)
  \union MarlinLinear(-1, "", "lm_head", c.hidden_size, c.vocab_size)
=============================================================================
