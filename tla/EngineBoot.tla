----------------------------- MODULE EngineBoot -----------------------------
(* From the command line to an engine that can run a batch: the arguments   *)
(* are parsed, the configuration is adjusted or refused, the KV cache is    *)
(* sized, and the page table, the attention backends and the CUDA graphs    *)
(* are made (server/args.py, engine/engine.py, engine/graph.py,             *)
(* attention/__init__.py). One rank; module Weights loads the model.        *)
EXTENDS Naturals, Sequences, FiniteSets, SequencesExt, FiniteSetsExt, TLC

CONSTANTS
  Hosts,           \* the model's configuration and the GPU
  CommandLines(_)  \* argument records tried on a host; backends as sequences of names

VARIABLES
  stage,   \* "parse", "adjust", "size", "build", "ready" or "refused"
  host,    \* the host of this start
  config,  \* ServerArgs
  eng      \* the Engine's sizes and graphs, once it has them

boot_vars == <<stage, host, config, eng>>

(* An option is the set of its value, empty for None.                       *)
Given(option, default) == IF option = {} THEN default ELSE CHOOSE v \in option : TRUE

BootInit ==
  /\ stage = "parse" /\ host \in Hosts /\ config \in CommandLines(host)
  /\ eng = [num_pages |-> 0]

SUPPORTED_ATTENTION_BACKENDS == {"trtllm", "fi", "fa"}
validate_attn_backend(b) == b = <<"auto">> \/ ToSet(b) \subseteq SUPPORTED_ATTENTION_BACKENDS

(* What the parser's types and choices let through.                         *)
WellFormed(a) ==
  /\ validate_attn_backend(a.attention_backend)
  /\ a.dtype \in {"auto", "float16", "bfloat16", "float32"}
  /\ a.cache_type \in {"naive", "radix"}
  /\ a.moe_backend = "kt" /\ a.kt_method = "LLAMAFILE"

(* parse_args. A shell serves one request at a time.                        *)
Parse ==
  /\ stage = "parse"
  /\ stage' = IF WellFormed(config) THEN "adjust" ELSE "refused"
  /\ LET c == [config EXCEPT !.dtype = IF @ = "auto" THEN host.dtype ELSE @]
     IN  config' = IF ~config.shell_mode THEN c
                   ELSE [c EXCEPT !.cuda_graph_max_bs = {1}, !.max_running_req = 1]
  /\ UNCHANGED <<host, eng>>

max_seq_len == Given(config.max_seq_len_override, host.max_position)

(* The backend that "auto" stands for.                                      *)
Selected ==
  IF config.attention_backend # <<"auto">> THEN config.attention_backend
  ELSE IF host.is_mla THEN <<"fi">>
  ELSE CASE host.sm = 100 -> <<"trtllm">> [] host.sm = 90 -> <<"fa", "fi">> [] OTHER -> <<"fi">>

Refused ==
  \/ ~host.supported \/ config.tp_size # 1 \/ config.dtype # "bfloat16"
  \/ ~config.kt_weight_path
  \/ ~(0 < config.kt_threadpool_count /\ config.kt_threadpool_count <= config.kt_cpuinfer)
  \/ config.max_extend_tokens <= 0 \/ config.max_running_req <= 0
  \/ host.is_mla /\ (~host.mla_sizes \/ Selected # <<"fi">> \/ config.page_size # 1)

PageSizeFor(backend) ==
  IF "trtllm" \in ToSet(backend) /\ config.page_size \notin {16, 32, 64} THEN 64
  ELSE config.page_size

(* _adjust_config.                                                          *)
Adjust ==
  /\ stage = "adjust"
  /\ stage' = IF Refused THEN "refused" ELSE "size"
  /\ config' = [config EXCEPT !.attention_backend = Selected, !.page_size = PageSizeFor(Selected)]
  /\ UNCHANGED <<host, eng>>

_determine_cuda_graph_bs ==
  LET max_bs == Given(config.cuda_graph_max_bs, IF host.free_gb > 80 THEN 256 ELSE 160)
  IN  IF config.cuda_graph_bs # {} THEN config.cuda_graph_bs
      ELSE IF max_bs < 1 THEN {}
      ELSE {bs \in {1, 2, 4, 8, 12} : bs <= max_bs} \union {8 * k : k \in 2..max_bs \div 8}
           \union {max_bs}

(* _determine_num_pages: an option, or what the memory left by the model    *)
(* holds.                                                                   *)
CachePerPage == host.cache_width * config.page_size
Available == (config.memory_percent * host.free) \div 100
num_pages ==
  Given(config.num_page_override,
        IF Available < host.model_memory THEN 0
        ELSE (Available - host.model_memory) \div CachePerPage)

_align_up_32(n) == ((n + 31) \div 32) * 32

SizeCache ==
  LET tokens == num_pages * config.page_size
      longest == Min({max_seq_len, tokens})
      graphs == _determine_cuda_graph_bs
  IN  /\ stage = "size"
      /\ IF num_pages <= 1
         THEN stage' = "refused" /\ UNCHANGED eng
         ELSE /\ stage' = "build"
              /\ eng' = [num_pages |-> num_pages, num_tokens |-> tokens, max_seq_len |-> longest,
                         columns |-> _align_up_32(longest), graph_bs_list |-> graphs,
                         capacity |-> Max({config.max_extend_tokens, config.max_running_req}
                                          \union graphs)]
      /\ UNCHANGED <<host, config>>

(* create_attention_backend: one backend, or one for prefill and one for    *)
(* decode; a third is refused.                                              *)
Backend(phase) ==
  IF phase = "decode" THEN Last(config.attention_backend) ELSE Head(config.attention_backend)
MaxGraph == IF eng.graph_bs_list = {} THEN 0 ELSE Max(eng.graph_bs_list)

(* The buffers the graphs of the decode backend are captured with: what was *)
(* written to them.                                                         *)
BaseCaptureData ==
  [cu_seqlens_k |-> [i \in 0..MaxGraph |-> i], seq_lens |-> [i \in 1..MaxGraph |-> 1],
   page_table |-> <<>>]

Build ==
  /\ stage = "build"
  /\ stage' = IF Len(config.attention_backend) > 2 THEN "refused" ELSE "ready"
  /\ eng' = eng @@ [capture |-> BaseCaptureData]
  /\ UNCHANGED <<host, config>>

BootNext == Parse \/ Adjust \/ SizeCache \/ Build
============================================================================
