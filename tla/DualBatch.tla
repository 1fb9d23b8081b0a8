----------------------------- MODULE DualBatch -----------------------------
(* The two runners that decode two micro-batches in turn: while the CPU     *)
(* computes the routed experts of one, the GPU runs the attention of the    *)
(* other (DeepseekV2DualBatchRunner.py, GLMDualBatchRunner.py).             *)
(*                                                                          *)
(* Python only issues work to one CUDA stream and reads none of its         *)
(* results, so an action is what the stream executes; the CPU experts run   *)
(* beside it. A tensor is the term that computes it, and a Python name is   *)
(* bound to a buffer: that of its micro-batch or the one KT returns to      *)
(* every caller. The buffers, the staging area and the CPU task of KT are   *)
(* external and modelled from the calls made here.                          *)
EXTENDS Naturals, Sequences, FiniteSets, SequencesExt

CONSTANTS
  NumLayers,    \* decoder layers of the model
  FirstMoE,     \* first_k_dense_replace: layers before it have a dense MLP
  MaxTokens,    \* chunked_prefill_size of the KT wrappers
  Supplied(_),  \* the pairs of batches a caller of a runner may supply
  MaxForwards   \* bound: calls of one runner

VARIABLES
  family,       \* which runner: "deepseek" or "glm"
  batches,      \* self.batches while a call runs, <<>> otherwise
  batch_sizes,  \* self.batch_sizes, <<>> for None
  forwards,     \* calls begun
  issued,       \* operations of the schedule already executed
  hidden,       \* the buffer hidden_states[mb] is bound to
  residual, shared, routing,  \* per micro-batch; NoTensor for None
  buffers,      \* the contents of the buffers
  plans,        \* the workspace of each attention backend
  initialized,  \* attn_metadata.initialized of each micro-batch
  attn_backend, \* ctx.attn_backend; EngineBackend is the engine's own
  kv,           \* whose key a layer last stored for a row
  kt,           \* KT: the staged input, its CPU task and its output
  results,      \* what the last call returned, <<>> if nothing
  raised        \* a call has ended with an exception

dual_vars == <<family, batches, batch_sizes, forwards, issued, hidden, residual, shared, routing,
               buffers, plans, initialized, attn_backend, kv, kt, results, raised>>

MB == {0, 1}
KTBuffer == 2
EngineBackend == 2
DualLayers == 0..NumLayers - 1
NoTensor == <<>>
Pair(v) == [mb \in MB |-> v]

Rows(batch) == ToSet(batch.rows)
BatchSize(batch) == Len(batch.rows)
Tag(mb) == <<forwards, mb>>

(* Layers as terms.                                                         *)
Plus(a, b) == <<"plus", a, b>>
FusedNorm(w, x, r) ==
  LET sum == IF r = NoTensor THEN x ELSE Plus(x, r)
  IN  [x |-> <<"norm", w, sum>>, residual |-> sum]
DenseMLP(l, x) == <<"mlp", l, x>>
SharedExperts(l, x) == <<"shared", l, x>>
Gate(l, x) == <<"gate", l, x>>
RoutedExperts(l, x, ids) == <<"experts", l, x, ids>>

(* Norm, attention and norm again: the attention reads the rows its plan    *)
(* lists.                                                                   *)
AttentionPart(l, x, r, plan, stored) ==
  LET a == FusedNorm(<<"in", l>>, x, r)
  IN  FusedNorm(<<"post", l>>,
                <<"attention", a.x, plan.of, [row \in plan.rows |-> stored[l, row]]>>, a.residual)

(* A model's forward of one batch alone.                                    *)
Alone(mb) ==
  LET rows == Rows(batches[mb])
      plan == [of |-> Tag(mb), rows |-> rows]
      stored == [k \in DualLayers \X rows |-> Tag(mb)]
      MLP1(l, x) == IF l < FirstMoE THEN DenseMLP(l, x)
                    ELSE Plus(RoutedExperts(l, x, Gate(l, x)), SharedExperts(l, x))
      After[n \in 0..NumLayers] ==
        IF n = 0 THEN [x |-> <<"embed", Tag(mb)>>, residual |-> NoTensor]
        ELSE LET p == AttentionPart(n - 1, After[n - 1].x, After[n - 1].residual, plan, stored)
             IN  [p EXCEPT !.x = MLP1(n - 1, @)]
  IN  FusedNorm("final", After[NumLayers].x, After[NumLayers].residual).x

(* The slots of a call and the operations each issues, in order.            *)
Operation(do, mb, l) == [do |-> do, mb |-> mb, layer |-> l]
Slot(i) ==
  LET a == i % 2
      m == 1 - a
      l == (i - 1) \div 2
  IN  CASE i = 0 -> << Operation("attn", 0, 0) >>
        [] i = 2 * NumLayers -> << Operation("moe", 1, NumLayers - 1),
                                   Operation("sync", 1, NumLayers - 1) >>
        [] OTHER -> << Operation("moe", m, l), Operation("attn", a, i \div 2),
                       Operation("sync", m, l) >>
Schedule == FlattenSeq([i \in 1..2 * NumLayers + 1 |-> Slot(i - 1)])
IsNext(do) == issued < Len(Schedule) /\ Schedule[issued + 1].do = do
Current == Schedule[issued + 1]

Running == batches # <<>>
Hidden(mb) == buffers[hidden[mb]]

DualInit ==
  /\ family \in {"deepseek", "glm"}
  /\ batches = <<>> /\ batch_sizes = <<>> /\ forwards = 0 /\ issued = 0
  /\ hidden = [mb \in MB |-> mb] /\ buffers = [b \in MB \union {KTBuffer} |-> NoTensor]
  /\ residual = Pair(NoTensor) /\ shared = Pair(NoTensor) /\ routing = Pair(NoTensor)
  /\ plans = Pair([of |-> NoTensor, rows |-> {}]) /\ initialized = Pair(FALSE)
  /\ attn_backend = EngineBackend /\ kv = <<>> /\ results = <<>> /\ raised = FALSE
  /\ kt = [input |-> NoTensor, task |-> "idle", output |-> NoTensor]

(* _validate_inputs; only the DeepSeek runner checks what it is given.      *)
ValidInputs(m) ==
  /\ \A mb \in MB : /\ m[mb].is_decode /\ m[mb].padded_size = BatchSize(m[mb])
                    /\ 0 < BatchSize(m[mb]) /\ BatchSize(m[mb]) <= MaxTokens
                    /\ m[mb].extend_len = 1
  /\ Len(m[0].rows \o m[1].rows) = Cardinality(Rows(m[0]) \union Rows(m[1]))
  /\ batch_sizes \in {<<>>, [mb \in MB |-> BatchSize(m[mb])]}

PlanFor(m, mb, tag) == [of |-> tag, rows |-> Rows(m[mb])]

Forward(m) ==
  LET tag(mb) == <<forwards + 1, mb>>
      deepseek == family = "deepseek"
  IN  /\ ~Running /\ ~raised /\ forwards < MaxForwards
      /\ deepseek => ValidInputs(m)
      /\ batches' = m /\ forwards' = forwards + 1 /\ issued' = 0 /\ results' = <<>>
      /\ batch_sizes' = IF deepseek THEN [mb \in MB |-> BatchSize(m[mb])] ELSE batch_sizes
      /\ plans' = IF deepseek
                  THEN [mb \in MB |-> PlanFor(m, mb, tag(mb))] ELSE plans
      /\ initialized' = Pair(deepseek)
      /\ hidden' = [mb \in MB |-> mb]
      /\ buffers' = [b \in DOMAIN buffers |-> IF b = KTBuffer THEN buffers[b] ELSE <<"embed", tag(b)>>]
      /\ residual' = Pair(NoTensor) /\ shared' = Pair(NoTensor) /\ routing' = Pair(NoTensor)
      /\ UNCHANGED <<family, attn_backend, kv, kt, raised>>

Refuse(m) ==
  /\ ~Running /\ ~raised /\ family = "deepseek" /\ ~ValidInputs(m)
  /\ raised' = TRUE
  /\ UNCHANGED <<family, batches, batch_sizes, forwards, issued, hidden, residual, shared, routing,
                 buffers, plans, initialized, attn_backend, kv, kt, results>>

(* submit_attn(mb, l). The DeepSeek runner first adds the shared experts of *)
(* the layer before; the GLM runner runs a dense MLP here.                  *)
SubmitAttn ==
  /\ Running /\ IsNext("attn")
  /\ LET mb == Current.mb
         l == Current.layer
         rows == Rows(batches[mb])
         moe == l >= FirstMoE
         x == IF family = "deepseek" /\ shared[mb] # NoTensor
              THEN Plus(Hidden(mb), shared[mb]) ELSE Hidden(mb)
         plan == IF initialized[mb] THEN plans[mb] ELSE PlanFor(batches, mb, Tag(mb))
         stored == [k \in {l} \X rows |-> Tag(mb)] @@ kv
         p == AttentionPart(l, x, residual[mb], plan, stored)
     IN  /\ plans' = [plans EXCEPT ![mb] = plan]
         /\ initialized' = [initialized EXCEPT ![mb] = TRUE]
         /\ attn_backend' = mb
         /\ kv' = stored
         /\ residual' = [residual EXCEPT ![mb] = p.residual]
         /\ hidden' = [hidden EXCEPT ![mb] = mb]
         /\ buffers' = [buffers EXCEPT ![mb] =
              IF family = "glm" /\ ~moe THEN DenseMLP(l, p.x) ELSE p.x]
         /\ routing' = [routing EXCEPT ![mb] = IF moe THEN Gate(l, p.x) ELSE @]
         /\ shared' = [shared EXCEPT ![mb] = IF moe THEN SharedExperts(l, p.x)
                                             ELSE IF family = "deepseek" THEN NoTensor ELSE @]
  /\ issued' = issued + 1
  /\ UNCHANGED <<family, batches, batch_sizes, forwards, kt, results, raised>>

(* submit_moe(mb, l): the input is copied to the staging area and the task  *)
(* queued, whatever became of the one before. The DeepSeek runner runs a    *)
(* dense MLP here.                                                          *)
SubmitMoE ==
  /\ Running /\ IsNext("moe")
  /\ LET mb == Current.mb
         l == Current.layer
     IN  IF l < FirstMoE
         THEN /\ hidden' = [hidden EXCEPT ![mb] = mb]
              /\ buffers' = [buffers EXCEPT ![mb] =
                   IF family = "deepseek" THEN DenseMLP(l, Hidden(mb)) ELSE Hidden(mb)]
              /\ UNCHANGED kt
         ELSE /\ kt' = [kt EXCEPT !.task = "queued",
                                  !.input = RoutedExperts(l, Hidden(mb), routing[mb])]
              /\ UNCHANGED <<hidden, buffers>>
  /\ issued' = issued + 1
  /\ UNCHANGED <<family, batches, batch_sizes, forwards, residual, shared, routing, plans,
                 initialized, attn_backend, kv, results, raised>>

(* The CPU computes the staged experts.                                     *)
RunExperts ==
  /\ kt.task = "queued"
  /\ kt' = [kt EXCEPT !.task = "done", !.output = kt.input]
  /\ UNCHANGED <<family, batches, batch_sizes, forwards, issued, hidden, residual, shared, routing,
                 buffers, plans, initialized, attn_backend, kv, results, raised>>

(* A seeded fault, used by no specification: the output is not cloned.      *)
SyncedTo_NoClone(mb) == KTBuffer

(* What hidden_states[mb] is bound to by sync_moe: a copy of KT's buffer.   *)
SyncedTo(mb) == mb

(* sync_moe(mb, l): the stream waits for the CPU task and copies its output *)
(* to KT's buffer; the GLM runner adds the shared experts here.             *)
SyncMoE ==
  /\ Running /\ IsNext("sync")
  /\ LET mb == Current.mb
     IN  IF Current.layer < FirstMoE
         THEN UNCHANGED <<hidden, buffers, shared, routing, kt>>
         ELSE /\ kt.task # "queued"
              /\ kt' = [kt EXCEPT !.task = "idle"]
              /\ hidden' = [hidden EXCEPT ![mb] = SyncedTo(mb)]
              /\ buffers' = [buffers EXCEPT
                   ![KTBuffer] = kt.output,
                   ![SyncedTo(mb)] = IF family = "glm" THEN Plus(kt.output, shared[mb])
                                     ELSE kt.output]
              /\ shared' = IF family = "glm" THEN [shared EXCEPT ![mb] = NoTensor] ELSE shared
              /\ routing' = [routing EXCEPT ![mb] = NoTensor]
  /\ issued' = issued + 1
  /\ UNCHANGED <<family, batches, batch_sizes, forwards, residual, plans, initialized,
                 attn_backend, kv, results, raised>>

(* The end of a call: what is left of the shared experts and the last norm. *)
Return ==
  /\ Running /\ issued = Len(Schedule)
  /\ results' = [mb \in MB |->
       LET x == IF shared[mb] # NoTensor THEN Plus(Hidden(mb), shared[mb]) ELSE Hidden(mb)
       IN  [value |-> FusedNorm("final", x, residual[mb]).x, alone |-> Alone(mb),
            stored |-> [k \in DualLayers \X Rows(batches[mb]) |-> kv[k] = Tag(mb)]]]
  /\ shared' = Pair(NoTensor)
  /\ attn_backend' = EngineBackend
  /\ batches' = <<>>
  /\ UNCHANGED <<family, batch_sizes, forwards, issued, hidden, residual, routing, buffers, plans,
                 initialized, kv, kt, raised>>

(* A kernel raises. The GLM runner restores the backend, in a finally.      *)
Restored == IF family = "glm" THEN EngineBackend ELSE attn_backend
Raise ==
  /\ Running /\ issued < Len(Schedule)
  /\ raised' = TRUE /\ batches' = <<>>
  /\ attn_backend' = Restored
  /\ UNCHANGED <<family, batch_sizes, forwards, issued, hidden, residual, shared, routing, buffers,
                 plans, initialized, kv, kt, results>>

DualNext ==
  \/ \E m \in Supplied(family) : Forward(m) \/ Refuse(m)
  \/ SubmitAttn \/ SubmitMoE \/ RunExperts \/ SyncMoE \/ Return \/ Raise

(* Interleaved with the other micro-batch and with the CPU experts, each    *)
(* micro-batch gets what the model computes for it alone, with its own plan *)
(* and the keys of its own rows, and leaves those keys as the last stored;  *)
(* after a call the engine's attention backend is in the context again.     *)
(* Excepted: the DeepSeek runner leaves its own backend there when a kernel *)
(* raises.                                                                  *)
DualBatchExact ==
  /\ results # <<>> =>
       \A mb \in MB : /\ results[mb].value = results[mb].alone
                      /\ \A k \in DOMAIN results[mb].stored : results[mb].stored[k]
  /\ ~Running /\ ~(raised /\ family = "deepseek") => attn_backend = EngineBackend
============================================================================
