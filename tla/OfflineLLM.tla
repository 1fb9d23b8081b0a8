----------------------------- MODULE OfflineLLM -----------------------------
(***************************************************************************)
(* LLM.generate (python/minisgl/llm/llm.py): a scheduler whose messages    *)
(* come from a list of prompts instead of a queue, a budget of prompt      *)
(* tokens at a time, and that stops when it would wait for more.           *)
(*                                                                         *)
(* Prompt i becomes request i.  A request is received, admitted and sent   *)
(* one token at a time; its limit is read from its SamplingParams when it  *)
(* is admitted, and one SamplingParams may be given for all prompts.       *)
(***************************************************************************)
EXTENDS Integers, Sequences, FiniteSets

CONSTANTS
    PromptLen,      \* the lengths of the prompts, from prompt 0
    max_tokens,     \* what sampling_params asks for
    prefill_budget,
    max_seq_len

NumPrompts == Len(PromptLen)
Request == 0..(NumPrompts - 1)

ASSUME OfflineAssumptions ==
    /\ PromptLen \in Seq(Nat \ {0}) /\ max_tokens \in Nat \ {0}
    /\ prefill_budget \in Nat \ {0} /\ max_seq_len \in Nat \ {0}

VARIABLES
    shared,         \* one SamplingParams object for all prompts
    limit,          \* max_tokens of each request's SamplingParams
    counter,        \* requests received; the pending ones are those after it
    received,       \* waiting for prefill
    running,        \* admitted -> tokens to go
    status_map,     \* request -> tokens in output_ids
    stopped         \* ghost: requests that ended with eos_token_id
offline_vars == <<shared, limit, counter, received, running, status_map, stopped>>

OfflineInit ==
    /\ shared \in BOOLEAN /\ limit = [u \in Request |-> max_tokens] /\ counter = 0
    /\ received = {} /\ running = [u \in {} |-> 0]
    /\ status_map = [u \in {} |-> 0] /\ stopped = {}

Input(i) == PromptLen[i + 1]

(* A seeded fault, used by no specification. *)
MaxOutput_OneLess(u) == max_seq_len - Input(u) - 1

MaxOutput(u) == max_seq_len - Input(u)

(* The prompts one call takes: it stops once their tokens reach the budget. *)
Taken ==
    LET sum[n \in 0..(NumPrompts - counter)] ==
            IF n = 0 THEN 0 ELSE sum[n - 1] + Input(counter + n - 1)
    IN  {counter + n : n \in {k \in 0..(NumPrompts - counter - 1) : sum[k] < prefill_budget}}

(* offline_receive_msg, and what _process_one_msg makes of the messages: a  *)
(* prompt that fills the sequence is dropped, a limit that does not fit is  *)
(* cut in the SamplingParams.  A scheduler with nothing to run would block: *)
(* with nothing pending either, it stops.                                   *)
ReceiveMsg ==
    /\ counter < NumPrompts
    /\ LET fit == {u \in Taken : MaxOutput(u) > 0}
           cut(S) == {max_tokens} \cup {MaxOutput(u) : u \in S}
           least(S) == CHOOSE n \in cut(S) : \A k \in cut(S) : n <= k
       IN  /\ received' = received \cup fit
           /\ limit' = [u \in Request |->
                  IF shared THEN IF least(fit) < limit[u] THEN least(fit) ELSE limit[u]
                  ELSE IF u \in fit THEN least({u}) ELSE limit[u]]
    /\ status_map' = [u \in DOMAIN status_map \cup Taken |->
           IF u \in Taken THEN 0 ELSE status_map[u]]
    /\ counter' = counter + Cardinality(Taken)
    /\ UNCHANGED <<shared, running, stopped>>

Admit(u) ==
    /\ u \in received
    /\ received' = received \ {u}
    /\ running' = [v \in DOMAIN running \cup {u} |-> IF v = u THEN limit[u] ELSE running[v]]
    /\ UNCHANGED <<shared, limit, counter, status_map, stopped>>

(* offline_send_result for one token.  After eos_token_id one more may come, *)
(* of the batch overlap_loop had already launched.                          *)
SendResult(u, is_eos, late) ==
    /\ u \in DOMAIN running
    /\ running' = [v \in (IF is_eos \/ running[u] = 1 THEN DOMAIN running \ {u}
                          ELSE DOMAIN running)
                       |-> IF v = u THEN running[u] - 1 ELSE running[v]]
    /\ status_map' = [status_map EXCEPT ![u] = IF is_eos THEN @ + late ELSE @ + 1]
    /\ stopped' = IF is_eos THEN stopped \cup {u} ELSE stopped
    /\ UNCHANGED <<shared, limit, counter, received>>

OfflineNext ==
    \/ ReceiveMsg
    \/ \E u \in Request : Admit(u) \/ \E is_eos \in BOOLEAN, late \in 0..1 : SendResult(u, is_eos, late)

OfflineSpec == OfflineInit /\ [][OfflineNext]_offline_vars

AllFinished == counter = NumPrompts /\ received = {} /\ DOMAIN running = {}

(* generate returns, for every prompt, an answer of the length asked for,   *)
(* shorter only if the model ended it or the sequence is full; the answers  *)
(* of a shared SamplingParams are left out, as a long prompt cuts them all. *)
OfflineAnswersComplete ==
    AllFinished =>
        /\ DOMAIN status_map = Request
        /\ \A u \in Request \ stopped : ~shared =>
               LET room == max_seq_len - Input(u)
               IN  status_map[u] = IF room <= 0 THEN 0
                                   ELSE IF room < max_tokens THEN room ELSE max_tokens

=============================================================================
