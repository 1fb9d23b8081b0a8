------------------------------ MODULE MCLaunch ------------------------------
(* The two ways a scheduler is run: a server with one tokenizer beside the *)
(* detokenizer, asked for one rank or two; and an offline LLM.             *)
EXTENDS Launch, OfflineLLM, TLC

OneAndTwo == [u \in Uids |-> u]

(* Prompts of which one leaves too little room, one none and one enough.   *)
SmallPrompts == <<2, 4, 6, 1>>

VARIABLE part   \* "server" or "offline": which of the two moves

all_vars == <<part, launch_vars, offline_vars>>

Init == /\ part \in {"server", "offline"} /\ LaunchInit /\ OfflineInit
        /\ part = "offline" => tp_size = 1 /\ supported /\ ~overlap
        /\ part = "server" => ~shared

Next == \/ part = "server" /\ LaunchNext /\ UNCHANGED <<part, offline_vars>>
        \/ part = "offline" /\ OfflineNext /\ UNCHANGED <<part, launch_vars>>

Spec == Init /\ [][Next]_all_vars /\ LaunchFairness

=============================================================================
