---------------------------- MODULE MCScheduler ----------------------------
(* Small instances of Scheduler. *)
EXTENDS Scheduler, TLC

(* Prompts that share a prefix: the second diverges after one token, the   *)
(* third extends the first beyond what one prefill batch may compute.      *)
SharedPrompts == 1 :> <<1, 1, 1>> @@ 2 :> <<1, 2>> @@ 3 :> <<1, 1, 1, 1>>
SharedOutputs == 1 :> 2 @@ 2 :> 3 @@ 3 :> 1

(* Prompts that share a two-token page and never end on a page boundary,   *)
(* three tokens or six, so that each prefill batch computes one of them.   *)
ReusePrompts == 1 :> <<1, 1, 1>> @@ 2 :> <<1, 1, 2>> @@ 3 :> <<1, 1, 1, 1, 2, 1>>
ReuseOutputs == 1 :> 2 @@ 2 :> 3 @@ 3 :> 2

(* Two requests of one token and one longer than a four-token page: what   *)
(* they reserve, in tokens, is less than the pages they take.              *)
UnevenPrompts == 1 :> <<1>> @@ 2 :> <<2>> @@ 3 :> <<3, 3, 3, 3, 3>>
UnevenOutputs == 1 :> 1 @@ 2 :> 1 @@ 3 :> 2

(* Four requests of one token each, with room for one token of output.     *)
TinyPrompts == [r \in Req |-> <<r>>]
TinyOutputs == [r \in Req |-> 1]

=============================================================================
