----------------------------- MODULE MCServing -----------------------------
(* A small serving pipeline, and beside it one request whose tokens the    *)
(* detokenizer is given in every order.                                    *)
EXTENDS Serving, TLC

(* Tokens: 0 the end of the sequence, 1 a letter, 2 a word with its space,  *)
(* 3 and 4 the two parts of a character, 5 a CJK character with a first     *)
(* part, 6 a new line, 7 a second part with a first part.                   *)
SmallBytes ==
    0 :> <<>> @@ 1 :> << <<"a", 0>> >> @@ 2 :> << <<" ", 0>>, <<"a", 0>> >>
    @@ 3 :> << <<" ", 0>>, <<"e", 1>> >> @@ 4 :> << <<"e", 2>> >>
    @@ 5 :> << <<"cjk", 0>>, <<"e", 1>> >> @@ 6 :> << <<"nl", 0>> >>
    @@ 7 :> << <<"e", 2>>, <<"e", 1>> >>

(* The first request is said to be finished one token early, the second     *)
(* generates nothing but the end of the sequence.                           *)
SmallScripts == 0 :> <<3, 4, 2>> @@ 1 :> <<0>>
SmallFinish == 0 :> 2 @@ 1 :> 1

VARIABLE part   \* "pipeline" or "text": which of the two moves

all_vars == <<part, serving_vars, detok_vars>>

Init == part \in {"pipeline", "text"} /\ ServingInit /\ DetokInit

Next == \/ part = "pipeline" /\ ServingNext /\ UNCHANGED <<part, detok_vars>>
        \/ part = "text" /\ DetokNext /\ UNCHANGED <<part, serving_vars>>

Spec == Init /\ [][Next]_all_vars /\ ServingFairness

=============================================================================
