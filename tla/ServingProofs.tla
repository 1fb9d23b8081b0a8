--------------------------- MODULE ServingProofs ---------------------------
(***************************************************************************)
(* Proofs about the serving pipeline of Serving.tla: what its maps hold    *)
(* and when, for any number of requests and of tokenizers, and that aborts *)
(* take effect while one process tokenizes.                                *)
(***************************************************************************)
EXTENDS Serving, SequenceTheorems, FiniteSetTheorems, FunctionTheorems, TLAPS

TokenValue == {Script[u][i] : u \in Uid, i \in Nat}
Request == {TokenizeMsg(u) : u \in Uid} \cup {AbortMsg(u) : u \in Uid}
TokenMsg == {DetokenizeMsg(u, t, f) : u \in Uid, t \in TokenValue, f \in BOOLEAN}
Single == {<<m>> : m \in Request}
TokenBatch == Seq(TokenMsg) \ {<<>>}
Parcel == Single \cup TokenBatch

(* What the queues carry; only the detokenizer is sent tokens, and only a   *)
(* worker that tokenizes is sent anything else.                             *)
Carries(q) ==
    /\ DOMAIN q = Worker
    /\ \A w \in Worker : /\ q[w] \in Seq(Parcel)
                         /\ w # 0 => q[w] \in Seq(Single)
                         /\ w \notin Tokenizers => q[w] \in Seq(TokenBatch)

PipeTypes ==
    /\ num_tokenizer \in TokenizerCounts /\ next_tokenizer \in Tokenizers
    /\ Carries(inbox)
    /\ DOMAIN to_backend = Worker
    /\ \A w \in Worker : to_backend[w] \in Seq(Request) /\ (w \notin Tokenizers => to_backend[w] = <<>>)
    /\ backend \in [Uid -> [state : {"unknown", "running", "dropped", "done", "aborted"},
                            sent : Nat]]
    /\ DOMAIN decode_map \subseteq Uid

ApiTypes == DOMAIN task = Uid /\ DOMAIN pending = Uid

ServingInv == ApiTypes /\ ServingTypeOK /\ PipeTypes

(* A reply that waits has its event set, whatever the task does. *)
EventsSet == \A u \in DOMAIN ack_map : ack_map[u] # <<>> => event_map[u]

(* A token for u that is not its last is followed by another, once the      *)
(* scheduler has sent the last one.                                         *)
TokenOf(u, ms) == \E m \in ToSet(ms) : m.kind = "detokenize" /\ m.uid = u

LastIsFinished ==
    \A u \in Uid : backend[u].state = "done" =>
        \A i \in DOMAIN inbox[0] : \A m \in ToSet(inbox[0][i]) :
            m.kind = "detokenize" /\ m.uid = u /\ ~m.finished =>
                \E j \in DOMAIN inbox[0] : j > i /\ TokenOf(u, inbox[0][j])

StatusHasToken ==
    \A u \in DOMAIN decode_map : backend[u].state = "done" =>
        \E i \in DOMAIN inbox[0] : TokenOf(u, inbox[0][i])

ForgetInv == LastIsFinished /\ StatusHasToken

(* While one process tokenizes, every prompt and every abort passes through *)
(* its two queues: n, what it is sent, and then o, what it sends.           *)
Carried(o, n, m) == \/ \E i \in DOMAIN o : o[i] = m
                    \/ \E i \in DOMAIN n : n[i] = <<m>>
PromptIn(o, n, u) == Carried(o, n, TokenizeMsg(u))
AbortIn(o, n, u) == Carried(o, n, AbortMsg(u))

OnceIn(o, n, u) ==
    /\ \A i, j \in DOMAIN o : o[i] = TokenizeMsg(u) /\ o[j] = TokenizeMsg(u) => i = j
    /\ \A i, j \in DOMAIN n : n[i] = <<TokenizeMsg(u)>> /\ n[j] = <<TokenizeMsg(u)>> => i = j
    /\ \A i \in DOMAIN o, j \in DOMAIN n : ~(o[i] = TokenizeMsg(u) /\ n[j] = <<TokenizeMsg(u)>>)

(* No abort is ahead of the prompt of its request. *)
FirstIn(o, n, u) ==
    /\ \A i \in DOMAIN o : o[i] = AbortMsg(u) => \E j \in DOMAIN o : j < i /\ o[j] = TokenizeMsg(u)
    /\ \A i \in DOMAIN n : n[i] = <<AbortMsg(u)>> =>
           \/ \E j \in DOMAIN o : o[j] = TokenizeMsg(u)
           \/ \E j \in DOMAIN n : j < i /\ n[j] = <<TokenizeMsg(u)>>

In == inbox[num_tokenizer]
Out == to_backend[num_tokenizer]

(* A prompt is on its way, once and ahead of its abort, from when it is     *)
(* sent until the scheduler has it; and until the scheduler is rid of a     *)
(* cancelled request the abort is on its way, or still to be sent.          *)
OnTheWay(u) ==
    /\ task[u] \in {"none", "sending"} => backend[u].state = "unknown"
    /\ PromptIn(Out, In, u) <=> (task[u] \notin {"none", "sending"} /\ backend[u].state = "unknown")
    /\ OnceIn(Out, In, u)
    /\ backend[u].state = "unknown" => FirstIn(Out, In, u)
    /\ task[u] = "cancelled" /\ u \notin aborting /\ backend[u].state \in {"unknown", "running"}
           => AbortIn(Out, In, u)

AbortInv == \A u \in Uid : OnTheWay(u)

OneTokenizer == TokenizerCounts \subseteq {0, 1}

-----------------------------------------------------------------------------
(* Sequences *)

(* Appending one element. *)
LEMMA AtTheEnd ==
    ASSUME NEW S, NEW s \in Seq(S), NEW e \in S, NEW t, t = Append(s, e)
    PROVE  /\ t \in Seq(S) /\ t # <<>>
           /\ Len(s) \in Nat /\ Len(t) = Len(s) + 1
           /\ DOMAIN s = 1..Len(s) /\ DOMAIN t = 1..(Len(s) + 1)
           /\ \A i \in DOMAIN s : i \in DOMAIN t /\ t[i] = s[i] /\ i < Len(t)
           /\ \A i \in DOMAIN t : i \in DOMAIN s \/ i = Len(t)
           /\ Len(t) \in DOMAIN t /\ t[Len(t)] = e
<1>1. /\ t \in Seq(S) /\ Len(s) \in Nat /\ Len(t) = Len(s) + 1
      /\ \A i \in 1..Len(s) : t[i] = s[i]
      /\ t[Len(s) + 1] = e
  BY AppendProperties, LenProperties
<1>2. DOMAIN s = 1..Len(s) /\ DOMAIN t = 1..(Len(s) + 1)
  BY <1>1, LenProperties
<1>3. t # <<>>
  BY <1>1, EmptySeq
<1> QED
  BY <1>1, <1>2, <1>3

(* Taking the first element. *)
LEMMA FromTheFront ==
    ASSUME NEW S, NEW s \in Seq(S), s # <<>>, NEW t, t = Tail(s)
    PROVE  /\ t \in Seq(S) /\ Head(s) = s[1] /\ s[1] \in S /\ 1 \in DOMAIN s
           /\ DOMAIN s \subseteq Nat /\ DOMAIN t \subseteq Nat
           /\ \A i \in DOMAIN t : i + 1 \in DOMAIN s /\ t[i] = s[i + 1]
           /\ \A i \in DOMAIN s : i = 1 \/ (i > 1 /\ i - 1 \in DOMAIN t /\ t[i - 1] = s[i])
<1>1. /\ Head(s) = s[1] /\ Head(s) \in S /\ t \in Seq(S) /\ Len(t) = Len(s) - 1
      /\ \A i \in 1..Len(t) : t[i] = s[i + 1]
  BY HeadTailProperties
<1>2. Len(s) \in Nat \ {0} /\ DOMAIN s = 1..Len(s) /\ DOMAIN t = 1..Len(t)
  BY <1>1, EmptySeq, LenProperties
<1> QED
  BY <1>1, <1>2

-----------------------------------------------------------------------------
(* The pipeline *)

(* Names of workers and uids. *)
LEMMA Names ==
    /\ Uid \subseteq Nat /\ IsFiniteSet(Uid) /\ 0 \in Worker /\ NumUsers \in Nat \ {0}
    /\ num_tokenizer \in TokenizerCounts =>
           /\ Tokenizers \subseteq Worker /\ num_tokenizer \in Nat /\ Min(Tokenizers) \in Tokenizers
<1>1. NumUsers \in Nat \ {0} /\ TokenizerCounts \subseteq Nat
  BY ServingAssumptions
<1>2. Uid \subseteq Nat /\ IsFiniteSet(Uid)
  BY <1>1, FS_Interval DEF Uid
<1>3. ASSUME num_tokenizer \in TokenizerCounts
      PROVE  Tokenizers \subseteq Worker /\ Min(Tokenizers) \in Tokenizers
  <2>1. num_tokenizer \in Nat
    BY <1>1, <1>3
  <2>2. CASE num_tokenizer = 0
    <3>1. Tokenizers = {0} /\ 0 \in Tokenizers /\ \A y \in Tokenizers : 0 <= y
      BY <2>2 DEF Tokenizers
    <3> QED
      BY <3>1 DEF Min, Worker
  <2>3. CASE num_tokenizer # 0
    <3>1. Tokenizers = 1..num_tokenizer
      BY <2>3 DEF Tokenizers
    <3>2. 1 \in Tokenizers /\ \A y \in Tokenizers : 1 <= y
      BY <2>1, <2>3, <3>1
    <3>3. Min(Tokenizers) \in Tokenizers
      BY <3>2 DEF Min
    <3> QED
      BY <1>3, <3>1, <3>3 DEF Worker
  <2> QED
    BY <2>2, <2>3
<1> QED
  BY <1>1, <1>2, <1>3 DEF Worker

(* Requests are not tokens. *)
LEMMA Kinds ==
    /\ \A m \in Request : m.kind # "detokenize" /\ m.uid \in Uid
    /\ \A m \in TokenMsg : m.kind = "detokenize" /\ m.uid \in Uid
    /\ \A u \in Uid : TokenizeMsg(u) \in Request /\ AbortMsg(u) \in Request
                      /\ TokenizeMsg(u).uid = u /\ AbortMsg(u).uid = u
                      /\ TokenizeMsg(u).kind = "tokenize" /\ AbortMsg(u).kind = "abort"
    /\ \A m \in Request : <<m>> \in Single
    /\ Single \subseteq Parcel /\ TokenBatch \subseteq Parcel
    /\ \A p \in Single : p # <<>> /\ p[1] \in Request /\ p = <<p[1]>>
    /\ \A p \in TokenBatch : p # <<>> /\ p[1] \in TokenMsg /\ \A m \in ToSet(p) : m \in TokenMsg
  <1>1. \A p \in TokenBatch : p # <<>> /\ p[1] \in TokenMsg /\ \A m \in ToSet(p) : m \in TokenMsg
    <2> TAKE p \in TokenBatch
    <2>1. p \in Seq(TokenMsg) /\ p # <<>>
      BY DEF TokenBatch
    <2>2. Len(p) \in Nat \ {0}
      BY <2>1, EmptySeq
    <2> QED
      BY <2>1, <2>2, ElementOfSeq, LenProperties DEF ToSet
  <1>2. \A u \in Uid : TokenizeMsg(u) \in Request /\ AbortMsg(u) \in Request
                      /\ TokenizeMsg(u).uid = u /\ AbortMsg(u).uid = u
                      /\ TokenizeMsg(u).kind = "tokenize" /\ AbortMsg(u).kind = "abort"
    BY DEF Request, TokenizeMsg, AbortMsg
  <1>3. \A m \in Request : m.kind # "detokenize" /\ m.uid \in Uid
    BY DEF Request, TokenizeMsg, AbortMsg
  <1>4. \A m \in TokenMsg : m.kind = "detokenize" /\ m.uid \in Uid
    BY DEF TokenMsg, DetokenizeMsg
  <1>5. \A p \in Single : p # <<>> /\ p[1] \in Request /\ p = <<p[1]>>
    BY DEF Single
  <1> QED
    BY <1>1, <1>2, <1>3, <1>4, <1>5 DEF Single, Parcel

(* What a worker finds first in its queue. *)
LEMMA FirstParcel ==
    ASSUME PipeTypes, NEW w \in Worker, inbox[w] # <<>>
    PROVE  /\ Head(inbox[w]) = inbox[w][1]
           /\ Head(inbox[w])[1].kind = "detokenize" => w = 0 /\ Head(inbox[w]) \in TokenBatch
           /\ Head(inbox[w])[1].kind # "detokenize" =>
                  /\ w \in Tokenizers /\ Head(inbox[w])[1] \in Request
                  /\ Head(inbox[w]) = <<Head(inbox[w])[1]>>
<1>1. /\ inbox[w] \in Seq(Parcel) /\ (w # 0 => inbox[w] \in Seq(Single))
      /\ w \notin Tokenizers => inbox[w] \in Seq(TokenBatch)
  BY DEF PipeTypes, Carries
<1>2. /\ Head(inbox[w]) = inbox[w][1] /\ Head(inbox[w]) \in Parcel
      /\ w # 0 => Head(inbox[w]) \in Single
      /\ w \notin Tokenizers => Head(inbox[w]) \in TokenBatch
  BY <1>1, HeadTailProperties
<1> QED
  BY <1>2, Kinds DEF Parcel

(* A queue of a worker grows at its end, *)
LEMMA PutCarries ==
    ASSUME Carries(inbox), NEW w \in Worker, NEW p \in Parcel,
           w # 0 => p \in Single, w \notin Tokenizers => p \in TokenBatch,
           NEW q, q = Put(inbox, w, p)
    PROVE  /\ Carries(q) /\ q[w] = Append(inbox[w], p)
           /\ \A v \in Worker \ {w} : q[v] = inbox[v]
<1>1. /\ DOMAIN q = Worker /\ q[w] = Append(inbox[w], p)
      /\ \A v \in Worker \ {w} : q[v] = inbox[v]
  BY DEF Put, Carries
<1>2. q[w] \in Seq(Parcel) /\ (w # 0 => q[w] \in Seq(Single))
      /\ (w \notin Tokenizers => q[w] \in Seq(TokenBatch))
  BY <1>1, AtTheEnd DEF Carries
<1> QED
  BY <1>1, <1>2 DEF Carries

(* and is taken from its front. *)
LEMMA RestCarries ==
    ASSUME Carries(inbox), NEW w \in Worker, inbox[w] # <<>>, NEW q, q = Rest(inbox, w)
    PROVE  /\ Carries(q) /\ q[w] = Tail(inbox[w])
           /\ \A v \in Worker \ {w} : q[v] = inbox[v]
<1>1. /\ DOMAIN q = Worker /\ q[w] = Tail(inbox[w])
      /\ \A v \in Worker \ {w} : q[v] = inbox[v]
  BY DEF Rest, Carries
<1>2. q[w] \in Seq(Parcel) /\ (w # 0 => q[w] \in Seq(Single))
      /\ (w \notin Tokenizers => q[w] \in Seq(TokenBatch))
  BY <1>1, HeadTailProperties DEF Carries
<1> QED
  BY <1>1, <1>2 DEF Carries

(* A batch of the scheduler has one token of each of its requests. *)
LEMMA Generated ==
    ASSUME PipeTypes, NEW S \in SUBSET Uid, Generate(S)
    PROVE  \E b \in TokenBatch :
               /\ inbox' = Put(inbox, 0, b)
               /\ \A u \in S : \E i \in DOMAIN b : b[i].uid = u
               /\ \A i \in DOMAIN b : /\ b[i].uid \in S
                                      /\ b[i].finished = (backend[b[i].uid].sent + 1
                                                              >= FinishAt[b[i].uid])
<1>1. IsFiniteSet(S) /\ S # {}
  BY Names, FS_Subset DEF Generate
<1> PICK n : n = Cardinality(S)
  OBVIOUS
<1> PICK f : f = SetToSeq(S)
  OBVIOUS
<1>2. n \in Nat \ {0} /\ ExistsBijection(1..n, S)
  BY <1>1, FS_CardinalityType, FS_EmptySet
<1>3. f \in [1..n -> S] /\ IsInjective(f)
  <2>1. \E g \in [1..n -> S] : IsInjective(g)
    BY <1>2 DEF ExistsBijection, Bijection, Injection
  <2> QED
    BY <2>1 DEF SetToSeq
<1>4. \A u \in S : \E i \in 1..n : f[i] = u
  <2>1. f \in Bijection(1..n, Range(f))
    BY <1>3, Fun_InjMeansBijImage DEF Injection
  <2>2. Range(f) \subseteq S /\ IsFiniteSet(Range(f)) /\ Cardinality(Range(f)) = n
    <3>1. IsFiniteSet(1..n) /\ Cardinality(1..n) = n
      BY <1>2, FS_Interval
    <3>2. ExistsBijection(1..n, Range(f))
      BY <2>1 DEF ExistsBijection
    <3> QED
      BY <1>3, <3>1, <3>2, FS_Bijection DEF Range
  <2>3. Range(f) = S
    BY <1>1, <2>2, FS_Subset
  <2> QED
    BY <1>3, <2>3 DEF Range
<1> DEFINE at(u) == backend[u].sent + 1
           msg(u) == DetokenizeMsg(u, Script[u][at(u)], at(u) >= FinishAt[u])
<1> PICK b : b = [i \in 1..n |-> msg(f[i])]
  OBVIOUS
<1>5. inbox' = Put(inbox, 0, b)
  BY DEF Generate
<1>6. \A u \in Uid : msg(u) \in TokenMsg /\ msg(u).uid = u /\ msg(u).finished = (at(u) >= FinishAt[u])
  <2> TAKE u \in Uid
  <2>1. at(u) \in Nat
    BY DEF PipeTypes
  <2>2. Script[u][at(u)] \in TokenValue
    BY <2>1 DEF TokenValue
  <2>3. (at(u) >= FinishAt[u]) \in BOOLEAN
    OBVIOUS
  <2>4. msg(u) \in TokenMsg
    <3> PICK t : t = Script[u][at(u)]
      OBVIOUS
    <3> PICK g : g = (at(u) >= FinishAt[u])
      OBVIOUS
    <3>1. msg(u) = DetokenizeMsg(u, t, g) /\ t \in TokenValue /\ g \in BOOLEAN
      BY <2>2, <2>3
    <3> QED
      BY ONLY <3>1, u \in Uid DEF TokenMsg
  <2> QED
    BY <2>4 DEF DetokenizeMsg
<1>7. DOMAIN b = 1..n /\ \A i \in 1..n : b[i] = msg(f[i]) /\ f[i] \in S
  BY <1>3
<1> HIDE DEF msg
<1>8. b \in TokenBatch
  <2>1. b \in [1..n -> TokenMsg]
    BY <1>6, <1>7
  <2>2. b \in Seq(TokenMsg)
    BY <1>2, <2>1, SeqDef
  <2>3. b # <<>>
    BY <1>2, <1>7
  <2> QED
    BY <2>2, <2>3 DEF TokenBatch
<1>9. \A u \in S : \E i \in DOMAIN b : b[i].uid = u
  <2> TAKE u \in S
  <2>1. PICK i \in 1..n : f[i] = u
    BY <1>4
  <2> QED
    BY <1>6, <1>7, <2>1
<1>10. ASSUME NEW i \in DOMAIN b
       PROVE  b[i].uid \in S /\ b[i].finished = (at(b[i].uid) >= FinishAt[b[i].uid])
  <2>1. b[i] = msg(f[i]) /\ f[i] \in S
    BY <1>7
  <2> HIDE DEF at
  <2> QED
    BY <1>6, <2>1
<1> QED
  BY <1>5, <1>8, <1>9, <1>10

-----------------------------------------------------------------------------
(* The types *)

(* The queues hold what they may after a step that leaves the tokenizers. *)
LEMMA StillCarries ==
    ASSUME num_tokenizer' = num_tokenizer, Carries(inbox')
    PROVE  Carries(inbox)'
BY DEF Carries, Tokenizers

(* The API server sends to the workers that tokenize, in turn. *)
LEMMA ToTokenizerTypes ==
    ASSUME PipeTypes, NEW m \in Request, ToTokenizer(m)
    PROVE  /\ num_tokenizer' = num_tokenizer /\ next_tokenizer' \in Tokenizers'
           /\ Carries(inbox') /\ next_tokenizer \in Worker
           /\ inbox'[next_tokenizer] = Append(inbox[next_tokenizer], <<m>>)
           /\ \A v \in Worker \ {next_tokenizer} : inbox'[v] = inbox[v]
<1>1. /\ num_tokenizer \in TokenizerCounts /\ next_tokenizer \in Tokenizers /\ Carries(inbox)
      /\ num_tokenizer' = num_tokenizer /\ inbox' = Put(inbox, next_tokenizer, <<m>>)
  BY DEF PipeTypes, ToTokenizer
<1>2. Tokenizers' = Tokenizers
  BY <1>1 DEF Tokenizers
<1>3. next_tokenizer' \in Tokenizers /\ next_tokenizer \in Worker
  BY <1>1, Names DEF ToTokenizer
<1>4. <<m>> \in Single /\ <<m>> \in Parcel
  BY Kinds
<1>5. /\ Carries(inbox') /\ inbox'[next_tokenizer] = Append(inbox[next_tokenizer], <<m>>)
      /\ \A v \in Worker \ {next_tokenizer} : inbox'[v] = inbox[v]
  BY ONLY <1>1, <1>3, <1>4, PutCarries
<1> QED
  BY <1>1, <1>2, <1>3, <1>5

(* Every step leaves the pipeline with what belongs in it. *)
LEMMA PipeStep ==
    ASSUME ServingInv, [ServingNext]_serving_vars
    PROVE  PipeTypes'
<1>1. PipeTypes
  BY DEF ServingInv
<1>2. CASE UNCHANGED pipe_vars
  BY <1>1, <1>2 DEF PipeTypes, Carries, Tokenizers, pipe_vars
<1>3. ASSUME NEW m \in Request, ToTokenizer(m),
             UNCHANGED <<to_backend, backend, to_frontend, decode_map>>
      PROVE  PipeTypes'
  <2>1. /\ num_tokenizer' = num_tokenizer /\ next_tokenizer' \in Tokenizers' /\ Carries(inbox)'
    BY <1>1, <1>3, ToTokenizerTypes, StillCarries
  <2>2. Tokenizers' = Tokenizers
    BY <2>1 DEF Tokenizers
  <2> QED
    BY <1>1, <1>3, <2>1, <2>2 DEF PipeTypes
<1>4. ASSUME NEW u \in Uid, Send(u)
      PROVE  PipeTypes'
  BY <1>3, <1>4, Kinds DEF Send
<1>5. ASSUME NEW u \in Uid, AbortUser(u)
      PROVE  PipeTypes'
  BY <1>3, <1>5, Kinds DEF AbortUser
<1>6. ASSUME Listen
      PROVE  PipeTypes'
  BY <1>1, <1>6 DEF Listen, PipeTypes, Carries, Tokenizers
<1>7. ASSUME NEW w \in Worker, Detokenize(w)
      PROVE  PipeTypes'
  <2>1. inbox[w] # <<>> /\ Head(inbox[w]) \in TokenBatch /\ w = 0
    BY <1>1, <1>7, FirstParcel DEF Detokenize
  <2>2. Carries(inbox')
    BY <1>1, <1>7, <2>1, RestCarries DEF Detokenize, PipeTypes
  <2>3. DOMAIN decode_map' \subseteq Uid
    <3>1. DOMAIN decode_map' \subseteq DOMAIN decode_map
              \cup {m.uid : m \in ToSet(Head(inbox[w]))}
      BY <1>7 DEF Detokenize
    <3> QED
      BY <1>1, <2>1, <3>1, Kinds DEF PipeTypes
  <2>4. UNCHANGED <<num_tokenizer, next_tokenizer, to_backend, backend>>
    BY <1>7 DEF Detokenize
  <2> QED
    BY <1>1, <2>2, <2>3, <2>4, StillCarries DEF PipeTypes, Tokenizers
<1>8. ASSUME NEW w \in Worker, Tokenize(w)
      PROVE  PipeTypes'
  <2> PICK m : m = Head(inbox[w])[1]
    OBVIOUS
  <2>1. inbox[w] # <<>> /\ m \in Request /\ w \in Tokenizers
    BY <1>1, <1>8, FirstParcel DEF Tokenize
  <2>2. Carries(inbox')
    BY <1>1, <1>8, <2>1, RestCarries DEF Tokenize, PipeTypes
  <2>3. to_backend' = Put(to_backend, w, m)
    BY <1>8 DEF Tokenize
  <2>4. Append(to_backend[w], m) \in Seq(Request)
    BY <1>1, <2>1, AtTheEnd DEF PipeTypes
  <2>5. DOMAIN to_backend' = Worker /\ \A v \in Worker :
            to_backend'[v] \in Seq(Request) /\ (v \notin Tokenizers => to_backend'[v] = <<>>)
    BY <1>1, <2>1, <2>3, <2>4 DEF PipeTypes, Put
  <2>6. UNCHANGED <<num_tokenizer, next_tokenizer, backend, decode_map>>
    BY <1>8 DEF Tokenize
  <2> QED
    BY <1>1, <2>2, <2>5, <2>6, StillCarries DEF PipeTypes, Tokenizers
<1>9. ASSUME NEW w \in Worker, Receive(w)
      PROVE  PipeTypes'
  <2> PICK m : m = Head(to_backend[w])
    OBVIOUS
  <2>1. /\ to_backend[w] # <<>> /\ to_backend[w] \in Seq(Request) /\ w \in Tokenizers
        /\ m \in Request /\ Tail(to_backend[w]) \in Seq(Request)
    BY <1>1, <1>9, HeadTailProperties DEF Receive, PipeTypes
  <2>2. to_backend' = Rest(to_backend, w)
    BY <1>9 DEF Receive
  <2>3. DOMAIN to_backend' = Worker /\ \A v \in Worker :
            to_backend'[v] \in Seq(Request) /\ (v \notin Tokenizers => to_backend'[v] = <<>>)
    BY <1>1, <2>1, <2>2 DEF PipeTypes, Rest
  <2>4. backend' \in [Uid -> [state : {"unknown", "running", "dropped", "done", "aborted"},
                              sent : Nat]]
    <3>1. m.uid \in Uid
      BY <2>1, Kinds
    <3>2. backend \in [Uid -> [state : {"unknown", "running", "dropped", "done", "aborted"},
                               sent : Nat]]
      BY <1>1 DEF PipeTypes
    <3>3. PICK s : /\ backend' = [backend EXCEPT ![m.uid].state = s]
                   /\ s \in {backend[m.uid].state, "running", "dropped", "aborted"}
      <4>1. m = Head(to_backend[w])
        OBVIOUS
      <4> QED
        BY ONLY <1>9, <4>1 DEF Receive, Aborted
    <3> QED
      BY ONLY <3>1, <3>2, <3>3
  <2>5. UNCHANGED <<num_tokenizer, next_tokenizer, inbox, decode_map>>
    BY <1>9 DEF Receive
  <2> QED
    BY <1>1, <2>3, <2>4, <2>5, StillCarries DEF PipeTypes, Tokenizers
<1>10. ASSUME NEW S \in SUBSET Uid, Generate(S)
       PROVE  PipeTypes'
  <2>1. PICK b \in TokenBatch : inbox' = Put(inbox, 0, b)
    BY <1>1, <1>10, Generated
  <2>2. Carries(inbox')
    BY <1>1, <2>1, PutCarries, Names, Kinds DEF PipeTypes
  <2>3. backend' \in [Uid -> [state : {"unknown", "running", "dropped", "done", "aborted"},
                              sent : Nat]]
    BY <1>1, <1>10 DEF Generate, PipeTypes
  <2>4. UNCHANGED <<num_tokenizer, next_tokenizer, to_backend, decode_map>>
    BY <1>10 DEF Generate
  <2> QED
    BY <1>1, <2>2, <2>3, <2>4, StillCarries DEF PipeTypes, Tokenizers
<1>11. CASE \/ NewUser \/ \E u \in Uid : Wake(u) \/ Deliver(u) \/ End(u) \/ Cancel(u) \/ Disconnect(u)
  BY <1>2, <1>11 DEF NewUser, Wake, Deliver, End, Cancel, Disconnect
<1> QED
  BY <1>2, <1>4, <1>5, <1>6, <1>7, <1>8, <1>9, <1>10, <1>11
     DEF ServingNext, Progress, Step, serving_vars

(* No action of the API server makes a map or a task lose what it needs. *)
LEMMA ApiStep ==
    ASSUME ServingInv, EventsSet, [ServingNext]_serving_vars
    PROVE  (ApiTypes /\ ServingTypeOK /\ EventsSet)'
<1>1. ApiTypes /\ ServingTypeOK /\ PipeTypes
  BY DEF ServingInv
<1>2. Uid \subseteq Nat /\ NumUsers \in Nat /\ uid_counter \in 0..NumUsers /\ Uid = 0..(NumUsers - 1)
  BY <1>1, Names DEF ServingTypeOK, Uid
<1>3. CASE UNCHANGED api_vars
  BY <1>1, <1>3 DEF ApiTypes, ServingTypeOK, EventsSet, api_vars
<1>4. CASE NewUser
  <2>1. uid_counter \in Uid /\ uid_counter' = uid_counter + 1 /\ uid_counter' \in 0..NumUsers
    BY <1>2, <1>4 DEF NewUser
  <2>2. /\ DOMAIN ack_map' = DOMAIN ack_map \cup {uid_counter}
        /\ DOMAIN event_map' = DOMAIN event_map \cup {uid_counter}
        /\ ack_map'[uid_counter] = <<>>
        /\ \A u \in DOMAIN ack_map \ {uid_counter} :
               ack_map'[u] = ack_map[u] /\ event_map'[u] = event_map[u]
    BY <1>1, <1>4 DEF NewUser, Update, ServingTypeOK
  <2>3. task' = [task EXCEPT ![uid_counter] = "sending"] /\ UNCHANGED <<pending, aborting>>
    BY <1>4 DEF NewUser
  <2>4. DOMAIN ack_map' \subseteq 0..(uid_counter' - 1)
    BY <1>1, <1>2, <2>1, <2>2 DEF ServingTypeOK
  <2>5. \A u \in Uid : (task'[u] = "none") <=> (u >= uid_counter')
    BY <1>1, <1>2, <2>1, <2>3 DEF ServingTypeOK, ApiTypes
  <2>6. uid_counter \notin aborting
    BY <1>1, <1>2, <2>1 DEF ServingTypeOK
  <2>7. EventsSet'
    BY <1>1, <2>2 DEF EventsSet
  <2> QED
    BY <1>1, <2>1, <2>2, <2>3, <2>4, <2>5, <2>6, <2>7 DEF ApiTypes, ServingTypeOK
<1>5. ASSUME NEW u \in Uid, Send(u)
      PROVE  (ApiTypes /\ ServingTypeOK /\ EventsSet)'
  BY <1>1, <1>5 DEF Send, ApiTypes, ServingTypeOK, EventsSet
<1>6. CASE Listen
  <2> PICK replies : replies = Head(to_frontend)
    OBVIOUS
  <2>1. /\ DOMAIN ack_map' = DOMAIN ack_map /\ DOMAIN event_map' = DOMAIN event_map
        /\ UNCHANGED <<uid_counter, task, pending, aborting>>
        /\ \A u \in DOMAIN ack_map : ack_map'[u] = ack_map[u] \o RepliesOf(u, replies)
        /\ \A u \in DOMAIN event_map : event_map'[u] =
               (event_map[u] \/ u \in {v \in DOMAIN ack_map : RepliesOf(v, replies) # <<>>})
    BY <1>6 DEF Listen, Queued
  <2>2. ASSUME NEW u \in DOMAIN ack_map', ack_map'[u] # <<>>
        PROVE  event_map'[u]
    <3>1. CASE ack_map[u] # <<>>
      BY <1>1, <2>1, <3>1 DEF EventsSet, ServingTypeOK
    <3>2. CASE ack_map[u] = <<>>
      <4>1. RepliesOf(u, replies) # <<>>
        <5>1. <<>> \o <<>> = <<>>
          OBVIOUS
        <5> QED
          BY <2>1, <2>2, <3>2, <5>1
      <4> QED
        BY <1>1, <2>1, <4>1 DEF ServingTypeOK
    <3> QED
      BY <3>1, <3>2
  <2> QED
    BY <1>1, <2>1, <2>2 DEF ApiTypes, ServingTypeOK, EventsSet
<1>7. ASSUME NEW u \in Uid, Wake(u)
      PROVE  (ApiTypes /\ ServingTypeOK /\ EventsSet)'
  BY <1>1, <1>7 DEF Wake, ApiTypes, ServingTypeOK, EventsSet
<1>8. ASSUME NEW u \in Uid, Deliver(u)
      PROVE  (ApiTypes /\ ServingTypeOK /\ EventsSet)'
  <2>1. /\ task[u] = "yielding" /\ pending' = [pending EXCEPT ![u] = Tail(pending[u])]
        /\ task' = [task EXCEPT ![u] = task'[u]]
        /\ task'[u] \in {"ending", "yielding", "waiting"}
        /\ task'[u] = "yielding" => Tail(pending[u]) # <<>>
        /\ UNCHANGED <<uid_counter, ack_map, event_map, aborting>>
    BY <1>1, <1>8 DEF Deliver, ApiTypes
  <2> QED
    BY <1>1, <2>1 DEF ApiTypes, ServingTypeOK, EventsSet
<1>9. ASSUME NEW u \in Uid, End(u)
      PROVE  (ApiTypes /\ ServingTypeOK /\ EventsSet)'
  BY <1>1, <1>9 DEF End, ApiTypes, ServingTypeOK, EventsSet
<1>10. ASSUME NEW u \in Uid, Cancel(u)
       PROVE  (ApiTypes /\ ServingTypeOK /\ EventsSet)'
  BY <1>1, <1>10 DEF Cancel, ApiTypes, ServingTypeOK, EventsSet
<1>11. ASSUME NEW u \in Uid, Disconnect(u)
       PROVE  (ApiTypes /\ ServingTypeOK /\ EventsSet)'
  BY <1>1, <1>11 DEF Disconnect, ApiTypes, ServingTypeOK, EventsSet
<1>12. ASSUME NEW u \in Uid, AbortUser(u)
       PROVE  (ApiTypes /\ ServingTypeOK /\ EventsSet)'
  <2>1. task[u] = "cancelled"
    BY <1>1, <1>12 DEF AbortUser, ServingTypeOK
  <2>2. /\ aborting' = aborting \ {u} /\ UNCHANGED <<uid_counter, task, pending>>
        /\ DOMAIN ack_map' = DOMAIN ack_map \ {u} /\ DOMAIN event_map' = DOMAIN event_map \ {u}
        /\ \A v \in DOMAIN ack_map' : ack_map'[v] = ack_map[v]
        /\ \A v \in DOMAIN event_map' : event_map'[v] = event_map[v]
    BY <1>12 DEF AbortUser
  <2> QED
    BY <1>1, <2>1, <2>2 DEF ApiTypes, ServingTypeOK, EventsSet
<1>13. ASSUME \/ \E w \in Worker : Tokenize(w) \/ Receive(w) \/ Detokenize(w)
              \/ \E S \in SUBSET Uid : Generate(S)
       PROVE  UNCHANGED api_vars
  BY <1>13 DEF Tokenize, Receive, Detokenize, Generate
<1> QED
  BY <1>3, <1>4, <1>5, <1>6, <1>7, <1>8, <1>9, <1>10, <1>11, <1>12, <1>13
     DEF ServingNext, Progress, Step, serving_vars

(* The invariant holds from the start. *)
LEMMA InitServing ==
    ASSUME ServingInit
    PROVE  ServingInv /\ EventsSet /\ ForgetInv /\ AbortInv
<1>1. Uid \subseteq Nat /\ 0 \in Worker /\ NumUsers \in Nat
  BY Names
<1>2. DOMAIN ack_map = {} /\ DOMAIN event_map = {} /\ DOMAIN decode_map = {}
  BY DEF ServingInit, NoEntries
<1>3. PipeTypes
  BY <1>2, EmptySeq DEF ServingInit, PipeTypes, Carries
<1>4. ServingTypeOK /\ ApiTypes
  BY <1>1, <1>2 DEF ServingInit, ServingTypeOK, ApiTypes
<1>5. EventsSet
  BY <1>2 DEF EventsSet
<1>6. ForgetInv
  BY <1>2 DEF ServingInit, ForgetInv, LastIsFinished, StatusHasToken
<1>7. AbortInv
  <2>1. num_tokenizer \in Worker
    <3>1. num_tokenizer \in TokenizerCounts /\ num_tokenizer \in Nat
      BY Names DEF ServingInit
    <3>2. num_tokenizer = 0 \/ num_tokenizer \in 1..num_tokenizer
      BY <3>1
    <3> QED
      BY <3>1, <3>2 DEF Worker
  <2>2. In = <<>> /\ Out = <<>> /\ DOMAIN In = {} /\ DOMAIN Out = {}
    BY <2>1 DEF ServingInit, In, Out
  <2> QED
    BY <2>2 DEF ServingInit, AbortInv, OnTheWay, PromptIn, Carried, OnceIn, FirstIn
<1> QED
  BY <1>3, <1>4, <1>5, <1>6, <1>7 DEF ServingInv

(* The types, and the events, hold in every state. *)
LEMMA ServingInvariant == ServingSpec => [](ServingInv /\ EventsSet)
<1>1. ServingInit => ServingInv /\ EventsSet
  BY InitServing
<1>2. ServingInv /\ EventsSet /\ [ServingNext]_serving_vars => (ServingInv /\ EventsSet)'
  BY ApiStep, PipeStep DEF ServingInv
<1> QED
  BY <1>1, <1>2, PTL DEF ServingSpec

(* The listener, the task that answers a request and the task that aborts   *)
(* it agree on the entries of the request in every state: none of them      *)
(* finds its entry gone, and no reply is yielded that was not queued.       *)
THEOREM EntriesOutlastTheirTask == ServingSpec => []ServingTypeOK
<1>1. ServingInv => ServingTypeOK
  BY DEF ServingInv
<1> QED
  BY <1>1, ServingInvariant, PTL

(* However the listener and the task that waits interleave, a task is never *)
(* left asleep with a reply in its queue (wait_for_ack clears the event     *)
(* before it takes the replies).                                            *)
THEOREM NoReplySleeps == ServingSpec => []NoLostWakeup
<1>1. EventsSet => NoLostWakeup
  BY DEF EventsSet, NoLostWakeup
<1> QED
  BY <1>1, ServingInvariant, PTL

-----------------------------------------------------------------------------
(* What the detokenizer keeps *)

(* A step keeps ForgetInv. *)
LEMMA ForgetStep ==
    ASSUME ServingInv, ForgetInv, [ServingNext]_serving_vars
    PROVE  ForgetInv'
<1>1. PipeTypes /\ 0 \in Worker /\ Uid \subseteq Nat
  BY Names DEF ServingInv
<1>2. inbox[0] \in Seq(Parcel) /\ DOMAIN inbox = Worker /\ DOMAIN backend = Uid
      /\ DOMAIN decode_map \subseteq Uid
  BY <1>1 DEF PipeTypes, Carries
<1>3. CASE UNCHANGED <<inbox, backend, decode_map>>
  BY <1>3 DEF ForgetInv, LastIsFinished, StatusHasToken, TokenOf
(* A parcel without tokens is added at the end. *)
<1>4. ASSUME NEW p \in Parcel, inbox'[0] = Append(inbox[0], p),
             UNCHANGED <<backend, decode_map>>, \A m \in ToSet(p) : m.kind # "detokenize"
      PROVE  ForgetInv'
  <2> PICK q : q = inbox[0]
    OBVIOUS
  <2> PICK t : t = inbox'[0]
    OBVIOUS
  <2>1. /\ \A i \in DOMAIN q : i \in DOMAIN t /\ t[i] = q[i] /\ i < Len(t)
        /\ \A i \in DOMAIN t : i \in DOMAIN q \/ i = Len(t)
        /\ t[Len(t)] = p
    BY <1>2, <1>4, AtTheEnd
  <2>2. LastIsFinished'
    <3> SUFFICES ASSUME NEW u \in Uid, backend'[u].state = "done", NEW i \in DOMAIN t,
                        NEW m \in ToSet(t[i]), m.kind = "detokenize", m.uid = u, ~m.finished
                 PROVE  \E j \in DOMAIN t : j > i /\ TokenOf(u, t[j])
      BY DEF LastIsFinished, TokenOf
    <3>1. i \in DOMAIN q /\ q[i] = t[i]
      BY <1>4, <2>1
    <3>2. PICK j \in DOMAIN q : j > i /\ TokenOf(u, q[j])
      BY <1>4, <3>1 DEF ForgetInv, LastIsFinished
    <3> QED
      BY <2>1, <3>2
  <2>3. StatusHasToken'
    <3> SUFFICES ASSUME NEW u \in DOMAIN decode_map, backend'[u].state = "done"
                 PROVE  \E i \in DOMAIN t : TokenOf(u, t[i])
      BY <1>4 DEF StatusHasToken, TokenOf
    <3>1. PICK i \in DOMAIN q : TokenOf(u, q[i])
      BY <1>4 DEF ForgetInv, StatusHasToken
    <3> QED
      BY <2>1, <3>1
  <2> QED
    BY <2>2, <2>3 DEF ForgetInv
<1>5. ASSUME NEW m \in Request, ToTokenizer(m), UNCHANGED <<backend, decode_map>>
      PROVE  ForgetInv'
  <2>1. next_tokenizer \in Worker /\ inbox' = Put(inbox, next_tokenizer, <<m>>)
    BY <1>1, <1>5, ToTokenizerTypes DEF ToTokenizer
  <2>2. CASE next_tokenizer = 0
    <3>1. <<m>> \in Parcel /\ \A x \in ToSet(<<m>>) : x.kind # "detokenize"
      BY Kinds DEF ToSet
    <3>2. inbox'[0] = Append(inbox[0], <<m>>)
      BY <1>2, <2>1, <2>2 DEF Put
    <3> QED
      BY <1>4, <1>5, <3>1, <3>2
  <2>3. CASE next_tokenizer # 0
    <3>1. inbox'[0] = inbox[0]
      BY <1>1, <1>2, <2>1, <2>3 DEF Put
    <3> QED
      BY <1>5, <3>1 DEF ForgetInv, LastIsFinished, StatusHasToken, TokenOf
  <2> QED
    BY <2>2, <2>3
<1>6. ASSUME NEW u \in Uid, Send(u) \/ AbortUser(u)
      PROVE  ForgetInv'
  BY <1>5, <1>6, Kinds DEF Send, AbortUser

<1>7. ASSUME NEW w \in Worker, inbox' = Rest(inbox, w), inbox[w] # <<>>, UNCHANGED backend
      PROVE  LastIsFinished'
  <2>1. CASE w # 0
    <3>1. inbox'[0] = inbox[0]
      BY <1>1, <1>2, <1>7, <2>1 DEF Rest
    <3> QED
      BY <1>7, <3>1 DEF ForgetInv, LastIsFinished, TokenOf
  <2>2. CASE w = 0
    <3> PICK q : q = inbox[0]
      OBVIOUS
    <3> PICK t : t = inbox'[0]
      OBVIOUS
    <3>1. t = Tail(q)
      BY <1>2, <1>7, <2>2 DEF Rest
    <3>2. /\ DOMAIN q \subseteq Nat /\ DOMAIN t \subseteq Nat
          /\ \A i \in DOMAIN t : i + 1 \in DOMAIN q /\ t[i] = q[i + 1]
          /\ \A i \in DOMAIN q : i = 1 \/ (i > 1 /\ i - 1 \in DOMAIN t /\ t[i - 1] = q[i])
      BY <1>2, <1>7, <2>2, <3>1, FromTheFront
    <3> SUFFICES ASSUME NEW u \in Uid, backend[u].state = "done", NEW i \in DOMAIN t,
                        NEW m \in ToSet(t[i]), m.kind = "detokenize", m.uid = u, ~m.finished
                 PROVE  \E j \in DOMAIN t : j > i /\ TokenOf(u, t[j])
      BY <1>7 DEF LastIsFinished, TokenOf
    <3>3. i + 1 \in DOMAIN q /\ m \in ToSet(q[i + 1])
      BY <3>2
    <3>4. PICK j \in DOMAIN q : j > i + 1 /\ TokenOf(u, q[j])
      BY <3>3 DEF ForgetInv, LastIsFinished
    <3>5. i \in Nat /\ j \in Nat
      BY <3>2
    <3> PICK k : k = j - 1
      OBVIOUS
    <3>6. j # 1 /\ k > i
      BY <3>4, <3>5
    <3>7. k \in DOMAIN t /\ t[k] = q[j]
      BY <3>2, <3>6
    <3> QED
      BY <3>4, <3>6, <3>7
  <2> QED
    BY <2>1, <2>2
<1>8. ASSUME NEW w \in Worker, Tokenize(w)
      PROVE  ForgetInv'
  <2>1. /\ inbox[w] # <<>> /\ inbox' = Rest(inbox, w) /\ UNCHANGED <<backend, decode_map>>
        /\ Head(inbox[w])[1] \in Request /\ Head(inbox[w]) = <<Head(inbox[w])[1]>>
    BY <1>1, <1>8, FirstParcel DEF Tokenize
  <2>2. StatusHasToken'
    <3>1. CASE w # 0
      <4>1. inbox'[0] = inbox[0]
        BY <1>1, <1>2, <2>1, <3>1 DEF Rest
      <4> QED
        BY <2>1, <4>1 DEF ForgetInv, StatusHasToken, TokenOf
    <3>2. CASE w = 0
      <4> PICK q : q = inbox[0]
        OBVIOUS
      <4> PICK t : t = inbox'[0]
        OBVIOUS
      <4>1. t = Tail(q) /\ q # <<>>
        BY <1>2, <2>1, <3>2 DEF Rest
      <4>2. /\ q[1] = Head(q)
            /\ \A i \in DOMAIN q : i = 1 \/ (i > 1 /\ i - 1 \in DOMAIN t /\ t[i - 1] = q[i])
        BY <1>2, <4>1, FromTheFront
      <4>3. \A u : ~TokenOf(u, q[1])
        BY <2>1, <3>2, <4>2, Kinds DEF TokenOf, ToSet
      <4> SUFFICES ASSUME NEW u \in DOMAIN decode_map, backend[u].state = "done"
                   PROVE  \E i \in DOMAIN t : TokenOf(u, t[i])
        BY <2>1 DEF StatusHasToken, TokenOf
      <4>4. PICK i \in DOMAIN q : TokenOf(u, q[i])
        BY DEF ForgetInv, StatusHasToken
      <4>5. i - 1 \in DOMAIN t /\ t[i - 1] = q[i]
        BY <4>2, <4>3, <4>4
      <4> QED
        BY <4>4, <4>5
    <3> QED
      BY <3>1, <3>2
  <2> QED
    BY <1>7, <2>1, <2>2 DEF ForgetInv
<1>9. ASSUME NEW w \in Worker, Detokenize(w)
      PROVE  ForgetInv'
  <2> PICK msgs : msgs = Head(inbox[w])
    OBVIOUS
  <2>1. inbox[w] # <<>> /\ inbox' = Rest(inbox, w) /\ UNCHANGED backend
    BY <1>9 DEF Detokenize
  <2>2. w = 0 /\ msgs \in TokenBatch
    BY <1>1, <1>9, FirstParcel DEF Detokenize
  <2>3. DOMAIN decode_map' = (DOMAIN decode_map \cup {m.uid : m \in ToSet(msgs)}) \ Ended(msgs)
    BY <1>9 DEF Detokenize
  <2>4. StatusHasToken'
    <3> PICK q : q = inbox[0]
      OBVIOUS
    <3> PICK t : t = inbox'[0]
      OBVIOUS
    <3>1. t = Tail(q) /\ q # <<>>
      BY <1>2, <2>1, <2>2 DEF Rest
    <3>2. /\ q[1] = msgs /\ 1 \in DOMAIN q
          /\ \A i \in DOMAIN q : i = 1 \/ (i > 1 /\ i - 1 \in DOMAIN t /\ t[i - 1] = q[i])
      BY <1>2, <2>2, <3>1, FromTheFront
    <3> SUFFICES ASSUME NEW u \in DOMAIN decode_map', backend[u].state = "done"
                 PROVE  \E i \in DOMAIN t : TokenOf(u, t[i])
      BY <2>1 DEF StatusHasToken, TokenOf
    <3>3. \E i \in DOMAIN q : i # 1 /\ TokenOf(u, q[i])
      <4>1. CASE u \in {m.uid : m \in ToSet(msgs)}
        <5>1. PICK m \in ToSet(msgs) : m.uid = u
          BY <4>1
        <5>2. m.kind = "detokenize" /\ u \in Uid
          BY <2>2, <5>1, Kinds
        <5>3. ~m.finished
          BY <2>3, <5>1 DEF Ended
        <5>4. \E j \in DOMAIN q : j > 1 /\ TokenOf(u, q[j])
          BY <3>2, <5>1, <5>2, <5>3 DEF ForgetInv, LastIsFinished
        <5> QED
          BY <5>4
      <4>2. CASE u \notin {m.uid : m \in ToSet(msgs)}
        <5>1. u \in DOMAIN decode_map /\ ~TokenOf(u, q[1])
          BY <2>3, <3>2, <4>2 DEF TokenOf
        <5> QED
          BY <5>1 DEF ForgetInv, StatusHasToken
      <4> QED
        BY <4>1, <4>2
    <3>4. PICK i \in DOMAIN q : i # 1 /\ TokenOf(u, q[i])
      BY <3>3
    <3>5. i - 1 \in DOMAIN t /\ t[i - 1] = q[i]
      BY <3>2, <3>4
    <3> QED
      BY <3>4, <3>5
  <2> QED
    BY <1>7, <2>1, <2>4 DEF ForgetInv
<1>10. ASSUME NEW w \in Worker, Receive(w)
       PROVE  ForgetInv'
  <2>1. UNCHANGED <<inbox, decode_map>> /\ \A u \in Uid : backend'[u].state = "done" =>
                                                backend[u].state = "done"
    BY <1>1, <1>10 DEF Receive, Aborted, PipeTypes
  <2> QED
    BY <1>2, <2>1 DEF ForgetInv, LastIsFinished, StatusHasToken, TokenOf
<1>11. ASSUME NEW S \in SUBSET Uid, Generate(S)
       PROVE  ForgetInv'
  <2>1. PICK b \in TokenBatch :
            /\ inbox' = Put(inbox, 0, b)
            /\ \A u \in S : \E i \in DOMAIN b : b[i].uid = u
            /\ \A i \in DOMAIN b : /\ b[i].uid \in S
                                   /\ b[i].finished = (backend[b[i].uid].sent + 1
                                                           >= FinishAt[b[i].uid])
    BY <1>1, <1>11, Generated
  <2> PICK q : q = inbox[0]
    OBVIOUS
  <2> PICK t : t = inbox'[0]
    OBVIOUS
  <2>2. t = Append(q, b) /\ b \in Parcel /\ UNCHANGED decode_map
    BY <1>1, <1>2, <1>11, <2>1, Kinds DEF Put, Generate
  <2>3. /\ \A i \in DOMAIN q : i \in DOMAIN t /\ t[i] = q[i] /\ i < Len(t)
        /\ \A i \in DOMAIN t : i \in DOMAIN q \/ i = Len(t)
        /\ Len(t) \in DOMAIN t /\ t[Len(t)] = b
    BY <1>2, <2>2, AtTheEnd
  <2>4. \A m \in ToSet(b) : \E i \in DOMAIN b : m = b[i]
    BY DEF ToSet
  <2>5. \A u \in S : TokenOf(u, b)
    BY <2>1, Kinds DEF TokenOf, ToSet
  <2>6. \A u \in Uid \ S : backend'[u] = backend[u]
    BY <1>11 DEF Generate
  <2>7. \A u \in S : backend'[u].state = "done" =>
            \A m \in ToSet(b) : m.uid = u => m.finished
    <3> SUFFICES ASSUME NEW u \in S, backend'[u].state = "done", NEW i \in DOMAIN b, b[i].uid = u
                 PROVE  b[i].finished
      BY <2>4
    <3>1. backend[u].sent + 1 = Len(Script[u])
      BY <1>11 DEF Generate
    <3>2. FinishAt[u] \in 1..Len(Script[u])
      BY ServingAssumptions
    <3>3. backend[u].sent \in Nat
      BY <1>1 DEF PipeTypes
    <3>4. backend[u].sent + 1 >= FinishAt[u]
      BY <3>1, <3>2, <3>3
    <3> QED
      BY <2>1, <3>4
  <2>8. LastIsFinished'
    <3> SUFFICES ASSUME NEW u \in Uid, backend'[u].state = "done", NEW i \in DOMAIN t,
                        NEW m \in ToSet(t[i]), m.kind = "detokenize", m.uid = u, ~m.finished
                 PROVE  \E j \in DOMAIN t : j > i /\ TokenOf(u, t[j])
      BY DEF LastIsFinished, TokenOf
    <3>1. CASE u \in S
      <4>1. i \in DOMAIN q
        BY <2>3, <2>7, <3>1
      <4> QED
        BY <2>3, <2>5, <3>1, <4>1
    <3>2. CASE u \notin S
      <4>1. i \in DOMAIN q /\ t[i] = q[i]
        BY <2>1, <2>3, <2>4, <3>2
      <4>2. PICK j \in DOMAIN q : j > i /\ TokenOf(u, q[j])
        BY <2>6, <3>2, <4>1 DEF ForgetInv, LastIsFinished
      <4> QED
        BY <2>3, <4>2
    <3> QED
      BY <3>1, <3>2
  <2>9. StatusHasToken'
    <3> SUFFICES ASSUME NEW u \in DOMAIN decode_map, backend'[u].state = "done"
                 PROVE  \E i \in DOMAIN t : TokenOf(u, t[i])
      BY <2>2 DEF StatusHasToken, TokenOf
    <3>1. CASE u \in S
      BY <2>3, <2>5, <3>1
    <3>2. CASE u \notin S
      <4>1. PICK i \in DOMAIN q : TokenOf(u, q[i])
        BY <1>2, <2>6, <3>2 DEF ForgetInv, StatusHasToken
      <4> QED
        BY <2>3, <4>1
    <3> QED
      BY <3>1, <3>2
  <2> QED
    BY <2>8, <2>9 DEF ForgetInv
<1>12. ASSUME \/ Listen \/ NewUser
              \/ \E u \in Uid : Wake(u) \/ Deliver(u) \/ End(u) \/ Cancel(u) \/ Disconnect(u)
       PROVE  UNCHANGED <<inbox, backend, decode_map>>
  BY <1>12 DEF Listen, NewUser, Wake, Deliver, End, Cancel, Disconnect, pipe_vars
<1>13. CASE UNCHANGED serving_vars
  BY <1>3, <1>13 DEF serving_vars, pipe_vars
<1> QED
  BY <1>3, <1>6, <1>8, <1>9, <1>10, <1>11, <1>12, <1>13 DEF ServingNext, Progress, Step

(* The status of a request whose last token has been sent is there only     *)
(* while a token of it is on its way: the last message to the detokenizer   *)
(* is always a finished one, so that nothing of the request stays in        *)
(* decode_map, though the scheduler may say "finished" one token early.     *)
THEOREM FinishedRequestsAreForgotten == ServingSpec => []FinishedStatusDropped
<1>1. ServingInit => ServingInv /\ EventsSet /\ ForgetInv
  BY InitServing
<1>2. ServingInv /\ ForgetInv /\ [ServingNext]_serving_vars => ForgetInv'
  BY ForgetStep
<1>3. ForgetInv => FinishedStatusDropped
  BY DEF ForgetInv, StatusHasToken, FinishedStatusDropped, InTransit, TokenOf, ToSet
<1> QED
  BY <1>1, <1>2, <1>3, ServingInvariant, PTL DEF ServingSpec

-----------------------------------------------------------------------------
(* Aborts, while one process tokenizes *)

(* Which messages, and which parcels, are the same. *)
LEMMA Apart ==
    /\ \A u, v \in Uid : /\ TokenizeMsg(u) # AbortMsg(v)
                         /\ TokenizeMsg(u) = TokenizeMsg(v) => u = v
                         /\ AbortMsg(u) = AbortMsg(v) => u = v
    /\ \A m, x : <<m>> = <<x>> => m = x
    /\ \A p \in TokenBatch, u \in Uid : p # <<TokenizeMsg(u)>> /\ p # <<AbortMsg(u)>>
<1>1. \A u, v \in Uid : /\ TokenizeMsg(u) # AbortMsg(v)
                        /\ TokenizeMsg(u) = TokenizeMsg(v) => u = v
                        /\ AbortMsg(u) = AbortMsg(v) => u = v
  BY Kinds
<1>2. \A m, x : <<m>> = <<x>> => m = x
  OBVIOUS
<1>3. \A p \in TokenBatch, u \in Uid : p # <<TokenizeMsg(u)>> /\ p # <<AbortMsg(u)>>
  BY Kinds
<1> QED
  BY <1>1, <1>2, <1>3

(* A parcel is added to the queue of the tokenizer. *)
LEMMA ParcelAdded ==
    ASSUME NEW o \in Seq(Request), NEW n \in Seq(Parcel), NEW p \in Parcel,
           NEW n2, n2 = Append(n, p), NEW u \in Uid
    PROVE  /\ p # <<TokenizeMsg(u)>> => /\ PromptIn(o, n2, u) <=> PromptIn(o, n, u)
                                        /\ OnceIn(o, n, u) => OnceIn(o, n2, u)
           /\ p = <<TokenizeMsg(u)>> => /\ PromptIn(o, n2, u)
                                        /\ ~PromptIn(o, n, u) => OnceIn(o, n2, u)
           /\ AbortIn(o, n2, u) <=> (AbortIn(o, n, u) \/ p = <<AbortMsg(u)>>)
           /\ FirstIn(o, n, u) /\ (p # <<AbortMsg(u)>> \/ PromptIn(o, n, u)) => FirstIn(o, n2, u)
<1>1. /\ Len(n) \in Nat /\ DOMAIN n = 1..Len(n) /\ DOMAIN n2 = 1..(Len(n) + 1)
      /\ \A i \in DOMAIN n : i \in DOMAIN n2 /\ n2[i] = n[i] /\ i < Len(n2)
      /\ \A i \in DOMAIN n2 : i \in DOMAIN n \/ i = Len(n2)
      /\ Len(n2) \in DOMAIN n2 /\ n2[Len(n2)] = p
  BY AtTheEnd
<1>2. ASSUME p # <<TokenizeMsg(u)>>
      PROVE  /\ PromptIn(o, n2, u) <=> PromptIn(o, n, u)
             /\ OnceIn(o, n, u) => OnceIn(o, n2, u)
  BY <1>1, <1>2 DEF PromptIn, Carried, OnceIn
<1>3. ASSUME p = <<TokenizeMsg(u)>>
      PROVE  /\ PromptIn(o, n2, u)
             /\ ~PromptIn(o, n, u) => OnceIn(o, n2, u)
  BY <1>1, <1>3 DEF PromptIn, Carried, OnceIn
<1>4. AbortIn(o, n2, u) <=> (AbortIn(o, n, u) \/ p = <<AbortMsg(u)>>)
  BY <1>1 DEF AbortIn, Carried
<1>5. ASSUME FirstIn(o, n, u), p # <<AbortMsg(u)>> \/ PromptIn(o, n, u)
      PROVE  FirstIn(o, n2, u)
  <2> SUFFICES ASSUME NEW i \in DOMAIN n2, n2[i] = <<AbortMsg(u)>>
               PROVE  \/ \E j \in DOMAIN o : o[j] = TokenizeMsg(u)
                      \/ \E j \in DOMAIN n2 : j < i /\ n2[j] = <<TokenizeMsg(u)>>
    BY <1>5 DEF FirstIn
  <2>1. CASE i \in DOMAIN n
    BY <1>1, <1>5, <2>1 DEF FirstIn
  <2>2. CASE i = Len(n2)
    BY <1>1, <1>5, <2>2 DEF PromptIn, Carried
  <2> QED
    BY <1>1, <2>1, <2>2
<1> QED
  BY <1>2, <1>3, <1>4, <1>5

(* Its first parcel is taken. *)
LEMMA ParcelTaken ==
    ASSUME NEW o \in Seq(Request), NEW n \in Seq(Parcel), n # <<>>, n[1] \in TokenBatch,
           NEW n2, n2 = Tail(n), NEW u \in Uid
    PROVE  /\ PromptIn(o, n2, u) <=> PromptIn(o, n, u)
           /\ AbortIn(o, n2, u) <=> AbortIn(o, n, u)
           /\ OnceIn(o, n, u) => OnceIn(o, n2, u)
           /\ FirstIn(o, n, u) => FirstIn(o, n2, u)
<1>1. /\ DOMAIN n \subseteq Nat /\ DOMAIN n2 \subseteq Nat
      /\ \A i \in DOMAIN n2 : i + 1 \in DOMAIN n /\ n2[i] = n[i + 1]
      /\ \A i \in DOMAIN n : i = 1 \/ (i > 1 /\ i - 1 \in DOMAIN n2 /\ n2[i - 1] = n[i])
  BY FromTheFront
<1>2. n[1] # <<TokenizeMsg(u)>> /\ n[1] # <<AbortMsg(u)>>
  BY Apart
<1>3. ASSUME NEW m, n[1] # <<m>>
      PROVE  Carried(o, n2, m) <=> Carried(o, n, m)
  <2>1. ASSUME NEW i \in DOMAIN n2, n2[i] = <<m>>
        PROVE  \E j \in DOMAIN n : n[j] = <<m>>
    BY <1>1, <2>1
  <2>2. ASSUME NEW i \in DOMAIN n, n[i] = <<m>>
        PROVE  \E j \in DOMAIN n2 : n2[j] = <<m>>
    <3>1. i # 1
      BY <1>3, <2>2
    <3>2. i - 1 \in DOMAIN n2 /\ n2[i - 1] = n[i]
      BY ONLY <1>1, <3>1, i \in DOMAIN n
    <3> QED
      BY <2>2, <3>2
  <2> QED
    BY <2>1, <2>2 DEF Carried
<1>4. PromptIn(o, n2, u) <=> PromptIn(o, n, u)
  BY <1>2, <1>3 DEF PromptIn
<1>5. AbortIn(o, n2, u) <=> AbortIn(o, n, u)
  BY <1>2, <1>3 DEF AbortIn
<1>6. ASSUME OnceIn(o, n, u)
      PROVE  OnceIn(o, n2, u)
  <2>1. ASSUME NEW i \in DOMAIN n2, NEW j \in DOMAIN n2,
               n2[i] = <<TokenizeMsg(u)>>, n2[j] = <<TokenizeMsg(u)>>
        PROVE  i = j
    <3>1. i + 1 = j + 1
      BY <1>1, <1>6, <2>1 DEF OnceIn
    <3> QED
      BY <1>1, <3>1
  <2>2. ASSUME NEW i \in DOMAIN o, NEW j \in DOMAIN n2,
               o[i] = TokenizeMsg(u), n2[j] = <<TokenizeMsg(u)>>
        PROVE  FALSE
    <3>1. j + 1 \in DOMAIN n /\ n[j + 1] = <<TokenizeMsg(u)>>
      BY <1>1, <2>2
    <3> QED
      BY ONLY <1>6, <2>2, <3>1 DEF OnceIn
  <2>3. \A i, j \in DOMAIN o : o[i] = TokenizeMsg(u) /\ o[j] = TokenizeMsg(u) => i = j
    BY ONLY <1>6 DEF OnceIn
  <2> QED
    BY ONLY <2>1, <2>2, <2>3 DEF OnceIn
<1>7. ASSUME FirstIn(o, n, u)
      PROVE  FirstIn(o, n2, u)
  <2> SUFFICES ASSUME NEW i \in DOMAIN n2, n2[i] = <<AbortMsg(u)>>,
                      ~\E j \in DOMAIN o : o[j] = TokenizeMsg(u)
               PROVE  \E j \in DOMAIN n2 : j < i /\ n2[j] = <<TokenizeMsg(u)>>
    BY <1>7 DEF FirstIn
  <2>1. PICK j \in DOMAIN n : j < i + 1 /\ n[j] = <<TokenizeMsg(u)>>
    BY <1>1, <1>7 DEF FirstIn
  <2>2. j \in Nat /\ i \in Nat /\ j # 1
    BY <1>1, <1>2, <2>1
  <2>3. j - 1 \in DOMAIN n2 /\ n2[j - 1] = n[j] /\ j - 1 < i
    BY <1>1, <2>1, <2>2
  <2> QED
    BY <2>1, <2>3
<1> QED
  BY <1>4, <1>5, <1>6, <1>7

(* Its first message is passed on. *)
LEMMA PassedOn ==
    ASSUME NEW o \in Seq(Request), NEW n \in Seq(Parcel), n # <<>>, NEW m \in Request, n[1] = <<m>>,
           NEW n2, n2 = Tail(n), NEW o2, o2 = Append(o, m), NEW u \in Uid
    PROVE  /\ PromptIn(o2, n2, u) <=> PromptIn(o, n, u)
           /\ AbortIn(o2, n2, u) <=> AbortIn(o, n, u)
           /\ OnceIn(o, n, u) => OnceIn(o2, n2, u)
           /\ FirstIn(o, n, u) => FirstIn(o2, n2, u)
<1>1. /\ DOMAIN n \subseteq Nat /\ DOMAIN n2 \subseteq Nat /\ 1 \in DOMAIN n
      /\ \A i \in DOMAIN n2 : i + 1 \in DOMAIN n /\ n2[i] = n[i + 1]
      /\ \A i \in DOMAIN n : i = 1 \/ (i > 1 /\ i - 1 \in DOMAIN n2 /\ n2[i - 1] = n[i])
  BY FromTheFront
<1>2. /\ Len(o) \in Nat /\ DOMAIN o = 1..Len(o) /\ DOMAIN o2 = 1..(Len(o) + 1)
      /\ \A i \in DOMAIN o : i \in DOMAIN o2 /\ o2[i] = o[i] /\ i < Len(o2)
      /\ \A i \in DOMAIN o2 : i \in DOMAIN o \/ i = Len(o2)
      /\ Len(o2) \in DOMAIN o2 /\ o2[Len(o2)] = m
  BY AtTheEnd
<1>3. \A x : n[1] = <<x>> => m = x
  BY Apart
<1>4. ASSUME NEW x
      PROVE  Carried(o2, n2, x) <=> Carried(o, n, x)
  <2>1. ASSUME NEW i \in DOMAIN n, n[i] = <<x>>
        PROVE  Carried(o2, n2, x)
    <3>1. CASE i = 1
      BY <1>2, <1>3, <2>1, <3>1 DEF Carried
    <3>2. CASE i # 1
      BY ONLY <1>1, <2>1, <3>2 DEF Carried
    <3> QED
      BY <3>1, <3>2
  <2>2. ASSUME NEW i \in DOMAIN o, o[i] = x
        PROVE  Carried(o2, n2, x)
    BY <1>2, <2>2 DEF Carried
  <2>3. ASSUME NEW i \in DOMAIN n2, n2[i] = <<x>>
        PROVE  Carried(o, n, x)
    BY <1>1, <2>3 DEF Carried
  <2>4. ASSUME NEW i \in DOMAIN o2, o2[i] = x
        PROVE  Carried(o, n, x)
    BY <1>1, <1>2, <2>4 DEF Carried
  <2>5. Carried(o, n, x) => Carried(o2, n2, x)
    <3> HAVE Carried(o, n, x)
    <3>1. (\E i \in DOMAIN o : o[i] = x) \/ (\E i \in DOMAIN n : n[i] = <<x>>)
      BY DEF Carried
    <3> QED
      BY <2>1, <2>2, <3>1
  <2>6. Carried(o2, n2, x) => Carried(o, n, x)
    <3> HAVE Carried(o2, n2, x)
    <3>1. (\E i \in DOMAIN o2 : o2[i] = x) \/ (\E i \in DOMAIN n2 : n2[i] = <<x>>)
      BY DEF Carried
    <3> QED
      BY <2>3, <2>4, <3>1
  <2> QED
    BY <2>5, <2>6
<1>5. PromptIn(o2, n2, u) <=> PromptIn(o, n, u)
  BY <1>4 DEF PromptIn
<1>6. AbortIn(o2, n2, u) <=> AbortIn(o, n, u)
  BY <1>4 DEF AbortIn
<1>7. ASSUME OnceIn(o, n, u)
      PROVE  OnceIn(o2, n2, u)
  <2>1. ASSUME NEW i \in DOMAIN n2, n2[i] = <<TokenizeMsg(u)>>
        PROVE  /\ n[i + 1] = <<TokenizeMsg(u)>> /\ i + 1 \in DOMAIN n /\ i + 1 # 1
    BY <1>1, <2>1
  <2>2. \A i, j \in DOMAIN n2 : n2[i] = <<TokenizeMsg(u)>> /\ n2[j] = <<TokenizeMsg(u)>> => i = j
    <3> SUFFICES ASSUME NEW i \in DOMAIN n2, NEW j \in DOMAIN n2,
                        n2[i] = <<TokenizeMsg(u)>>, n2[j] = <<TokenizeMsg(u)>>
                 PROVE  i = j
      OBVIOUS
    <3>1. i + 1 = j + 1
      BY <1>7, <2>1 DEF OnceIn
    <3> QED
      BY <1>1, <3>1
  <2>3. \A i, j \in DOMAIN o2 : o2[i] = TokenizeMsg(u) /\ o2[j] = TokenizeMsg(u) => i = j
    <3>1. m = TokenizeMsg(u) => \A i \in DOMAIN o : o[i] # TokenizeMsg(u)
      BY <1>1, <1>7 DEF OnceIn
    <3> QED
      BY <1>2, <1>7, <3>1 DEF OnceIn
  <2>4. \A i \in DOMAIN o2, j \in DOMAIN n2 : ~(o2[i] = TokenizeMsg(u) /\ n2[j] = <<TokenizeMsg(u)>>)
    <3> SUFFICES ASSUME NEW i \in DOMAIN o2, NEW j \in DOMAIN n2,
                        o2[i] = TokenizeMsg(u), n2[j] = <<TokenizeMsg(u)>>
                 PROVE  FALSE
      OBVIOUS
    <3>1. CASE i \in DOMAIN o
      BY <1>2, <1>7, <2>1, <3>1 DEF OnceIn
    <3>2. CASE i = Len(o2)
      <4>1. n[1] = <<TokenizeMsg(u)>>
        BY <1>2, <3>2
      <4> QED
        BY <1>1, <1>7, <2>1, <4>1 DEF OnceIn
    <3> QED
      BY <1>2, <3>1, <3>2
  <2> QED
    BY <2>2, <2>3, <2>4 DEF OnceIn
<1>8. ASSUME FirstIn(o, n, u)
      PROVE  FirstIn(o2, n2, u)
  <2>1. ASSUME NEW i \in DOMAIN o2, o2[i] = AbortMsg(u)
        PROVE  \E j \in DOMAIN o2 : j < i /\ o2[j] = TokenizeMsg(u)
    <3>1. CASE i \in DOMAIN o
      BY <1>2, <1>8, <2>1, <3>1 DEF FirstIn
    <3>2. CASE i = Len(o2)
      <4>1. n[1] = <<AbortMsg(u)>> /\ ~\E j \in DOMAIN n : j < 1
        BY <1>1, <1>2, <2>1, <3>2
      <4>2. PICK j \in DOMAIN o : o[j] = TokenizeMsg(u)
        BY <1>1, <1>8, <4>1 DEF FirstIn
      <4> QED
        BY <1>2, <3>2, <4>2
    <3> QED
      BY <1>2, <3>1, <3>2
  <2>2. ASSUME NEW i \in DOMAIN n2, n2[i] = <<AbortMsg(u)>>,
               ~\E j \in DOMAIN o2 : o2[j] = TokenizeMsg(u)
        PROVE  \E j \in DOMAIN n2 : j < i /\ n2[j] = <<TokenizeMsg(u)>>
    <3>1. ~\E j \in DOMAIN o : o[j] = TokenizeMsg(u)
      BY <1>2, <2>2
    <3>2. PICK j \in DOMAIN n : j < i + 1 /\ n[j] = <<TokenizeMsg(u)>>
      BY <1>1, <1>8, <2>2, <3>1 DEF FirstIn
    <3>3. j # 1
      BY <1>2, <1>3, <2>2, <3>2
    <3>4. j \in Nat /\ i \in Nat
      BY <1>1
    <3>5. j - 1 \in DOMAIN n2 /\ n2[j - 1] = n[j] /\ j - 1 < i
      BY <1>1, <3>2, <3>3, <3>4
    <3> QED
      BY <3>2, <3>5
  <2> QED
    BY <2>1, <2>2 DEF FirstIn
<1> QED
  BY <1>5, <1>6, <1>7, <1>8

(* The scheduler takes the first message. *)
LEMMA MessageTaken ==
    ASSUME NEW o \in Seq(Request), NEW n \in Seq(Parcel), o # <<>>,
           NEW o2, o2 = Tail(o), NEW u \in Uid
    PROVE  /\ o[1] # TokenizeMsg(u) => (PromptIn(o2, n, u) <=> PromptIn(o, n, u))
           /\ o[1] # AbortMsg(u) => (AbortIn(o2, n, u) <=> AbortIn(o, n, u))
           /\ OnceIn(o, n, u) => OnceIn(o2, n, u)
           /\ OnceIn(o, n, u) /\ o[1] = TokenizeMsg(u) => ~PromptIn(o2, n, u)
           /\ FirstIn(o, n, u) => o[1] # AbortMsg(u)
           /\ FirstIn(o, n, u) /\ o[1] # TokenizeMsg(u) => FirstIn(o2, n, u)
<1>1. /\ DOMAIN o \subseteq Nat /\ DOMAIN o2 \subseteq Nat /\ 1 \in DOMAIN o
      /\ \A i \in DOMAIN o2 : i + 1 \in DOMAIN o /\ o2[i] = o[i + 1]
      /\ \A i \in DOMAIN o : i = 1 \/ (i > 1 /\ i - 1 \in DOMAIN o2 /\ o2[i - 1] = o[i])
  BY FromTheFront
<1>2. ASSUME NEW m, o[1] # m
      PROVE  Carried(o2, n, m) <=> Carried(o, n, m)
  <2>1. ASSUME NEW i \in DOMAIN o2, o2[i] = m
        PROVE  \E j \in DOMAIN o : o[j] = m
    BY <1>1, <2>1
  <2>2. ASSUME NEW i \in DOMAIN o, o[i] = m
        PROVE  \E j \in DOMAIN o2 : o2[j] = m
    BY <1>1, <1>2, <2>2
  <2> QED
    BY <2>1, <2>2 DEF Carried
<1>3. ASSUME OnceIn(o, n, u)
      PROVE  OnceIn(o2, n, u)
  <2>1. \A i, j \in DOMAIN o2 : o2[i] = TokenizeMsg(u) /\ o2[j] = TokenizeMsg(u) => i = j
    <3> SUFFICES ASSUME NEW i \in DOMAIN o2, NEW j \in DOMAIN o2,
                        o2[i] = TokenizeMsg(u), o2[j] = TokenizeMsg(u)
                 PROVE  i = j
      OBVIOUS
    <3>1. i + 1 = j + 1
      BY <1>1, <1>3 DEF OnceIn
    <3> QED
      BY <1>1, <3>1
  <2> QED
    BY <1>1, <1>3, <2>1 DEF OnceIn
<1>4. ASSUME OnceIn(o, n, u), o[1] = TokenizeMsg(u), PromptIn(o2, n, u)
      PROVE  FALSE
  <2>1. CASE \E i \in DOMAIN o2 : o2[i] = TokenizeMsg(u)
    <3>1. PICK i \in DOMAIN o2 : o2[i] = TokenizeMsg(u)
      BY <2>1
    <3>2. i + 1 = 1 /\ i \in Nat
      BY <1>1, <1>4, <3>1 DEF OnceIn
    <3>3. i = 0 /\ 0 + 1 \in DOMAIN o
      BY <1>1, <3>2
    <3>4. DOMAIN o2 = 1..Len(o2)
      BY HeadTailProperties, LenProperties
    <3> QED
      BY <3>3, <3>4
  <2>2. CASE \E i \in DOMAIN n : n[i] = <<TokenizeMsg(u)>>
    BY <1>1, <1>4, <2>2 DEF OnceIn
  <2> QED
    BY <1>4, <2>1, <2>2 DEF PromptIn, Carried
<1>5. ASSUME FirstIn(o, n, u)
      PROVE  o[1] # AbortMsg(u)
  <2>1. ~\E j \in DOMAIN o : j < 1
    BY <1>1
  <2> QED
    BY <1>1, <1>5, <2>1 DEF FirstIn
<1>6. ASSUME FirstIn(o, n, u), o[1] # TokenizeMsg(u)
      PROVE  FirstIn(o2, n, u)
  <2>1. ASSUME NEW j \in DOMAIN o, o[j] = TokenizeMsg(u)
        PROVE  j - 1 \in DOMAIN o2 /\ o2[j - 1] = TokenizeMsg(u)
    BY <1>1, <1>6, <2>1
  <2>2. ASSUME NEW i \in DOMAIN o2, o2[i] = AbortMsg(u)
        PROVE  \E j \in DOMAIN o2 : j < i /\ o2[j] = TokenizeMsg(u)
    <3>1. PICK j \in DOMAIN o : j < i + 1 /\ o[j] = TokenizeMsg(u)
      BY <1>1, <1>6, <2>2 DEF FirstIn
    <3>2. j \in Nat /\ i \in Nat /\ j - 1 < i
      BY <1>1, <3>1
    <3> QED
      BY <2>1, <3>1, <3>2
  <2>3. ASSUME NEW i \in DOMAIN n, n[i] = <<AbortMsg(u)>>
        PROVE  \/ \E j \in DOMAIN o2 : o2[j] = TokenizeMsg(u)
               \/ \E j \in DOMAIN n : j < i /\ n[j] = <<TokenizeMsg(u)>>
    BY <1>6, <2>1, <2>3 DEF FirstIn
  <2> QED
    BY <2>2, <2>3 DEF FirstIn
<1> QED
  BY <1>2, <1>3, <1>4, <1>5, <1>6 DEF PromptIn, AbortIn

(* The one process that tokenizes. *)
LEMMA TheTokenizer ==
    ASSUME OneTokenizer, ServingInv
    PROVE  /\ Tokenizers = {num_tokenizer} /\ num_tokenizer \in Worker
           /\ next_tokenizer = num_tokenizer
           /\ In \in Seq(Parcel) /\ Out \in Seq(Request)
<1>1. PipeTypes
  BY DEF ServingInv
<1>2. num_tokenizer = 0 \/ num_tokenizer = 1
  BY <1>1 DEF PipeTypes, OneTokenizer
<1>3. Tokenizers = {num_tokenizer}
  <2>1. CASE num_tokenizer = 0
    BY <2>1 DEF Tokenizers
  <2>2. CASE num_tokenizer = 1
    <3>1. 1..1 = {1}
      OBVIOUS
    <3> QED
      BY <2>2, <3>1 DEF Tokenizers
  <2> QED
    BY <1>2, <2>1, <2>2
<1>4. num_tokenizer \in Worker
  BY <1>1, <1>3, Names DEF PipeTypes
<1> QED
  BY <1>1, <1>3, <1>4 DEF PipeTypes, Carries, In, Out

(* Aborts and prompts stay in order at every step. *)
LEMMA AbortStep ==
    ASSUME OneTokenizer, ServingInv, AbortInv, [ServingNext]_serving_vars
    PROVE  AbortInv'
<1>1. /\ Tokenizers = {num_tokenizer} /\ num_tokenizer \in Worker /\ next_tokenizer = num_tokenizer
      /\ In \in Seq(Parcel) /\ Out \in Seq(Request)
  BY TheTokenizer
<1>2. PipeTypes /\ ServingTypeOK /\ DOMAIN task = Uid /\ DOMAIN backend = Uid /\ Uid \subseteq Nat
      /\ DOMAIN inbox = Worker /\ DOMAIN to_backend = Worker
  BY Names DEF ServingInv, ApiTypes, PipeTypes, Carries
<1> DEFINE Asked(u) == task[u] \notin {"none", "sending"}
           Left(u) == task[u] = "cancelled" /\ u \notin aborting
(* A step that leaves the queues, or takes tokens from them or adds some. *)
<1>3. ASSUME Out' = Out,
             \/ In' = In
             \/ In # <<>> /\ In[1] \in TokenBatch /\ In' = Tail(In)
             \/ \E b \in TokenBatch : In' = Append(In, b),
             \A u \in Uid : /\ (task'[u] \notin {"none", "sending"}) <=> Asked(u)
                            /\ task'[u] = "cancelled" /\ u \notin aborting' => Left(u)
                            /\ backend'[u].state = "unknown" <=> backend[u].state = "unknown"
                            /\ backend'[u].state = "running" => backend[u].state = "running"
      PROVE  AbortInv'
  <2>1. \A u \in Uid : /\ PromptIn(Out', In', u) <=> PromptIn(Out, In, u)
                       /\ AbortIn(Out', In', u) <=> AbortIn(Out, In, u)
                       /\ OnceIn(Out, In, u) => OnceIn(Out', In', u)
                       /\ FirstIn(Out, In, u) => FirstIn(Out', In', u)
    <3>1. CASE In' = In
      BY <1>3, <3>1
    <3>2. CASE In # <<>> /\ In[1] \in TokenBatch /\ In' = Tail(In)
      BY <1>1, <1>3, <3>2, ParcelTaken
    <3>3. ASSUME NEW b \in TokenBatch, In' = Append(In, b)
          PROVE  \A u \in Uid : /\ PromptIn(Out', In', u) <=> PromptIn(Out, In, u)
                                /\ AbortIn(Out', In', u) <=> AbortIn(Out, In, u)
                                /\ OnceIn(Out, In, u) => OnceIn(Out', In', u)
                                /\ FirstIn(Out, In, u) => FirstIn(Out', In', u)
      <4> TAKE u \in Uid
      <4>1. Out \in Seq(Request) /\ In \in Seq(Parcel) /\ b \in Parcel /\ In' = Append(In, b)
            /\ b # <<TokenizeMsg(u)>> /\ b # <<AbortMsg(u)>> /\ Out' = Out
        BY <1>1, <1>3, <3>3, Apart, Kinds
      <4> QED
        BY <4>1, ParcelAdded
    <3> QED
      BY <1>3, <3>1, <3>2, <3>3
  <2> SUFFICES ASSUME NEW u \in Uid
               PROVE  OnTheWay(u)'
    BY DEF AbortInv
  <2>2. OnTheWay(u)
    BY DEF AbortInv
  <2> QED
    BY <1>3, <2>1, <2>2 DEF OnTheWay

<1>4. ASSUME NEW u \in Uid, Send(u)
      PROVE  AbortInv'
  <2>1. /\ num_tokenizer' = num_tokenizer
        /\ inbox'[num_tokenizer] = Append(inbox[num_tokenizer], <<TokenizeMsg(u)>>)
    BY <1>1, <1>2, <1>4, ToTokenizerTypes, Kinds DEF Send
  <2>2. /\ In' = Append(In, <<TokenizeMsg(u)>>) /\ Out' = Out
        /\ task' = [task EXCEPT ![u] = "waiting"] /\ task[u] = "sending"
        /\ UNCHANGED <<backend, aborting>>
    BY <1>4, <2>1 DEF Send, In, Out
  <2>3. <<TokenizeMsg(u)>> \in Parcel
    BY Kinds
  <2> SUFFICES ASSUME NEW v \in Uid
               PROVE  OnTheWay(v)'
    BY DEF AbortInv
  <2>4. OnTheWay(v)
    BY DEF AbortInv
  <2>5. <<TokenizeMsg(u)>> # <<AbortMsg(v)>> /\ (<<TokenizeMsg(u)>> = <<TokenizeMsg(v)>> => u = v)
    BY Apart
  <2>6. /\ v # u => /\ PromptIn(Out, In', v) <=> PromptIn(Out, In, v)
                    /\ OnceIn(Out, In, v) => OnceIn(Out, In', v)
        /\ v = u => /\ PromptIn(Out, In', v)
                    /\ ~PromptIn(Out, In, v) => OnceIn(Out, In', v)
        /\ AbortIn(Out, In', v) <=> AbortIn(Out, In, v)
        /\ FirstIn(Out, In, v) => FirstIn(Out, In', v)
    BY <1>1, <2>2, <2>3, <2>5, ParcelAdded
  <2>7. CASE v = u
    BY <1>2, <2>2, <2>4, <2>6, <2>7 DEF OnTheWay
  <2>8. CASE v # u
    BY <1>2, <2>2, <2>4, <2>6, <2>8 DEF OnTheWay
  <2> QED
    BY <2>7, <2>8
<1>5. ASSUME NEW u \in Uid, AbortUser(u)
      PROVE  AbortInv'
  <2>1. /\ num_tokenizer' = num_tokenizer
        /\ inbox'[num_tokenizer] = Append(inbox[num_tokenizer], <<AbortMsg(u)>>)
    BY <1>1, <1>2, <1>5, ToTokenizerTypes, Kinds DEF AbortUser
  <2>2. /\ In' = Append(In, <<AbortMsg(u)>>) /\ Out' = Out
        /\ aborting' = aborting \ {u} /\ task[u] = "cancelled"
        /\ UNCHANGED <<backend, task>>
    BY <1>2, <1>5, <2>1 DEF AbortUser, In, Out, ServingTypeOK
  <2>3. <<AbortMsg(u)>> \in Parcel
    BY Kinds
  <2> SUFFICES ASSUME NEW v \in Uid
               PROVE  OnTheWay(v)'
    BY DEF AbortInv
  <2>4. OnTheWay(v)
    BY DEF AbortInv
  <2>5. <<AbortMsg(u)>> # <<TokenizeMsg(v)>> /\ (<<AbortMsg(u)>> = <<AbortMsg(v)>> => u = v)
    BY Apart
  <2>6. /\ PromptIn(Out, In', v) <=> PromptIn(Out, In, v)
        /\ OnceIn(Out, In, v) => OnceIn(Out, In', v)
        /\ AbortIn(Out, In', v) <=> (AbortIn(Out, In, v) \/ v = u)
        /\ FirstIn(Out, In, v) /\ (v # u \/ PromptIn(Out, In, v)) => FirstIn(Out, In', v)
    BY <1>1, <2>2, <2>3, <2>5, ParcelAdded
  <2> QED
    BY <2>2, <2>4, <2>6 DEF OnTheWay
<1>6. ASSUME NEW w \in Worker, Tokenize(w)
      PROVE  AbortInv'
  <2> PICK m : m = Head(inbox[w])[1]
    OBVIOUS
  <2>1. inbox[w] # <<>> /\ w = num_tokenizer /\ m \in Request /\ inbox[w][1] = <<m>>
    BY <1>1, <1>2, <1>6, FirstParcel DEF Tokenize
  <2>2. /\ inbox' = Rest(inbox, w) /\ to_backend' = Put(to_backend, w, m)
        /\ UNCHANGED <<num_tokenizer, backend, task, aborting>>
    BY <1>6 DEF Tokenize, api_vars
  <2>3. /\ In # <<>> /\ In[1] = <<m>> /\ In' = Tail(In) /\ Out' = Append(Out, m)
    BY <1>1, <1>2, <2>1, <2>2 DEF In, Out, Rest, Put
  <2> SUFFICES ASSUME NEW v \in Uid
               PROVE  OnTheWay(v)'
    BY DEF AbortInv
  <2>4. OnTheWay(v)
    BY DEF AbortInv
  <2>5. /\ PromptIn(Out', In', v) <=> PromptIn(Out, In, v)
        /\ AbortIn(Out', In', v) <=> AbortIn(Out, In, v)
        /\ OnceIn(Out, In, v) => OnceIn(Out', In', v)
        /\ FirstIn(Out, In, v) => FirstIn(Out', In', v)
    <3>1. Out \in Seq(Request) /\ In \in Seq(Parcel) /\ m \in Request /\ v \in Uid
      BY <1>1, <2>1
    <3> QED
      BY ONLY <2>3, <3>1, PassedOn
  <2> QED
    BY <2>2, <2>4, <2>5 DEF OnTheWay
<1>7. ASSUME NEW w \in Worker, Receive(w)
      PROVE  AbortInv'
  <2> PICK m : m = Head(to_backend[w])
    OBVIOUS
  <2>1. to_backend[w] # <<>> /\ w = num_tokenizer
    BY <1>1, <1>2, <1>7 DEF Receive, PipeTypes
  <2>2. /\ to_backend' = Rest(to_backend, w) /\ UNCHANGED <<num_tokenizer, inbox, task, aborting>>
        /\ backend' = [backend EXCEPT ![m.uid].state =
               IF m.kind = "abort" THEN Aborted(@)
               ELSE IF m.uid \in TooLong THEN "dropped" ELSE "running"]
    BY <1>7 DEF Receive, api_vars
  <2>3. Out # <<>> /\ Out' = Tail(Out) /\ In' = In
    BY <1>1, <1>2, <2>1, <2>2 DEF In, Out, Rest
  <2>4. Out[1] = m /\ m \in Request
    BY <1>1, <2>1, <2>3, FromTheFront DEF Out
  <2>5. m.uid \in Uid /\ (m = TokenizeMsg(m.uid) \/ m = AbortMsg(m.uid))
    BY <2>4, Kinds DEF Request
  <2>6. /\ \A v \in Uid \ {m.uid} : backend'[v] = backend[v]
        /\ backend'[m.uid].state = IF m.kind = "abort" THEN Aborted(backend[m.uid].state)
               ELSE IF m.uid \in TooLong THEN "dropped" ELSE "running"
    BY <1>2, <2>2, <2>5 DEF PipeTypes
  <2> SUFFICES ASSUME NEW v \in Uid
               PROVE  OnTheWay(v)'
    BY DEF AbortInv
  <2>7. OnTheWay(v)
    BY DEF AbortInv
  <2>8. /\ m # TokenizeMsg(v) => (PromptIn(Out', In, v) <=> PromptIn(Out, In, v))
        /\ m # AbortMsg(v) => (AbortIn(Out', In, v) <=> AbortIn(Out, In, v))
        /\ OnceIn(Out, In, v) => OnceIn(Out', In, v)
        /\ OnceIn(Out, In, v) /\ m = TokenizeMsg(v) => ~PromptIn(Out', In, v)
        /\ FirstIn(Out, In, v) => m # AbortMsg(v)
        /\ FirstIn(Out, In, v) /\ m # TokenizeMsg(v) => FirstIn(Out', In, v)
    BY <1>1, <2>3, <2>4, MessageTaken
  <2>9. CASE v # m.uid
    <3>1. m # TokenizeMsg(v) /\ m # AbortMsg(v)
      BY <2>9, Kinds
    <3> QED
      BY <2>2, <2>3, <2>6, <2>7, <2>8, <2>9, <3>1 DEF OnTheWay
  <2>10. CASE v = m.uid /\ m = TokenizeMsg(v)
    <3>1. m.kind = "tokenize" /\ m # AbortMsg(v)
      BY <2>10, Kinds
    <3>2. backend'[v].state \in {"dropped", "running"}
      BY <2>6, <2>10, <3>1
    <3>3. PromptIn(Out, In, v)
      BY <2>3, <2>4, <2>10, <1>1, FromTheFront DEF PromptIn, Carried
    <3> QED
      BY <2>2, <2>3, <2>7, <2>8, <2>10, <3>1, <3>2, <3>3 DEF OnTheWay
  <2>11. CASE v = m.uid /\ m = AbortMsg(v)
    <3>1. m.kind = "abort" /\ m # TokenizeMsg(v)
      BY <2>11, Kinds
    <3>2. backend[v].state # "unknown"
      BY <2>7, <2>8, <2>11 DEF OnTheWay
    <3>3. backend'[v].state # "unknown" /\ backend'[v].state # "running"
      BY <2>6, <2>11, <3>1, <3>2 DEF Aborted
    <3> QED
      BY <2>2, <2>3, <2>7, <2>8, <3>1, <3>2, <3>3 DEF OnTheWay
  <2> QED
    BY <2>5, <2>9, <2>10, <2>11
<1>8. ASSUME NEW w \in Worker, Detokenize(w)
      PROVE  AbortInv'
  <2>1. /\ inbox[w] # <<>> /\ inbox[w][1] \in TokenBatch /\ inbox' = Rest(inbox, w)
        /\ UNCHANGED <<num_tokenizer, to_backend, backend, task, aborting>>
    BY <1>2, <1>8, FirstParcel DEF Detokenize, api_vars
  <2>2. Out' = Out
    BY <2>1 DEF Out
  <2>3. \/ In' = In
        \/ In # <<>> /\ In[1] \in TokenBatch /\ In' = Tail(In)
    <3>1. CASE w = num_tokenizer
      BY <1>2, <2>1, <3>1 DEF In, Rest
    <3>2. CASE w # num_tokenizer
      BY <1>1, <1>2, <2>1, <3>2 DEF In, Rest
    <3> QED
      BY <3>1, <3>2
  <2> QED
    BY <1>3, <2>1, <2>2, <2>3
<1>9. ASSUME NEW S \in SUBSET Uid, Generate(S)
      PROVE  AbortInv'
  <2>1. PICK b \in TokenBatch : inbox' = Put(inbox, 0, b)
    BY <1>2, <1>9, Generated
  <2>2. UNCHANGED <<num_tokenizer, to_backend, task, aborting>>
    BY <1>9 DEF Generate, api_vars
  <2>3. Out' = Out
    BY <2>2 DEF Out
  <2>4. In' = In \/ In' = Append(In, b)
    <3>1. CASE num_tokenizer = 0
      BY <1>1, <1>2, <2>1, <2>2, <3>1 DEF In, Put
    <3>2. CASE num_tokenizer # 0
      BY <1>1, <1>2, <2>1, <2>2, <3>2, Names DEF In, Put
    <3> QED
      BY <3>1, <3>2
  <2>5. \A u \in Uid : /\ (backend'[u].state = "unknown") <=> (backend[u].state = "unknown")
                       /\ backend'[u].state = "running" => backend[u].state = "running"
    BY <1>9 DEF Generate
  <2> QED
    BY <1>3, <2>1, <2>2, <2>3, <2>4, <2>5
<1>10. ASSUME \/ Listen \/ NewUser
              \/ \E u \in Uid : Wake(u) \/ Deliver(u) \/ End(u) \/ Cancel(u) \/ Disconnect(u)
       PROVE  AbortInv'
  <2>1. UNCHANGED <<num_tokenizer, inbox, to_backend, backend>>
    BY <1>10 DEF Listen, NewUser, Wake, Deliver, End, Cancel, Disconnect, pipe_vars
  <2>2. In' = In /\ Out' = Out
    BY <2>1 DEF In, Out
  <2>3. \A u \in Uid : /\ (task'[u] \notin {"none", "sending"}) <=> Asked(u)
                       /\ task'[u] = "cancelled" /\ u \notin aborting' => Left(u)
    <3>1. CASE NewUser
      <4>1. uid_counter \in Uid /\ task[uid_counter] = "none"
        <5>1. uid_counter \in Nat /\ uid_counter < NumUsers /\ NumUsers \in Nat
          BY <1>2, <3>1, Names DEF NewUser, ServingTypeOK
        <5>2. uid_counter \in Uid /\ uid_counter >= uid_counter
          BY <5>1 DEF Uid
        <5> QED
          BY <1>2, <5>2 DEF ServingTypeOK
      <4> QED
        BY <1>2, <3>1, <4>1 DEF NewUser
    <3>2. CASE Listen
      BY <3>2 DEF Listen
    <3>3. ASSUME NEW u \in Uid, Wake(u) \/ Deliver(u) \/ End(u) \/ Cancel(u) \/ Disconnect(u)
          PROVE  \A v \in Uid : /\ (task'[v] \notin {"none", "sending"}) <=> Asked(v)
                                /\ task'[v] = "cancelled" /\ v \notin aborting' => Left(v)
      BY <1>2, <3>3 DEF Wake, Deliver, End, Cancel, Disconnect
    <3> QED
      BY <1>10, <3>1, <3>2, <3>3
  <2> HIDE DEF Asked, Left
  <2> QED
    BY <1>3, <2>1, <2>2, <2>3
<1>11. CASE UNCHANGED serving_vars
  <2>1. UNCHANGED <<num_tokenizer, inbox, to_backend, backend, task, aborting>>
    BY <1>11 DEF serving_vars, api_vars, pipe_vars
  <2>2. In' = In /\ Out' = Out
    BY <2>1 DEF In, Out
  <2> QED
    BY <1>3, <2>1, <2>2
<1> QED
  BY <1>4, <1>5, <1>6, <1>7, <1>8, <1>9, <1>10, <1>11 DEF ServingNext, Progress, Step

(* While one process tokenizes, shared or not: once the abort of a stream   *)
(* whose client left has passed through the queues, the scheduler does not  *)
(* run the request and will not.  With more, the abort may be handed to     *)
(* another tokenizer than the prompt and reach the scheduler first.         *)
THEOREM AbortsReachTheirRequest ==
    ASSUME OneTokenizer
    PROVE  ServingSpec => []AbortsTakeEffect
<1>1. ServingInit => ServingInv /\ EventsSet /\ AbortInv
  BY InitServing
<1>2. ServingInv /\ AbortInv /\ [ServingNext]_serving_vars => AbortInv'
  BY AbortStep
<1>3. ServingInv /\ AbortInv => AbortsTakeEffect
  <2> SUFFICES ASSUME ServingInv, AbortInv, NEW u \in Uid,
                      task[u] = "cancelled", u \notin aborting,
                      \A w \in Worker : /\ \A m \in InTransit(w) : m.uid = u => m.kind = "detokenize"
                                        /\ \A m \in ToSet(to_backend[w]) : m.uid # u
               PROVE  backend[u].state \notin {"unknown", "running"}
    BY DEF AbortsTakeEffect
  <2>1. num_tokenizer \in Worker
    BY TheTokenizer
  <2>2. AbortMsg(u).uid = u /\ AbortMsg(u).kind # "detokenize"
    BY DEF AbortMsg
  <2>3. ASSUME NEW i \in DOMAIN In, In[i] = <<AbortMsg(u)>>
        PROVE  FALSE
    <3>1. AbortMsg(u) \in ToSet(<<AbortMsg(u)>>)
      BY DEF ToSet
    <3>2. AbortMsg(u) \in InTransit(num_tokenizer)
      BY <2>3, <3>1 DEF InTransit, In, ToSet
    <3> QED
      BY <2>1, <2>2, <3>2
  <2>4. ASSUME NEW i \in DOMAIN Out, Out[i] = AbortMsg(u)
        PROVE  FALSE
    BY <2>1, <2>2, <2>4 DEF Out, ToSet
  <2>5. ~AbortIn(Out, In, u)
    BY <2>3, <2>4 DEF AbortIn, Carried
  <2> QED
    BY <2>5 DEF AbortInv, OnTheWay
<1> QED
  BY <1>1, <1>2, <1>3, ServingInvariant, PTL DEF ServingSpec

=============================================================================
