---------------------------- MODULE LaunchProofs ----------------------------
(***************************************************************************)
(* Proofs about the two ways a scheduler is run: Launch, as a server's,    *)
(* for any number of tokenizers, of ranks that are asked for and of        *)
(* requests, and OfflineLLM, for any prompts and limits.                   *)
(*                                                                         *)
(* LaunchInv has three parts.  StartInv: the acknowledgements queued and   *)
(* taken are as many as the workers that sent one, and one more once rank  *)
(* 0 has left the barrier, which it leaves together with all ranks.        *)
(* QueueInv: a prompt that is still on its way has not been accepted and   *)
(* is on its way only once.  BatchInv: of what an accepted request needs,  *)
(* each forward pass is to come, in flight or processed.                   *)
(***************************************************************************)
EXTENDS Launch, OfflineLLM, SequenceTheorems, FiniteSetTheorems, WellFoundedInduction, TLAPS

Place == {"init", "dead", "sync", "loop", "first", "drain", "process", "result",
          "shutdown", "stopped"}

Up(r) == at[r] \notin {"init", "dead", "sync"}

PrimaryAck == IF Up(0) THEN 1 ELSE 0

StartInv ==
    /\ tp_size \in 1..MaxTpSize
    /\ at \in [Rank -> Place]
    /\ ready \subseteq Worker
    /\ ack_queue \in Nat /\ got \in Nat
    /\ got + ack_queue = Cardinality(ready) + PrimaryAck
    /\ Up(0) => \A r \in Rank : Up(r)

(* The uids of prompts in a queue, each there once and not yet accepted.    *)
IsUser(s, i) == i \in DOMAIN s /\ s[i].kind = "user"

Once(s) ==
    /\ \A i \in DOMAIN s : IsUser(s, i) => s[i] \in sent /\ s[i].uid \notin accepted
    /\ \A i, j \in DOMAIN s : IsUser(s, i) /\ IsUser(s, j) /\ s[i].uid = s[j].uid => i = j

QueueInv ==
    /\ sent \subseteq Message
    /\ from_tokenizer \in Seq(Message) /\ pending_msgs \in Seq(Message)
    /\ Once(from_tokenizer) /\ Once(pending_msgs)
    /\ \A i \in DOMAIN from_tokenizer, j \in DOMAIN pending_msgs :
          IsUser(from_tokenizer, i) /\ IsUser(pending_msgs, j)
              => from_tokenizer[i].uid # pending_msgs[j].uid
    /\ \A u \in accepted : [kind |-> "user", uid |-> u] \in sent

One(u, S) == IF u \in S THEN 1 ELSE 0

(* Rank 0 may have launched a batch in this iteration.                      *)
Launched == at[0] \in {"result", "shutdown", "stopped"}

BatchInv ==
    /\ overlap \in BOOLEAN
    /\ work \in [Uids -> Nat] /\ results \in [Uids -> Nat]
    /\ ongoing \subseteq accepted /\ last_data \subseteq accepted /\ accepted \subseteq Uids
    /\ \A u \in Uids \ accepted : work[u] = 0 /\ results[u] = 0
    /\ \A u \in accepted \ aborted :
          results[u] + One(u, ongoing) + One(u, last_data) + work[u] = Forwards[u]
    /\ ~Launched => ongoing = {}
    /\ at[0] = "first" => Blocking
    /\ ~overlap => last_data = {}

LaunchInv == StartInv /\ QueueInv /\ BatchInv

-----------------------------------------------------------------------------

LEMMA ZeroIsRank == ASSUME tp_size \in 1..MaxTpSize PROVE 0 \in Rank
BY LaunchAssumptions DEF Rank

LEMMA WorkersFinite ==
    /\ IsFiniteSet(Worker) /\ Cardinality(Worker) = NumTokenizers + 1
    /\ \A S \in SUBSET Worker : IsFiniteSet(S) /\ Cardinality(S) \in 0..(NumTokenizers + 1)
<1>1. IsFiniteSet(Worker) /\ Cardinality(Worker) = NumTokenizers + 1
  BY LaunchAssumptions, FS_Interval DEF Worker
<1>2. ASSUME NEW S \in SUBSET Worker
      PROVE  IsFiniteSet(S) /\ Cardinality(S) \in 0..(NumTokenizers + 1)
  BY <1>1, FS_Subset, FS_CardinalityType, LaunchAssumptions
<1> QED
  BY <1>1, <1>2

LEMMA InitLaunchInv == LaunchInit => LaunchInv
<1> SUFFICES ASSUME LaunchInit PROVE LaunchInv
  OBVIOUS
<1>1. 0 \in Rank /\ at[0] = "init"
  BY ZeroIsRank DEF LaunchInit
<1>2. StartInv
  BY <1>1, FS_EmptySet DEF LaunchInit, StartInv, PrimaryAck, Up, Place
<1>3. QueueInv
  BY DEF LaunchInit, QueueInv, Once
<1>4. BatchInv
  BY <1>1 DEF LaunchInit, BatchInv
<1> QED
  BY <1>2, <1>3, <1>4 DEF LaunchInv

-----------------------------------------------------------------------------
(* Starting *)

(* A step of rank r inside the loop changes nothing that StartInv says.     *)
LEMMA GoKeepsStart ==
    ASSUME StartInv, NEW r \in Rank, NEW place \in Place, Go(r, place),
           Up(r), place \notin {"init", "dead", "sync"},
           tp_size' = tp_size, UNCHANGED start_vars
    PROVE  StartInv'
<1>1. Rank' = Rank
  BY DEF Rank
<1>2. at' \in [Rank -> Place]
  BY DEF StartInv, Go
<1>3. \A q \in Rank : Up(q)' = Up(q)
  BY DEF StartInv, Go, Up
<1>4. 0 \in Rank
  BY ZeroIsRank DEF StartInv
<1>5. PrimaryAck' = PrimaryAck
  BY <1>3, <1>4 DEF PrimaryAck
<1>6. Up(0)' => \A q \in Rank : Up(q)'
  BY <1>3, <1>4 DEF StartInv
<1> QED
  BY <1>1, <1>2, <1>5, <1>6 DEF StartInv, start_vars

LEMMA SameKeepsStart ==
    ASSUME StartInv, UNCHANGED <<tp_size, at, start_vars>>
    PROVE  StartInv'
BY DEF StartInv, start_vars, Rank, PrimaryAck, Up

LEMMA ConstructStart ==
    ASSUME LaunchInv, NEW r \in Rank, Construct(r)
    PROVE  StartInv'
<1>1. tp_size' = tp_size /\ Rank' = Rank /\ UNCHANGED start_vars
  BY DEF Construct, config_vars, Rank
<1>2. PICK place \in {"dead", "sync"} : at' = [at EXCEPT ![r] = place]
  BY DEF Construct, Go
<1>3. at[r] = "init" /\ 0 \in Rank /\ at \in [Rank -> Place]
  BY ZeroIsRank DEF Construct, LaunchInv, StartInv
<1>4. at' \in [Rank -> Place]
  BY <1>2, <1>3 DEF Place
<1>5. \A q \in Rank : Up(q)' = Up(q)
  BY <1>2, <1>3 DEF Up
<1>6. PrimaryAck' = PrimaryAck
  BY <1>3, <1>5 DEF PrimaryAck
<1>7. Up(0)' => \A q \in Rank : Up(q)'
  BY <1>3, <1>5 DEF LaunchInv, StartInv
<1> QED
  BY <1>1, <1>4, <1>6, <1>7 DEF LaunchInv, StartInv, start_vars

LEMMA SyncAllRanksStart ==
    ASSUME LaunchInv, SyncAllRanks
    PROVE  StartInv'
<1>1. tp_size' = tp_size /\ Rank' = Rank /\ ready' = ready /\ got' = got
      /\ ack_queue' = ack_queue + 1 /\ at' = [r \in Rank |-> "loop"]
  BY DEF SyncAllRanks, config_vars, Rank
<1>2. 0 \in Rank /\ at[0] = "sync"
  BY ZeroIsRank DEF SyncAllRanks, AllAt, LaunchInv, StartInv
<1>3. PrimaryAck = 0
  BY <1>2 DEF PrimaryAck, Up
<1>4. \A q \in Rank : Up(q)'
  BY <1>1 DEF Up
<1>5. PrimaryAck' = 1
  BY <1>2, <1>4 DEF PrimaryAck
<1>6. at' \in [Rank -> Place]
  BY <1>1 DEF Place
<1>7. Cardinality(ready) \in Nat
  BY WorkersFinite, LaunchAssumptions DEF LaunchInv, StartInv
<1> QED
  BY <1>1, <1>3, <1>4, <1>5, <1>6, <1>7 DEF LaunchInv, StartInv

LEMMA TokenizerReadyStart ==
    ASSUME LaunchInv, NEW w \in Worker, TokenizerReady(w)
    PROVE  StartInv'
<1>1. tp_size' = tp_size /\ Rank' = Rank /\ at' = at /\ got' = got
      /\ ack_queue' = ack_queue + 1 /\ ready' = ready \cup {w} /\ w \notin ready
  BY DEF TokenizerReady, config_vars, Rank
<1>2. IsFiniteSet(ready) /\ Cardinality(ready) \in Nat
  BY WorkersFinite, LaunchAssumptions DEF LaunchInv, StartInv
<1>3. Cardinality(ready') = Cardinality(ready) + 1
  BY <1>1, <1>2, FS_AddElement
<1>4. PrimaryAck' = PrimaryAck /\ PrimaryAck \in Nat
  BY <1>1 DEF PrimaryAck, Up
<1> QED
  BY <1>1, <1>2, <1>3, <1>4 DEF LaunchInv, StartInv, Up

LEMMA TakeAckStart ==
    ASSUME LaunchInv, TakeAck
    PROVE  StartInv'
<1>1. tp_size' = tp_size /\ Rank' = Rank /\ at' = at /\ ready' = ready
      /\ ack_queue > 0 /\ got' = got + 1 /\ ack_queue' = ack_queue - 1
  BY DEF TakeAck, config_vars, Rank
<1>2. PrimaryAck' = PrimaryAck /\ PrimaryAck \in Nat
  BY <1>1 DEF PrimaryAck, Up
<1>3. Cardinality(ready) \in Nat
  BY WorkersFinite, LaunchAssumptions DEF LaunchInv, StartInv
<1> QED
  BY <1>1, <1>2, <1>3 DEF LaunchInv, StartInv, Up

LEMMA ShutdownStart ==
    ASSUME LaunchInv, Shutdown
    PROVE  StartInv'
<1>1. tp_size' = tp_size /\ Rank' = Rank /\ UNCHANGED start_vars
      /\ at' = [r \in Rank |-> "stopped"]
  BY DEF Shutdown, config_vars, Rank
<1>2. 0 \in Rank /\ at[0] = "shutdown"
  BY ZeroIsRank DEF Shutdown, AllAt, LaunchInv, StartInv
<1>3. \A q \in Rank : Up(q)'
  BY <1>1 DEF Up
<1>4. PrimaryAck = 1 /\ PrimaryAck' = 1
  BY <1>2, <1>3 DEF PrimaryAck, Up
<1>5. at' \in [Rank -> Place]
  BY <1>1 DEF Place
<1> QED
  BY <1>1, <1>3, <1>4, <1>5 DEF LaunchInv, StartInv, start_vars

(* Every step of the loop but the getting up keeps the ranks up.            *)
LEMMA LoopStart ==
    ASSUME LaunchInv, NEW place \in Place, Go(0, place), Up(0),
           place \notin {"init", "dead", "sync"},
           UNCHANGED <<config_vars, start_vars>>
    PROVE  StartInv'
<1>1. 0 \in Rank /\ StartInv
  BY ZeroIsRank DEF LaunchInv, StartInv
<1>2. tp_size' = tp_size
  BY DEF config_vars
<1> QED
  BY <1>1, <1>2, GoKeepsStart

-----------------------------------------------------------------------------
(* The queues *)

LEMMA SameKeepsQueue ==
    ASSUME QueueInv, UNCHANGED <<queue_vars, accepted>>
    PROVE  QueueInv'
BY DEF QueueInv, queue_vars, Once, IsUser

LEMMA UserIsMessage ==
    ASSUME NEW msg \in Message
    PROVE  /\ msg.kind \in {"user", "abort", "exit"}
           /\ msg.kind \in {"user", "abort"} => msg.uid \in Uids
           /\ msg.kind = "user" => msg = [kind |-> "user", uid |-> msg.uid]
BY DEF Message

LEMMA SendQueue ==
    ASSUME LaunchInv, NEW msg \in Message, Send(msg)
    PROVE  QueueInv'
<1>1. /\ msg \notin sent /\ sent' = sent \cup {msg}
      /\ from_tokenizer' = Append(from_tokenizer, msg)
      /\ pending_msgs' = pending_msgs /\ accepted' = accepted
  BY DEF Send, batch_vars
<1>2. QueueInv
  BY DEF LaunchInv
<1> DEFINE s == from_tokenizer
<1> DEFINE t == from_tokenizer'
<1>3. /\ s \in Seq(Message) /\ t \in Seq(Message) /\ Len(t) = Len(s) + 1
      /\ DOMAIN s = 1..Len(s) /\ DOMAIN t = 1..(Len(s) + 1) /\ Len(s) \in Nat
      /\ \A i \in DOMAIN s : t[i] = s[i]
      /\ t[Len(s) + 1] = msg
  BY <1>1, <1>2 DEF QueueInv
<1>4. ASSUME msg.kind = "user"
      PROVE  /\ msg.uid \notin accepted
             /\ \A i \in DOMAIN s : IsUser(s, i) => s[i].uid # msg.uid
             /\ \A i \in DOMAIN pending_msgs :
                   IsUser(pending_msgs, i) => pending_msgs[i].uid # msg.uid
  <2>1. msg = [kind |-> "user", uid |-> msg.uid]
    BY <1>4, UserIsMessage
  <2>2. msg.uid \notin accepted
    BY <1>1, <1>2, <2>1 DEF QueueInv
  <2>3. ASSUME NEW q \in Seq(Message), Once(q), NEW i \in DOMAIN q, IsUser(q, i)
        PROVE  q[i].uid # msg.uid
    <3>1. q[i] \in Message /\ q[i].kind = "user" /\ q[i] \in sent
      BY <2>3 DEF Once, IsUser
    <3>2. q[i] = [kind |-> "user", uid |-> q[i].uid]
      BY <3>1, UserIsMessage
    <3> QED
      BY <1>1, <2>1, <3>1, <3>2
  <2> QED
    BY <1>2, <2>2, <2>3 DEF QueueInv
<1>5. Once(from_tokenizer)'
  <2>1. ASSUME NEW i \in DOMAIN t, t[i].kind = "user"
        PROVE  t[i] \in sent' /\ t[i].uid \notin accepted
    <3>1. CASE i \in DOMAIN s
      BY <1>1, <1>2, <1>3, <2>1, <3>1 DEF QueueInv, Once, IsUser
    <3>2. CASE i = Len(s) + 1
      BY <1>1, <1>3, <1>4, <2>1, <3>2
    <3> QED
      BY <1>3, <3>1, <3>2
  <2>2. ASSUME NEW i \in DOMAIN t, NEW j \in DOMAIN t, t[i].kind = "user",
               t[j].kind = "user", t[i].uid = t[j].uid
        PROVE  i = j
    <3>1. CASE i \in DOMAIN s /\ j \in DOMAIN s
      BY <1>2, <1>3, <2>2, <3>1 DEF QueueInv, Once, IsUser
    <3>2. CASE i = Len(s) + 1 /\ j \in DOMAIN s
      BY <1>3, <1>4, <2>2, <3>2 DEF IsUser
    <3>3. CASE j = Len(s) + 1 /\ i \in DOMAIN s
      BY <1>3, <1>4, <2>2, <3>3 DEF IsUser
    <3> QED
      BY <1>3, <3>1, <3>2, <3>3
  <2> QED
    BY <1>1, <2>1, <2>2 DEF Once, IsUser
<1>6. Once(pending_msgs)'
  BY <1>1, <1>2 DEF QueueInv, Once, IsUser
<1>7. ASSUME NEW i \in DOMAIN t, NEW j \in DOMAIN pending_msgs, t[i].kind = "user",
             IsUser(pending_msgs, j)
      PROVE  t[i].uid # pending_msgs[j].uid
  <2>1. CASE i \in DOMAIN s
    BY <1>2, <1>3, <1>7, <2>1 DEF QueueInv, IsUser
  <2>2. CASE i = Len(s) + 1
    BY <1>3, <1>4, <1>7, <2>2
  <2> QED
    BY <1>3, <2>1, <2>2
<1>8. sent' \subseteq Message /\ \A u \in accepted : [kind |-> "user", uid |-> u] \in sent'
  BY <1>1, <1>2 DEF QueueInv
<1> QED
  BY <1>1, <1>2, <1>3, <1>5, <1>6, <1>7, <1>8 DEF QueueInv, IsUser

LEMMA GetQueue ==
    ASSUME LaunchInv, Get
    PROVE  QueueInv'
<1>1. /\ from_tokenizer # <<>> /\ from_tokenizer' = Tail(from_tokenizer)
      /\ pending_msgs' = Append(pending_msgs, Head(from_tokenizer))
      /\ sent' = sent /\ accepted' = accepted
  BY DEF Get, batch_vars
<1>2. QueueInv
  BY DEF LaunchInv
<1> DEFINE s == from_tokenizer
<1> DEFINE s1 == from_tokenizer'
<1> DEFINE p == pending_msgs
<1> DEFINE p1 == pending_msgs'
<1>3. /\ s \in Seq(Message) /\ s1 \in Seq(Message) /\ Len(s) \in Nat \ {0}
      /\ DOMAIN s = 1..Len(s) /\ DOMAIN s1 = 1..(Len(s) - 1)
      /\ \A i \in DOMAIN s1 : s1[i] = s[i + 1]
      /\ Head(s) = s[1] /\ s[1] \in Message
  BY <1>1, <1>2 DEF QueueInv
<1>4. /\ p \in Seq(Message) /\ p1 \in Seq(Message) /\ Len(p) \in Nat
      /\ DOMAIN p = 1..Len(p) /\ DOMAIN p1 = 1..(Len(p) + 1)
      /\ \A i \in DOMAIN p : p1[i] = p[i]
      /\ p1[Len(p) + 1] = s[1]
  BY <1>1, <1>2, <1>3 DEF QueueInv
<1>5. Once(from_tokenizer)'
  BY <1>1, <1>2, <1>3 DEF QueueInv, Once, IsUser
<1>6. Once(pending_msgs)'
  <2>1. ASSUME NEW i \in DOMAIN p1, p1[i].kind = "user"
        PROVE  p1[i] \in sent /\ p1[i].uid \notin accepted
    <3>1. CASE i \in DOMAIN p
      BY <1>2, <1>4, <2>1, <3>1 DEF QueueInv, Once, IsUser
    <3>2. CASE i = Len(p) + 1
      BY <1>2, <1>3, <1>4, <2>1, <3>2 DEF QueueInv, Once, IsUser
    <3> QED
      BY <1>4, <3>1, <3>2
  <2>2. ASSUME NEW i \in DOMAIN p1, NEW j \in DOMAIN p1, p1[i].kind = "user",
               p1[j].kind = "user", p1[i].uid = p1[j].uid
        PROVE  i = j
    <3>1. CASE i \in DOMAIN p /\ j \in DOMAIN p
      BY <1>2, <1>4, <2>2, <3>1 DEF QueueInv, Once, IsUser
    <3>2. CASE i = Len(p) + 1 /\ j \in DOMAIN p
      BY <1>2, <1>3, <1>4, <2>2, <3>2 DEF QueueInv, IsUser
    <3>3. CASE j = Len(p) + 1 /\ i \in DOMAIN p
      BY <1>2, <1>3, <1>4, <2>2, <3>3 DEF QueueInv, IsUser
    <3> QED
      BY <1>4, <3>1, <3>2, <3>3
  <2> QED
    BY <1>1, <2>1, <2>2 DEF Once, IsUser
<1>7. ASSUME NEW i \in DOMAIN s1, NEW j \in DOMAIN p1, s1[i].kind = "user",
             p1[j].kind = "user"
      PROVE  s1[i].uid # p1[j].uid
  <2>1. CASE j \in DOMAIN p
    <3>1. i + 1 \in DOMAIN s /\ s1[i] = s[i + 1] /\ p1[j] = p[j]
      BY <1>3, <1>4, <2>1
    <3>2. IsUser(s, i + 1) /\ IsUser(p, j)
      BY <1>7, <2>1, <3>1 DEF IsUser
    <3> QED
      BY <1>2, <2>1, <3>1, <3>2 DEF QueueInv
  <2>2. CASE j = Len(p) + 1
    <3>1. i + 1 \in DOMAIN s /\ 1 \in DOMAIN s /\ i + 1 # 1 /\ s1[i] = s[i + 1] /\ p1[j] = s[1]
      BY <1>3, <1>4, <2>2
    <3> QED
      BY <1>2, <1>7, <3>1 DEF QueueInv, Once, IsUser
  <2> QED
    BY <1>4, <2>1, <2>2
<1> QED
  BY <1>1, <1>2, <1>3, <1>4, <1>5, <1>6, <1>7 DEF QueueInv, IsUser

LEMMA ProcessOneMsgQueue ==
    ASSUME LaunchInv, ProcessOneMsg
    PROVE  QueueInv'
<1>1. PICK msg : /\ msg = Head(pending_msgs)
                 /\ accepted' = IF msg.kind = "user" THEN accepted \cup {msg.uid} ELSE accepted
  BY Zenon DEF ProcessOneMsg
<1>2. /\ pending_msgs # <<>> /\ pending_msgs' = Tail(pending_msgs)
      /\ from_tokenizer' = from_tokenizer /\ sent' = sent
  BY DEF ProcessOneMsg
<1>3. QueueInv
  BY DEF LaunchInv
<1> DEFINE p == pending_msgs
<1> DEFINE p1 == pending_msgs'
<1>4. /\ p \in Seq(Message) /\ p1 \in Seq(Message) /\ Len(p) \in Nat \ {0}
      /\ DOMAIN p = 1..Len(p) /\ DOMAIN p1 = 1..(Len(p) - 1)
      /\ \A i \in DOMAIN p1 : p1[i] = p[i + 1]
      /\ msg = p[1] /\ msg \in Message
  BY <1>1, <1>2, <1>3 DEF QueueInv
<1>5. ASSUME msg.kind = "user"
      PROVE  /\ msg \in sent
             /\ \A i \in DOMAIN p1 : p1[i].kind = "user" => p1[i].uid # msg.uid
             /\ \A i \in DOMAIN from_tokenizer :
                   from_tokenizer[i].kind = "user" => from_tokenizer[i].uid # msg.uid
  <2>1. 1 \in DOMAIN p /\ IsUser(p, 1)
    BY <1>4, <1>5 DEF IsUser
  <2>2. ASSUME NEW i \in DOMAIN p1, p1[i].kind = "user" PROVE p1[i].uid # msg.uid
    <3>1. i + 1 \in DOMAIN p /\ i + 1 # 1 /\ IsUser(p, i + 1) /\ p1[i] = p[i + 1]
      BY <1>4, <2>2 DEF IsUser
    <3> QED
      BY <1>3, <1>4, <2>1, <3>1 DEF QueueInv, Once
  <2> QED
    BY <1>3, <1>4, <2>1, <2>2 DEF QueueInv, Once, IsUser
<1>6. Once(pending_msgs)'
  BY <1>1, <1>2, <1>3, <1>4, <1>5 DEF QueueInv, Once, IsUser
<1>7. Once(from_tokenizer)'
  BY <1>1, <1>2, <1>3, <1>5 DEF QueueInv, Once, IsUser
<1>8. \A i \in DOMAIN from_tokenizer, j \in DOMAIN p1 :
         from_tokenizer[i].kind = "user" /\ p1[j].kind = "user"
            => from_tokenizer[i].uid # p1[j].uid
  BY <1>3, <1>4 DEF QueueInv, IsUser
<1>9. ASSUME NEW u \in accepted' PROVE [kind |-> "user", uid |-> u] \in sent
  <2>1. CASE u \in accepted
    BY <1>3, <2>1 DEF QueueInv
  <2>2. CASE msg.kind = "user" /\ u = msg.uid
    <3>1. msg = [kind |-> "user", uid |-> u]
      BY <1>4, <2>2, UserIsMessage
    <3> QED
      BY <1>5, <2>2, <3>1
  <2> QED
    BY <1>1, <2>1, <2>2
<1> QED
  BY <1>2, <1>3, <1>4, <1>6, <1>7, <1>8, <1>9 DEF QueueInv, IsUser

-----------------------------------------------------------------------------
(* The batches *)

LEMMA SameKeepsBatch ==
    ASSUME BatchInv, UNCHANGED <<overlap, batch_vars>>,
           Launched => Launched',
           at'[0] = "first" => Blocking
    PROVE  BatchInv'
BY DEF BatchInv, batch_vars, One, Blocking, runnable, Launched

(* The place of rank 0 after Go. *)
LEMMA GoAt ==
    ASSUME LaunchInv, NEW r \in Rank, NEW place, Go(r, place)
    PROVE  /\ at'[r] = place
           /\ \A q \in Rank \ {r} : at'[q] = at[q]
BY DEF LaunchInv, StartInv, Go

(* A prompt that is taken in still needs all of its passes; an abort takes  *)
(* out a request that needs any.                                            *)
LEMMA ProcessOneMsgBatch ==
    ASSUME LaunchInv, ProcessOneMsg
    PROVE  BatchInv'
<1>1. 0 \in Rank /\ QueueInv /\ BatchInv
  BY ZeroIsRank DEF LaunchInv, StartInv
<1>2. PICK msg : msg = Head(pending_msgs)
  OBVIOUS
<1>3. /\ Go(0, IF Exits(msg) THEN "shutdown" ELSE "process")
      /\ IF msg.kind = "user"
         THEN /\ work' = [work EXCEPT ![msg.uid] = Forwards[msg.uid]]
              /\ accepted' = accepted \cup {msg.uid}
              /\ UNCHANGED aborted
         ELSE IF msg.kind = "abort"
         THEN /\ work' = [work EXCEPT ![msg.uid] = 0]
              /\ aborted' = IF work[msg.uid] > 0 THEN aborted \cup {msg.uid} ELSE aborted
              /\ UNCHANGED accepted
         ELSE UNCHANGED <<work, accepted, aborted>>
  BY <1>2, Zenon DEF ProcessOneMsg
<1>4. /\ pending_msgs # <<>> /\ at[0] = "process"
      /\ UNCHANGED <<overlap, ongoing, last_data, results>>
  BY DEF ProcessOneMsg, config_vars
<1>5. msg \in Message /\ 1 \in DOMAIN pending_msgs /\ msg = pending_msgs[1]
  BY <1>1, <1>2, <1>4 DEF QueueInv
<1>6. at'[0] # "first" /\ ~Launched
  BY <1>1, <1>3, <1>4, GoAt DEF Launched
<1>7. CASE msg.kind = "user"
  <2>1. msg.uid \in Uids /\ msg.uid \notin accepted
    BY <1>1, <1>5, <1>7, UserIsMessage DEF QueueInv, Once, IsUser
  <2>2. /\ work' \in [Uids -> Nat] /\ work'[msg.uid] = Forwards[msg.uid]
        /\ \A u \in Uids \ {msg.uid} : work'[u] = work[u]
        /\ accepted' = accepted \cup {msg.uid} /\ aborted' = aborted
    BY <1>1, <1>3, <1>7, <2>1, LaunchAssumptions DEF BatchInv
  <2>3. Forwards[msg.uid] \in Nat
    BY <2>1, LaunchAssumptions
  <2>4. ASSUME NEW u \in accepted' \ aborted'
        PROVE  results'[u] + One(u, ongoing') + One(u, last_data') + work'[u] = Forwards[u]
    <3>1. CASE u = msg.uid
      BY <1>1, <1>4, <2>1, <2>2, <2>3, <3>1 DEF BatchInv, One
    <3>2. CASE u # msg.uid
      BY <1>1, <1>4, <2>1, <2>2, <3>2 DEF BatchInv, One
    <3> QED
      BY <3>1, <3>2
  <2>5. \A u \in Uids \ accepted' : work'[u] = 0 /\ results'[u] = 0
    BY <1>1, <1>4, <2>2 DEF BatchInv
  <2> QED
    BY <1>1, <1>4, <1>6, <2>1, <2>2, <2>4, <2>5 DEF BatchInv
<1>8. CASE msg.kind = "abort"
  <2>1. msg.uid \in Uids
    BY <1>5, <1>8, UserIsMessage
  <2>2. /\ work' \in [Uids -> Nat] /\ work'[msg.uid] = 0
        /\ \A u \in Uids \ {msg.uid} : work'[u] = work[u]
        /\ accepted' = accepted
        /\ aborted' = IF work[msg.uid] > 0 THEN aborted \cup {msg.uid} ELSE aborted
    BY <1>1, <1>3, <1>8, <2>1 DEF BatchInv
  <2>3. \A u \in accepted' \ aborted' : work'[u] = work[u] /\ u \notin aborted
    BY <1>1, <2>1, <2>2 DEF BatchInv
  <2>4. \A u \in accepted' \ aborted' :
           results'[u] + One(u, ongoing') + One(u, last_data') + work'[u] = Forwards[u]
    BY <1>1, <1>4, <2>2, <2>3 DEF BatchInv, One
  <2>5. \A u \in Uids \ accepted' : work'[u] = 0 /\ results'[u] = 0
    BY <1>1, <1>4, <2>1, <2>2 DEF BatchInv
  <2> QED
    BY <1>1, <1>4, <1>6, <2>2, <2>4, <2>5 DEF BatchInv
<1>9. CASE msg.kind = "exit"
  BY <1>1, <1>3, <1>4, <1>6, <1>9 DEF BatchInv, One
<1> QED
  BY <1>5, <1>7, <1>8, <1>9, UserIsMessage

(* A launched pass is one fewer to come and one more in flight.             *)
LEMMA ScheduleBatch ==
    ASSUME LaunchInv, NEW batch, Schedule(batch)
    PROVE  BatchInv'
<1>1. 0 \in Rank /\ BatchInv
  BY ZeroIsRank DEF LaunchInv, StartInv
<1>2. /\ at[0] = "process" /\ batch \subseteq runnable /\ ongoing' = batch
      /\ work' = [u \in Uids |-> IF u \in batch THEN work[u] - 1 ELSE work[u]]
      /\ UNCHANGED <<overlap, last_data, results, accepted, aborted>>
  BY DEF Schedule, config_vars
<1>3. at'[0] = "result"
  BY <1>1, GoAt DEF Schedule
<1>4. ongoing = {} /\ batch \subseteq accepted
  BY <1>1, <1>2 DEF BatchInv, runnable, Launched
<1>5. \A u \in Uids : work[u] \in Nat /\ (u \in batch => work[u] > 0)
  BY <1>1, <1>2 DEF BatchInv, runnable
<1>6. work' \in [Uids -> Nat]
  BY <1>2, <1>5
<1>7. ASSUME NEW u \in accepted \ aborted
      PROVE  results[u] + One(u, batch) + One(u, last_data) + work'[u] = Forwards[u]
  BY <1>1, <1>2, <1>4, <1>5, <1>7 DEF BatchInv, One
<1>8. \A u \in Uids \ accepted : work'[u] = 0
  BY <1>1, <1>2, <1>4 DEF BatchInv
<1> QED
  BY <1>1, <1>2, <1>3, <1>4, <1>6, <1>7, <1>8 DEF BatchInv, Launched

LEMMA ProcessLastDataBatch ==
    ASSUME LaunchInv, ProcessLastData
    PROVE  BatchInv'
<1>1. 0 \in Rank /\ BatchInv
  BY ZeroIsRank DEF LaunchInv, StartInv
<1>2. /\ at[0] = "result"
      /\ results' = [u \in Uids |->
             IF u \in (IF overlap THEN last_data ELSE ongoing) THEN results[u] + 1 ELSE results[u]]
      /\ last_data' = (IF overlap THEN ongoing ELSE {}) /\ ongoing' = {}
      /\ UNCHANGED <<overlap, work, accepted, aborted>>
  BY DEF ProcessLastData, config_vars
<1>3. at'[0] = "loop"
  BY <1>1, GoAt DEF ProcessLastData
<1>4. results' \in [Uids -> Nat]
  BY <1>1, <1>2 DEF BatchInv
<1>5. ASSUME NEW u \in accepted \ aborted
      PROVE  results'[u] + One(u, {}) + One(u, last_data') + work[u] = Forwards[u]
  <2>1. u \in Uids /\ results[u] \in Nat /\ work[u] \in Nat
    BY <1>1, <1>5 DEF BatchInv
  <2>2. CASE overlap
    BY <1>1, <1>2, <2>1, <2>2 DEF BatchInv, One
  <2>3. CASE ~overlap
    BY <1>1, <1>2, <2>1, <2>3 DEF BatchInv, One
  <2> QED
    BY <2>2, <2>3
<1>6. \A u \in Uids \ accepted : results'[u] = 0
  BY <1>1, <1>2 DEF BatchInv
<1>7. last_data' \subseteq accepted /\ (~overlap => last_data' = {})
  BY <1>1, <1>2 DEF BatchInv
<1> QED
  BY <1>1, <1>2, <1>3, <1>4, <1>5, <1>6, <1>7 DEF BatchInv

-----------------------------------------------------------------------------
(* The invariant *)

LEMMA LoopKeepsLaunchInv ==
    ASSUME LaunchInv, Loop
    PROVE  LaunchInv'
<1>1. 0 \in Rank /\ StartInv /\ QueueInv /\ BatchInv
  BY ZeroIsRank DEF LaunchInv, StartInv
<1>2. CASE BeginLoop
  <2>1. PICK place \in {"first", "drain"} : place = "first" <=> Blocking
    BY Zenon
  <2>2. Go(0, place) /\ at[0] = "loop" /\ UNCHANGED <<config_vars, start_vars, queue_vars, batch_vars>>
    BY <1>2, <2>1 DEF BeginLoop
  <2>3. at'[0] = place
    BY <1>1, <2>2, GoAt
  <2>4. StartInv'
    BY <2>2, LoopStart DEF Place, Up
  <2>5. QueueInv'
    BY <1>1, <2>2, SameKeepsQueue DEF batch_vars
  <2>6. BatchInv'
    BY <1>1, <2>1, <2>2, <2>3, SameKeepsBatch DEF config_vars, Launched
  <2> QED
    BY <2>4, <2>5, <2>6 DEF LaunchInv
<1>3. CASE Get
  <2>1. Go(0, "drain") /\ at[0] \in {"first", "drain"} /\ UNCHANGED <<config_vars, start_vars, batch_vars>>
    BY <1>3 DEF Get
  <2>2. at'[0] = "drain"
    BY <1>1, <2>1, GoAt
  <2>3. StartInv'
    BY <2>1, LoopStart DEF Place, Up
  <2>4. BatchInv'
    BY <1>1, <2>1, <2>2, SameKeepsBatch DEF config_vars, Launched
  <2> QED
    BY <1>3, <2>3, <2>4, GetQueue DEF LaunchInv
<1>4. CASE Empty
  <2>1. Go(0, "process") /\ at[0] = "drain" /\ UNCHANGED <<config_vars, start_vars, queue_vars, batch_vars>>
    BY <1>4 DEF Empty
  <2>2. at'[0] = "process"
    BY <1>1, <2>1, GoAt
  <2>3. StartInv'
    BY <2>1, LoopStart DEF Place, Up
  <2>4. QueueInv'
    BY <1>1, <2>1, SameKeepsQueue DEF batch_vars
  <2>5. BatchInv'
    BY <1>1, <2>1, <2>2, SameKeepsBatch DEF config_vars, Launched
  <2> QED
    BY <2>3, <2>4, <2>5 DEF LaunchInv
<1>5. CASE ProcessOneMsg
  <2>1. PICK place \in {"shutdown", "process"} : Go(0, place)
    BY <1>5, Zenon DEF ProcessOneMsg
  <2>2. at[0] = "process" /\ UNCHANGED <<config_vars, start_vars>>
    BY <1>5 DEF ProcessOneMsg
  <2>3. StartInv'
    BY <2>1, <2>2, LoopStart DEF Place, Up
  <2> QED
    BY <1>5, <2>3, ProcessOneMsgQueue, ProcessOneMsgBatch DEF LaunchInv
<1>6. CASE ProcessLastData
  <2>1. Go(0, "loop") /\ at[0] = "result" /\ UNCHANGED <<config_vars, start_vars, queue_vars, accepted>>
    BY <1>6 DEF ProcessLastData
  <2>2. StartInv'
    BY <2>1, LoopStart DEF Place, Up
  <2>3. QueueInv'
    BY <1>1, <2>1, SameKeepsQueue
  <2> QED
    BY <1>6, <2>2, <2>3, ProcessLastDataBatch DEF LaunchInv
<1>7. ASSUME NEW batch \in SUBSET Uids, Schedule(batch) PROVE LaunchInv'
  <2>1. Go(0, "result") /\ at[0] = "process" /\ UNCHANGED <<config_vars, start_vars, queue_vars, accepted>>
    BY <1>7 DEF Schedule
  <2>2. StartInv'
    BY <2>1, LoopStart DEF Place, Up
  <2>3. QueueInv'
    BY <1>1, <2>1, SameKeepsQueue
  <2> QED
    BY <1>7, <2>2, <2>3, ScheduleBatch DEF LaunchInv
<1> QED
  BY <1>2, <1>3, <1>4, <1>5, <1>6, <1>7 DEF Loop

LEMMA NextLaunchInv == LaunchInv /\ [LaunchNext]_launch_vars => LaunchInv'
<1> SUFFICES ASSUME LaunchInv, [LaunchNext]_launch_vars PROVE LaunchInv'
  OBVIOUS
<1>1. 0 \in Rank /\ StartInv /\ QueueInv /\ BatchInv
  BY ZeroIsRank DEF LaunchInv, StartInv
<1>2. CASE SyncAllRanks
  <2>1. /\ UNCHANGED <<config_vars, queue_vars, batch_vars>>
        /\ at' = [r \in Rank |-> "loop"] /\ AllAt("sync")
    BY <1>2 DEF SyncAllRanks
  <2>2. at'[0] = "loop" /\ at[0] = "sync"
    BY <1>1, <2>1 DEF AllAt
  <2>3. QueueInv'
    BY <1>1, <2>1, SameKeepsQueue DEF batch_vars
  <2>4. BatchInv'
    BY <1>1, <2>1, <2>2, SameKeepsBatch DEF Launched, config_vars
  <2> QED
    BY <1>2, <2>3, <2>4, SyncAllRanksStart DEF LaunchInv
<1>3. CASE TakeAck
  <2>1. UNCHANGED <<config_vars, at, queue_vars, batch_vars>>
    BY <1>3 DEF TakeAck
  <2>2. QueueInv' /\ BatchInv'
    BY <1>1, <2>1, SameKeepsQueue, SameKeepsBatch DEF batch_vars, config_vars, Launched, BatchInv
  <2> QED
    BY <1>3, <2>2, TakeAckStart DEF LaunchInv
<1>4. CASE Loop
  BY <1>4, LoopKeepsLaunchInv
<1>5. CASE Interrupt
  <2>1. /\ Go(0, "shutdown") /\ at[0] \in {"loop", "first", "drain", "process", "result"}
        /\ UNCHANGED <<config_vars, start_vars, queue_vars, batch_vars>>
    BY <1>5 DEF Interrupt
  <2>2. at'[0] = "shutdown"
    BY <1>1, <2>1, GoAt
  <2>3. StartInv'
    BY <2>1, LoopStart DEF Place, Up
  <2>4. QueueInv' /\ BatchInv'
    BY <1>1, <2>1, <2>2, SameKeepsQueue, SameKeepsBatch DEF batch_vars, config_vars, Launched
  <2> QED
    BY <2>3, <2>4 DEF LaunchInv
<1>6. CASE Shutdown
  <2>1. /\ UNCHANGED <<config_vars, queue_vars, batch_vars>> /\ at' = [r \in Rank |-> "stopped"]
    BY <1>6 DEF Shutdown
  <2>2. at'[0] = "stopped"
    BY <1>1, <2>1
  <2>3. QueueInv' /\ BatchInv'
    BY <1>1, <2>1, <2>2, SameKeepsQueue, SameKeepsBatch DEF batch_vars, config_vars, Launched
  <2> QED
    BY <1>6, <2>3, ShutdownStart DEF LaunchInv
<1>7. ASSUME NEW r \in Rank, Construct(r) PROVE LaunchInv'
  <2>1. /\ UNCHANGED <<config_vars, queue_vars, batch_vars>> /\ at[r] = "init"
    BY <1>7 DEF Construct
  <2>2. PICK place \in {"dead", "sync"} : Go(r, place)
    BY <1>7 DEF Construct
  <2>3. at'[0] # "first" \/ at'[0] = at[0]
    BY <1>1, <2>2, GoAt
  <2>4. Launched => Launched'
    BY <1>1, <2>1, <2>2, GoAt DEF Launched
  <2>5. at'[0] = "first" => Blocking
    BY <1>1, <2>3 DEF BatchInv
  <2>6. QueueInv' /\ BatchInv'
    BY <1>1, <2>1, <2>4, <2>5, SameKeepsQueue, SameKeepsBatch DEF batch_vars, config_vars
  <2> QED
    BY <1>7, <2>6, ConstructStart DEF LaunchInv
<1>8. ASSUME NEW w \in Worker, TokenizerReady(w) PROVE LaunchInv'
  <2>1. UNCHANGED <<config_vars, at, queue_vars, batch_vars>>
    BY <1>8 DEF TokenizerReady
  <2>2. QueueInv' /\ BatchInv'
    BY <1>1, <2>1, SameKeepsQueue, SameKeepsBatch DEF batch_vars, config_vars, Launched, BatchInv
  <2> QED
    BY <1>8, <2>2, TokenizerReadyStart DEF LaunchInv
<1>9. ASSUME NEW msg \in Message, Send(msg) PROVE LaunchInv'
  <2>1. UNCHANGED <<config_vars, at, start_vars, batch_vars>>
    BY <1>9 DEF Send
  <2>2. StartInv' /\ BatchInv'
    BY <1>1, <2>1, SameKeepsStart, SameKeepsBatch DEF batch_vars, config_vars, Launched, BatchInv
  <2> QED
    BY <1>9, <2>2, SendQueue DEF LaunchInv
<1>10. CASE UNCHANGED launch_vars
  <2>1. UNCHANGED <<config_vars, at, start_vars, queue_vars, batch_vars>>
    BY <1>10 DEF launch_vars
  <2>2. StartInv' /\ QueueInv' /\ BatchInv'
    BY <1>1, <2>1, SameKeepsStart, SameKeepsQueue, SameKeepsBatch
       DEF batch_vars, config_vars, Launched, BatchInv
  <2> QED
    BY <2>2 DEF LaunchInv
<1> QED
  BY <1>2, <1>3, <1>4, <1>5, <1>6, <1>7, <1>8, <1>9, <1>10 DEF LaunchNext

(* How a server starts and what its loop owes the requests it took in, for  *)
(* any number of workers, of ranks asked for and of requests.               *)
THEOREM LaunchInvariant == LaunchSpec => []LaunchInv
BY InitLaunchInv, NextLaunchInv, PTL DEF LaunchSpec

(* launch.py: the acknowledgements "guarantee all subprocesses are ready".  *)
(* As many as the launcher counts are there only when each worker has sent  *)
(* one and rank 0 has left the barrier, which no rank leaves alone.         *)
THEOREM ServedWhenReady == LaunchSpec => []ServesOnlyWhenReady
<1>1. ASSUME LaunchInv PROVE ServesOnlyWhenReady
  <2>1. SUFFICES ASSUME serving
                 PROVE  ready = Worker /\ \A r \in Rank : at[r] \notin {"init", "sync", "dead"}
    BY DEF ServesOnlyWhenReady
  <2>2. /\ got = NumTokenizers + 2 /\ ack_queue \in Nat /\ ready \subseteq Worker
        /\ got + ack_queue = Cardinality(ready) + PrimaryAck
    BY <1>1, <2>1 DEF serving, NumAcks, LaunchInv, StartInv
  <2>3. Cardinality(ready) \in 0..(NumTokenizers + 1) /\ IsFiniteSet(Worker)
        /\ Cardinality(Worker) = NumTokenizers + 1
    BY <2>2, WorkersFinite
  <2>4. PrimaryAck = 1 /\ Cardinality(ready) = NumTokenizers + 1
    BY <2>2, <2>3, LaunchAssumptions DEF PrimaryAck
  <2>5. ready = Worker
    BY <2>2, <2>3, <2>4, FS_Subset
  <2>6. Up(0)
    BY <2>4 DEF PrimaryAck
  <2> QED
    BY <1>1, <2>5, <2>6 DEF LaunchInv, StartInv, Up
<1> QED
  BY <1>1, LaunchInvariant, PTL

(* When the loop waits for a message, every request it took in and was not  *)
(* told to abort has had all its results, with either loop.                 *)
THEOREM AnsweredWhenIdle == LaunchSpec => []IdleMeansAnswered
<1>1. ASSUME LaunchInv PROVE IdleMeansAnswered
  <2>1. SUFFICES ASSUME at[0] = "first", NEW u \in accepted \ aborted
                 PROVE  results[u] = Forwards[u]
    BY DEF IdleMeansAnswered
  <2>2. ongoing = {} /\ last_data = {} /\ u \in Uids /\ ~(work[u] > 0)
    BY <1>1, <2>1 DEF LaunchInv, BatchInv, Launched, Blocking, runnable
  <2>3. results[u] \in Nat /\ work[u] \in Nat
        /\ results[u] + One(u, ongoing) + One(u, last_data) + work[u] = Forwards[u]
    BY <1>1, <2>1, <2>2 DEF LaunchInv, BatchInv
  <2> QED
    BY <2>2, <2>3 DEF One
<1> QED
  BY <1>1, LaunchInvariant, PTL

(* The offline LLM                                                          *)

(* Numbers of which there are some have a least one.                        *)
LEMMA LeastOf ==
    ASSUME NEW S, S \subseteq Nat, S # {}
    PROVE  \E n \in S : \A m \in S : n <= m
<1> DEFINE R == {ss \in Nat \X Nat : ss[1] < ss[2]}
<1>1. R = OpToRel(<, Nat)
  BY Zenon DEF OpToRel
<1>2. IsWellFoundedOn(R, Nat)
  BY <1>1, NatLessThanWellFounded, Zenon
<1> HIDE DEF R
<1>3. PICK n \in S : \A m \in S : <<m, n>> \notin R
  BY <1>2, WFMin
<1>4. ASSUME NEW m \in S PROVE n <= m
  <2>1. n \in Nat /\ m \in Nat /\ <<m, n>> \notin R
    BY <1>3
  <2> QED
    BY ONLY <2>1 DEF R
<1> QED
  BY <1>4

(* f counts the tokens of the prompts from c on, up to m of them.           *)
IsSum(f, c, m) ==
    f = [n \in 0..m |-> IF n = 0 THEN 0 ELSE f[n - 1] + Input(c + n - 1)]

(* They can be counted.                                                     *)
LEMMA SumExists ==
    ASSUME NEW c, NEW k \in Nat
    PROVE  \E f : IsSum(f, c, k)
<1> DEFINE P(m) == \E f : IsSum(f, c, m)
           None == {m \in Nat : ~ P(m)}
<1>1. P(0)
  <2>1. IsSum([n \in 0..0 |-> 0], c, 0)
    BY DEF IsSum
  <2> QED
    BY <2>1
<1>2. ASSUME NEW m \in Nat, P(m) PROVE P(m + 1)
  <2>1. PICK f : IsSum(f, c, m)
    BY <1>2
  <2> DEFINE g == [n \in 0..(m + 1) |-> IF n = m + 1 THEN f[m] + Input(c + m) ELSE f[n]]
  <2>2. ASSUME NEW n \in 0..(m + 1)
        PROVE  g[n] = IF n = 0 THEN 0 ELSE g[n - 1] + Input(c + n - 1)
    <3>1. CASE n = m + 1
      <4>1. c + n - 1 = c + m
        <5>1. n - 1 = m
          BY <3>1
        <5> QED
          BY <3>1, <5>1
      <4>2. n # 0 /\ n - 1 = m /\ g[n] = f[m] + Input(c + m) /\ g[m] = f[m]
        BY <3>1
      <4> QED
        BY <4>1, <4>2
    <3>2. CASE n # m + 1
      <4>1. n \in 0..m /\ g[n] = f[n] /\ (n # 0 => g[n - 1] = f[n - 1])
        BY <3>2
      <4>2. f[n] = IF n = 0 THEN 0 ELSE f[n - 1] + Input(c + n - 1)
        BY <2>1, <4>1 DEF IsSum
      <4> QED
        BY <4>1, <4>2
    <3> QED
      BY <3>1, <3>2
  <2>3. DOMAIN g = 0..(m + 1) /\ g = [n \in 0..(m + 1) |-> g[n]]
    OBVIOUS
  <2> HIDE DEF g
  <2>4. IsSum(g, c, m + 1)
    BY <2>2, <2>3 DEF IsSum
  <2> QED
    BY <2>4
<1> HIDE DEF P
<1>3. SUFFICES ASSUME None # {} PROVE FALSE
  BY DEF P
<1>4. PICK m \in None : \A n \in None : m <= n
  <2>1. None \subseteq Nat
    OBVIOUS
  <2> HIDE DEF None
  <2> QED
    BY <1>3, <2>1, LeastOf
<1>5. m # 0 /\ m - 1 \in Nat /\ m - 1 \notin None /\ (m - 1) + 1 = m
  <2>1. m \in Nat /\ m # 0
    BY <1>1
  <2>2. m - 1 \in Nat /\ ~ (m <= m - 1) /\ (m - 1) + 1 = m
    BY ONLY <2>1
  <2> QED
    BY <1>4, <2>1, <2>2
<1> QED
  BY <1>2, <1>5

(* More prompts have more tokens.                                           *)
LEMMA SumGrows ==
    ASSUME NEW c \in 0..NumPrompts, NEW f, IsSum(f, c, NumPrompts - c)
    PROVE  \A n \in 0..(NumPrompts - c) : f[n] \in Nat /\ (n > 0 => f[n - 1] <= f[n])
<1> DEFINE N == NumPrompts - c
           Good(n) == f[n] \in Nat
           Bad == {n \in 0..N : ~ Good(n)}
<1>1. NumPrompts \in Nat /\ N \in Nat
  BY OfflineAssumptions DEF NumPrompts
<1>2. ASSUME NEW n \in 0..N, n > 0
      PROVE  f[n] = f[n - 1] + Input(c + n - 1) /\ Input(c + n - 1) \in Nat /\ n - 1 \in 0..N
  <2>1. c + n - 1 + 1 \in 1..Len(PromptLen) /\ n - 1 \in 0..N
    BY <1>1, <1>2 DEF NumPrompts
  <2>2. \A i \in 1..Len(PromptLen) : PromptLen[i] \in Nat
    BY OfflineAssumptions
  <2>3. Input(c + n - 1) \in Nat
    BY <2>1, <2>2 DEF Input
  <2>4. f[n] = IF n = 0 THEN 0 ELSE f[n - 1] + Input(c + n - 1)
    BY <1>2 DEF IsSum
  <2> QED
    BY <1>2, <2>1, <2>3, <2>4
<1>3. f[0] = 0
  BY <1>1 DEF IsSum
<1> HIDE DEF N
<1>4. \A n \in 0..N : Good(n)
  <2>1. SUFFICES ASSUME Bad # {} PROVE FALSE
    OBVIOUS
  <2>2. PICK n \in Bad : \A k \in Bad : n <= k
    <3>1. Bad \subseteq Nat
      BY <1>1
    <3> HIDE DEF Bad
    <3> QED
      BY <2>1, <3>1, LeastOf
  <2>3. n \in 0..N /\ n > 0
    BY <1>1, <1>3
  <2>4. n - 1 \in 0..N /\ f[n] = f[n - 1] + Input(c + n - 1) /\ Input(c + n - 1) \in Nat
    BY <1>2, <2>3
  <2>5. ~ (n <= n - 1)
    BY <2>3
  <2>6. f[n - 1] \in Nat
    BY <2>2, <2>4, <2>5
  <2> QED
    BY <2>4, <2>6
<1>5. ASSUME NEW n \in 0..N, n > 0 PROVE f[n - 1] <= f[n]
  <2>1. f[n - 1] \in Nat /\ Input(c + n - 1) \in Nat /\ f[n] = f[n - 1] + Input(c + n - 1)
    BY <1>2, <1>4, <1>5
  <2> QED
    BY <2>1
<1> QED
  BY <1>4, <1>5 DEF N

(* So the prompts a call takes are the next ones, up to some number.        *)
LEMMA TakenIsNext ==
    ASSUME counter \in 0..NumPrompts
    PROVE  \E m \in 0..(NumPrompts - counter) : Taken = counter..(counter + m - 1)
<1> DEFINE N == NumPrompts - counter
           sum[n \in 0..(NumPrompts - counter)] ==
               IF n = 0 THEN 0 ELSE sum[n - 1] + Input(counter + n - 1)
<1>1. NumPrompts \in Nat /\ N \in Nat /\ counter \in Nat
  BY OfflineAssumptions DEF NumPrompts
<1>2. IsSum(sum, counter, N)
  <2>1. \E f : IsSum(f, counter, N)
    BY <1>1, SumExists
  <2> QED
    BY <2>1 DEF IsSum
<1>3. Taken = {counter + n : n \in {k \in 0..(N - 1) : sum[k] < prefill_budget}}
  BY DEF Taken
<1> HIDE DEF sum
<1>4. \A n \in 0..N : sum[n] \in Nat /\ (n > 0 => sum[n - 1] <= sum[n])
  BY <1>2, SumGrows
<1> DEFINE S == {k \in 0..(N - 1) : sum[k] < prefill_budget}
           Out == {k \in 0..N : k \notin S}
           Late(m) == {k \in S : m < k}
<1>5. ASSUME NEW k \in S, k > 0 PROVE k - 1 \in S
  <2>1. k \in 0..N /\ k - 1 \in 0..(N - 1) /\ k - 1 \in 0..N
    BY <1>1, <1>5
  <2>2. sum[k - 1] \in Nat /\ sum[k] \in Nat /\ sum[k - 1] <= sum[k] /\ prefill_budget \in Nat
    BY <1>4, <1>5, <2>1, OfflineAssumptions
  <2>3. sum[k - 1] < prefill_budget
    BY <2>2
  <2> QED
    BY <2>1, <2>3
<1>6. S \subseteq 0..(N - 1)
  OBVIOUS
<1>7. Taken = {counter + n : n \in S}
  BY <1>3
<1> HIDE DEF S, N
<1>8. PICK m \in Out : \A k \in Out : m <= k
  <2>1. Out \subseteq Nat /\ N \in Out
    BY <1>1, <1>6
  <2> HIDE DEF Out
  <2> QED
    BY <2>1, LeastOf
<1>9. m \in 0..N /\ m \notin S /\ m \in Nat /\ \A k \in S : k \in Nat /\ k < N
  BY <1>1, <1>6, <1>8
<1>10. \A k \in S : k < m
  <2>1. SUFFICES ASSUME Late(m) # {} PROVE FALSE
    <3>1. \A k \in S : k = m \/ m < k \/ k < m
      BY <1>9
    <3>2. \A k \in S : k # m /\ (m < k => k \in Late(m))
      BY <1>9
    <3> HIDE DEF Late
    <3> QED
      BY <3>1, <3>2
  <2>2. PICK k \in Late(m) : \A l \in Late(m) : k <= l
    <3>1. Late(m) \subseteq Nat
      BY <1>9
    <3> HIDE DEF Late
    <3> QED
      BY <2>1, <3>1, LeastOf
  <2>3. k \in S /\ k \in Nat /\ m < k /\ m \in Nat
    BY <1>1, <1>6, <1>9, <2>2
  <2>4. k - 1 \in S /\ ~ (k <= k - 1) /\ (k - 1 = m \/ m < k - 1)
    BY <1>5, <2>3
  <2> QED
    BY <1>9, <2>2, <2>4
<1>11. \A k \in 0..(m - 1) : k \in S
  BY <1>1, <1>8, <1>9
<1>12. S = 0..(m - 1)
  <2>1. \A k \in S : k \in 0..(m - 1)
    BY <1>9, <1>10
  <2> QED
    BY <1>11, <2>1
<1>13. {counter + n : n \in 0..(m - 1)} = counter..(counter + m - 1)
  <2>1. m \in Nat /\ counter \in Nat
    BY <1>1, <1>9
  <2>2. ASSUME NEW x \in counter..(counter + m - 1)
        PROVE  x \in {counter + n : n \in 0..(m - 1)}
    <3>1. x - counter \in 0..(m - 1) /\ x = counter + (x - counter)
      BY <2>1, <2>2
    <3> QED
      BY <3>1
  <2> QED
    BY <2>1, <2>2
<1> QED
  BY <1>7, <1>9, <1>12, <1>13 DEF N

(* The tokens generated for prompt u when the model does not end it.        *)
Due(u) == IF MaxOutput(u) <= 0 THEN 0
          ELSE IF MaxOutput(u) < max_tokens THEN MaxOutput(u) ELSE max_tokens

(* Which requests there are, and where they may be.                         *)
OfflineTypes ==
    /\ shared \in BOOLEAN /\ counter \in 0..NumPrompts /\ DOMAIN limit = Request
    /\ received \subseteq 0..(counter - 1)
    /\ DOMAIN running \subseteq (0..(counter - 1)) \ received
    /\ stopped \subseteq (0..(counter - 1)) \ (received \cup DOMAIN running)
    /\ DOMAIN status_map = 0..(counter - 1)

(* What a request has and what it has yet to get is what it is due.         *)
TokensInv ==
    ~shared => \A u \in 0..(counter - 1) :
        /\ u \in received => status_map[u] = 0 /\ limit[u] = Due(u) /\ Due(u) > 0
        /\ u \in DOMAIN running =>
               /\ running[u] \in Nat \ {0} /\ status_map[u] \in Nat
               /\ status_map[u] + running[u] = Due(u)
        /\ u \notin received \cup DOMAIN running \cup stopped => status_map[u] = Due(u)

(* The inductive invariant.                                                 *)
OfflineInv == OfflineTypes /\ TokensInv

(* What a prompt leaves room for is a number.                               *)
LEMMA MaxOutputType ==
    ASSUME NEW u \in Request
    PROVE  MaxOutput(u) \in Int
<1>1. u + 1 \in 1..Len(PromptLen) /\ max_seq_len \in Nat
  BY OfflineAssumptions DEF Request, NumPrompts
<1>2. PromptLen[u + 1] \in Nat
  BY <1>1, OfflineAssumptions
<1> QED
  BY <1>1, <1>2 DEF MaxOutput, Input

(* The limit a received request is given is what it is due.                 *)
LEMMA LimitIsDue ==
    ASSUME NEW u \in Request, MaxOutput(u) > 0
    PROVE  LET cut == {max_tokens} \cup {MaxOutput(v) : v \in {u}}
           IN  /\ (CHOOSE n \in cut : \A k \in cut : n <= k) = Due(u)
               /\ Due(u) \in Nat \ {0}
<1>1. MaxOutput(u) \in Nat \ {0} /\ max_tokens \in Nat \ {0}
  BY MaxOutputType, OfflineAssumptions
<1> DEFINE cut == {max_tokens} \cup {MaxOutput(v) : v \in {u}}
<1>2. cut = {max_tokens, MaxOutput(u)}
  OBVIOUS
<1>3. Due(u) \in cut /\ \A k \in cut : Due(u) <= k
  BY <1>1, <1>2 DEF Due
<1>4. \A n \in cut : (\A k \in cut : n <= k) => n = Due(u)
  <2>1. \A n \in cut : n \in Nat
    BY <1>1, <1>2
  <2> HIDE DEF cut
  <2> QED
    BY <1>3, <2>1
<1>5. (CHOOSE n \in cut : \A k \in cut : n <= k) = Due(u)
  <2> HIDE DEF cut
  <2> QED
    BY <1>3, <1>4
<1>6. Due(u) \in Nat \ {0}
  BY <1>1 DEF Due
<1> QED
  BY <1>5, <1>6

(* The invariant holds at the start.                                        *)
LEMMA OfflineInitInv ==
    ASSUME OfflineInit
    PROVE  OfflineInv
<1>1. NumPrompts \in Nat /\ 0..(0 - 1) = {}
  BY OfflineAssumptions DEF NumPrompts
<1> QED
  BY <1>1 DEF OfflineInit, OfflineInv, OfflineTypes, TokensInv

(* It is kept when prompts are received,                                    *)
LEMMA ReceiveKeeps ==
    ASSUME OfflineInv, ReceiveMsg
    PROVE  OfflineInv'
<1> USE DEF OfflineInv
<1> DEFINE fit == {u \in Taken : MaxOutput(u) > 0}
           cut(S) == {max_tokens} \cup {MaxOutput(u) : u \in S}
           least(S) == CHOOSE n \in cut(S) : \A k \in cut(S) : n <= k
<1>1. /\ received' = received \cup fit
      /\ limit' = [u \in Request |->
             IF shared THEN IF least(fit) < limit[u] THEN least(fit) ELSE limit[u]
             ELSE IF u \in fit THEN least({u}) ELSE limit[u]]
      /\ status_map' = [u \in DOMAIN status_map \cup Taken |->
             IF u \in Taken THEN 0 ELSE status_map[u]]
      /\ counter' = counter + Cardinality(Taken)
      /\ UNCHANGED <<shared, running, stopped>>
  BY DEF ReceiveMsg
<1>2. PICK m \in 0..(NumPrompts - counter) : Taken = counter..(counter + m - 1)
  BY TakenIsNext DEF OfflineTypes
<1>3. NumPrompts \in Nat /\ counter \in 0..NumPrompts
  BY OfflineAssumptions DEF NumPrompts, OfflineTypes
<1>4. counter' = counter + m
  <2>1. Cardinality(counter..(counter + m - 1)) = m
    <3>1. counter \in Int /\ counter + m - 1 \in Int /\ m \in Nat
      BY <1>2, <1>3
    <3>2. Cardinality(counter..(counter + m - 1)) =
            IF counter > counter + m - 1 THEN 0 ELSE (counter + m - 1) - counter + 1
      BY <3>1, FS_Interval
    <3> QED
      BY <3>1, <3>2
  <2> QED
    BY <1>1, <1>2, <2>1
<1>5. /\ counter' \in 0..NumPrompts
      /\ 0..(counter' - 1) = 0..(counter - 1) \cup Taken
      /\ (0..(counter - 1)) \cap Taken = {}
      /\ Taken \subseteq Request
  BY <1>2, <1>3, <1>4 DEF Request
<1>6. \A u \in fit : ~shared => limit'[u] = Due(u) /\ Due(u) \in Nat \ {0}
  <2> TAKE u \in fit
  <2>1. u \in Request /\ MaxOutput(u) > 0
    BY <1>5
  <2>2. least({u}) = Due(u) /\ Due(u) \in Nat \ {0}
    BY <2>1, LimitIsDue
  <2> HIDE DEF least, fit
  <2> QED
    BY <1>1, <2>1, <2>2
<1>7. \A u \in Taken \ fit : Due(u) = 0
  <2> TAKE u \in Taken \ fit
  <2>1. u \in Request /\ ~ (MaxOutput(u) > 0)
    BY <1>5
  <2>2. MaxOutput(u) \in Int
    BY <2>1, MaxOutputType
  <2> QED
    BY <2>1, <2>2 DEF Due
<1>8. fit \subseteq Taken
  OBVIOUS
<1>9. \A u \in Request : ~shared /\ u \notin fit => limit'[u] = limit[u]
  <2> HIDE DEF least, fit
  <2> QED
    BY <1>1
<1>10. DOMAIN limit' = Request
  BY <1>1
<1> HIDE DEF fit, least, cut
<1>11. OfflineTypes'
  <2>1. shared' \in BOOLEAN /\ DOMAIN status_map' = 0..(counter' - 1)
    BY <1>1, <1>5 DEF OfflineTypes
  <2>2. received' \subseteq 0..(counter' - 1)
    BY <1>1, <1>5, <1>8 DEF OfflineTypes
  <2>3. DOMAIN running' \subseteq (0..(counter' - 1)) \ received'
    BY <1>1, <1>5, <1>8 DEF OfflineTypes
  <2>4. stopped' \subseteq (0..(counter' - 1)) \ (received' \cup DOMAIN running')
    BY <1>1, <1>5, <1>8 DEF OfflineTypes
  <2> QED
    BY <1>5, <1>10, <2>1, <2>2, <2>3, <2>4 DEF OfflineTypes
<1>12. TokensInv'
  <2> SUFFICES ASSUME ~shared, NEW u \in 0..(counter' - 1)
               PROVE  /\ u \in received' => status_map'[u] = 0 /\ limit'[u] = Due(u) /\ Due(u) > 0
                      /\ u \in DOMAIN running =>
                           /\ running[u] \in Nat \ {0} /\ status_map'[u] \in Nat
                           /\ status_map'[u] + running[u] = Due(u)
                      /\ u \notin received' \cup DOMAIN running \cup stopped =>
                           status_map'[u] = Due(u)
    BY <1>1 DEF TokensInv
  <2>1. CASE u \in Taken
    <3>1. status_map'[u] = 0 /\ u \notin DOMAIN running
      BY <1>1, <1>5, <2>1 DEF OfflineTypes
    <3>2. u \in received' <=> u \in fit
      BY <1>1, <1>5, <2>1 DEF OfflineTypes
    <3> QED
      BY <1>6, <1>7, <2>1, <3>1, <3>2
  <2>2. CASE u \notin Taken
    <3>1. u \in 0..(counter - 1) /\ u \in Request /\ u \notin fit
      <4>1. u \in 0..(counter - 1)
        BY <1>5, <2>2
      <4>2. 0..(counter - 1) \subseteq Request
        BY <1>3 DEF Request
      <4> QED
        BY <1>8, <2>2, <4>1, <4>2
    <3>2. status_map'[u] = status_map[u] /\ limit'[u] = limit[u]
      BY <1>1, <1>9, <2>2, <3>1 DEF OfflineTypes
    <3>3. u \in received' <=> u \in received
      BY <1>1, <3>1
    <3> QED
      BY <3>1, <3>2, <3>3 DEF TokensInv
  <2> QED
    BY <2>1, <2>2
<1> QED
  BY <1>11, <1>12

(* when a prompt is admitted,                                               *)
LEMMA AdmitKeeps ==
    ASSUME OfflineInv, NEW w \in Request, Admit(w)
    PROVE  OfflineInv'
<1> USE DEF OfflineInv
<1>1. /\ w \in received /\ received' = received \ {w}
      /\ running' = [v \in DOMAIN running \cup {w} |-> IF v = w THEN limit[w] ELSE running[v]]
      /\ UNCHANGED <<shared, limit, counter, status_map, stopped>>
  BY DEF Admit
<1>2. DOMAIN running' = DOMAIN running \cup {w} /\ running'[w] = limit[w]
      /\ \A v \in DOMAIN running : v # w => running'[v] = running[v]
  BY <1>1
<1>3. OfflineTypes'
  BY <1>1, <1>2 DEF OfflineTypes
<1>4. TokensInv'
  <2> SUFFICES ASSUME ~shared, NEW u \in 0..(counter - 1)
               PROVE  /\ u \in received' => status_map[u] = 0 /\ limit[u] = Due(u) /\ Due(u) > 0
                      /\ u \in DOMAIN running' =>
                           /\ running'[u] \in Nat \ {0} /\ status_map[u] \in Nat
                           /\ status_map[u] + running'[u] = Due(u)
                      /\ u \notin received' \cup DOMAIN running' \cup stopped =>
                           status_map[u] = Due(u)
    BY <1>1 DEF TokensInv
  <2>1. CASE u = w
    <3>1. status_map[u] = 0 /\ limit[u] = Due(u) /\ Due(u) > 0
      BY <1>1, <2>1 DEF TokensInv
    <3>2. Due(u) \in Nat \ {0}
      <4>1. u \in Request /\ max_tokens \in Nat \ {0}
        BY <2>1, OfflineAssumptions
      <4>2. MaxOutput(u) > 0
        <5>1. MaxOutput(u) \in Int
          BY <4>1, MaxOutputType
        <5>2. ~ (MaxOutput(u) <= 0)
          BY <3>1 DEF Due
        <5> QED
          BY <5>1, <5>2
      <4> QED
        BY <4>1, <4>2, LimitIsDue
    <3> QED
      BY <1>1, <1>2, <2>1, <3>1, <3>2
  <2>2. CASE u # w
    BY <1>1, <1>2, <2>2 DEF TokensInv
  <2> QED
    BY <2>1, <2>2
<1> QED
  BY <1>3, <1>4

(* and when a token is sent.                                                *)
LEMMA SendKeeps ==
    ASSUME OfflineInv, NEW w \in Request, NEW is_eos \in BOOLEAN, NEW late \in 0..1,
           SendResult(w, is_eos, late)
    PROVE  OfflineInv'
<1> USE DEF OfflineInv
<1> DEFINE left == IF is_eos \/ running[w] = 1 THEN DOMAIN running \ {w} ELSE DOMAIN running
<1>1. /\ w \in DOMAIN running
      /\ running' = [v \in left |-> IF v = w THEN running[w] - 1 ELSE running[v]]
      /\ status_map' = [status_map EXCEPT ![w] = IF is_eos THEN status_map[w] + late
                                                 ELSE status_map[w] + 1]
      /\ stopped' = IF is_eos THEN stopped \cup {w} ELSE stopped
      /\ UNCHANGED <<shared, limit, counter, received>>
  BY DEF SendResult
<1>2. /\ DOMAIN running' = left /\ (w \in left => running'[w] = running[w] - 1)
      /\ \A v \in left : v # w => running'[v] = running[v]
      /\ w \in 0..(counter - 1) /\ w \notin received /\ w \notin stopped
      /\ DOMAIN status_map' = DOMAIN status_map
      /\ \A v \in 0..(counter - 1) : v # w => status_map'[v] = status_map[v]
      /\ ~is_eos => status_map'[w] = status_map[w] + 1
  BY <1>1 DEF OfflineTypes
<1>3. left \subseteq DOMAIN running /\ (\A v \in DOMAIN running : v # w => v \in left)
      /\ (w \in left <=> ~is_eos /\ running[w] # 1)
  BY <1>1
<1> HIDE DEF left
<1>4. OfflineTypes'
  BY <1>1, <1>2, <1>3 DEF OfflineTypes
<1>5. TokensInv'
  <2> SUFFICES ASSUME ~shared, NEW u \in 0..(counter - 1)
               PROVE  /\ u \in received => status_map'[u] = 0 /\ limit[u] = Due(u) /\ Due(u) > 0
                      /\ u \in DOMAIN running' =>
                           /\ running'[u] \in Nat \ {0} /\ status_map'[u] \in Nat
                           /\ status_map'[u] + running'[u] = Due(u)
                      /\ u \notin received \cup DOMAIN running' \cup stopped' =>
                           status_map'[u] = Due(u)
    BY <1>1 DEF TokensInv
  <2>1. CASE u = w
    <3>1. running[w] \in Nat \ {0} /\ status_map[w] \in Nat /\ status_map[w] + running[w] = Due(w)
      BY <1>1, <2>1 DEF TokensInv
    <3>2. CASE is_eos
      BY <1>1, <1>2, <1>3, <2>1, <3>2
    <3>3. CASE ~is_eos /\ running[w] = 1
      BY <1>1, <1>2, <1>3, <2>1, <3>1, <3>3
    <3>4. CASE ~is_eos /\ running[w] # 1
      <4>1. running'[w] = running[w] - 1 /\ status_map'[w] = status_map[w] + 1
        BY <1>2, <1>3, <3>4
      <4>2. running'[w] \in Nat \ {0} /\ status_map'[w] \in Nat
            /\ status_map'[w] + running'[w] = Due(w)
        BY <3>1, <3>4, <4>1
      <4> QED
        BY <1>2, <1>3, <2>1, <3>4, <4>2
    <3> QED
      BY <3>2, <3>3, <3>4
  <2>2. CASE u # w
    <3>1. status_map'[u] = status_map[u] /\ (u \in DOMAIN running' <=> u \in DOMAIN running)
          /\ (u \in DOMAIN running' => running'[u] = running[u])
          /\ (u \in stopped' <=> u \in stopped)
      BY <1>1, <1>2, <1>3, <2>2
    <3> QED
      BY <3>1 DEF TokensInv
  <2> QED
    BY <2>1, <2>2
<1> QED
  BY <1>4, <1>5

(* However the prompts are split over calls and their tokens interleaved,   *)
(* generate returns an answer for every prompt, of the length asked for or  *)
(* as long as the sequence has room, unless the model ended it or one       *)
(* SamplingParams was given for all prompts.                                *)
THEOREM OfflineAnswers == OfflineSpec => []OfflineAnswersComplete
<1>1. OfflineInit => OfflineInv
  BY OfflineInitInv
<1>2. OfflineInv /\ [OfflineNext]_offline_vars => OfflineInv'
  <2> SUFFICES ASSUME OfflineInv, [OfflineNext]_offline_vars PROVE OfflineInv'
    OBVIOUS
  <2>1. CASE UNCHANGED offline_vars
    BY <2>1 DEF offline_vars, OfflineInv, OfflineTypes, TokensInv
  <2>2. CASE OfflineNext
    BY <2>2, ReceiveKeeps, AdmitKeeps, SendKeeps DEF OfflineNext
  <2> QED
    BY <2>1, <2>2
<1>3. OfflineInv => OfflineAnswersComplete
  <2> SUFFICES ASSUME OfflineInv, AllFinished
               PROVE  /\ DOMAIN status_map = Request
                      /\ \A u \in Request \ stopped : ~shared =>
                           LET room == max_seq_len - Input(u)
                           IN  status_map[u] = IF room <= 0 THEN 0
                                               ELSE IF room < max_tokens THEN room ELSE max_tokens
    BY DEF OfflineAnswersComplete
  <2>1. DOMAIN status_map = Request /\ received = {} /\ DOMAIN running = {}
        /\ 0..(counter - 1) = Request
    BY DEF AllFinished, OfflineInv, OfflineTypes, Request
  <2>2. \A u \in Request \ stopped : ~shared => status_map[u] = Due(u)
    BY <2>1 DEF OfflineInv, TokensInv
  <2> QED
    BY <2>1, <2>2 DEF Due, MaxOutput
<1> QED
  BY <1>1, <1>2, <1>3, PTL DEF OfflineSpec

=============================================================================
