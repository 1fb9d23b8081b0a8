-------------------------- MODULE SchedulerProofs --------------------------
(***************************************************************************)
(* Proofs about Scheduler, for any requests, prompts, pool and batch       *)
(* sizes: who waits, who runs and who holds a row.                         *)
(*                                                                         *)
(* What a step does to a row depends on where the request is: admitted now *)
(* or before, partly prefilled, running, or in a batch in flight.  Inv     *)
(* relates those places to the requests that hold a row.  It holds for     *)
(* both loops; that a row is given back once (RowInv) needs that no abort  *)
(* can arrive while a batch is in flight (NoAbortInFlight): normal_loop    *)
(* processes a batch before it receives again, overlap_loop does not.      *)
(***************************************************************************)
EXTENDS Scheduler, PrefixTrieProofs, FiniteSetTheorems, FunctionTheorems

Entry == [uid : Req, chunked : BOOLEAN]

Fields == {"ids", "host_len", "cached_len", "device_len", "max_device_len",
           "table_idx", "handle_len", "chunked"}

(* What the proofs need to know of the types. *)
QueueTypes ==
    /\ phase \in {"receive", "admit", "allocate", "forward", "process", "failed"}
    /\ to_send \subseteq Req /\ running_reqs \subseteq Req /\ live \subseteq Req
    /\ pending_list \in Seq(Req)
    /\ adder.reqs \in Seq(Entry) /\ adder.chunked_list \in Seq(Req)
    /\ adder.token_budget \in Int
    /\ batch.reqs \in Seq(Entry) /\ last_data.reqs \in Seq(Entry)
    /\ next \in Nat \ {0}
    /\ row_slots \in Seq(Row)

ObjectTypes ==
    /\ DOMAIN req = Req
    /\ \A r \in Req : /\ DOMAIN req[r] = Fields
                      /\ req[r].cached_len \in Int /\ req[r].device_len \in Int
                      /\ req[r].table_idx \in Row /\ req[r].chunked \in BOOLEAN

(* A request is sent, waits and runs at most once, one after the other. *)
PlacesDisjoint ==
    /\ IsInjective(pending_list)
    /\ \A i \in DOMAIN pending_list : pending_list[i] \notin to_send \cup running_reqs
    /\ running_reqs \subseteq live
    /\ live \cap to_send = {}
    /\ \A r \in running_reqs \cup to_send : ~Continuing(r)

Admitted == IF phase = "admit" THEN Len(adder.reqs) ELSE 0

(* Of those that wait only the head may hold a row, when partly prefilled. *)
HeadIsChunked ==
    \A i \in DOMAIN pending_list : i > Admitted =>
        /\ Continuing(pending_list[i]) <=> pending_list[i] \in live
        /\ Continuing(pending_list[i]) => i = 1

(* The batch under construction: the first pending requests, the last of    *)
(* which may be cut, and then the budget is used up.                        *)
AddingInv ==
    phase = "admit" =>
        /\ Len(adder.reqs) <= Len(pending_list)
        /\ \A i \in DOMAIN adder.reqs :
              /\ adder.reqs[i].uid = pending_list[i]
              /\ pending_list[i] \in live
              /\ adder.reqs[i].chunked <=> Continuing(pending_list[i])
        /\ \/ /\ adder.chunked_list = <<>>
              /\ \A i \in DOMAIN adder.reqs : ~adder.reqs[i].chunked
           \/ /\ adder.token_budget <= 0
              /\ adder.reqs # <<>>
              /\ adder.chunked_list = <<pending_list[Len(adder.reqs)]>>
              /\ \A i \in DOMAIN adder.reqs : adder.reqs[i].chunked <=> i = Len(adder.reqs)

(* The batch that is about to run. *)
BatchInv ==
    /\ phase \in {"receive", "admit"} => batch = NoBatch
    /\ phase \in {"receive", "admit", "allocate", "forward"} => next = 1
    /\ \A i, j \in DOMAIN batch.reqs : batch.reqs[i].uid = batch.reqs[j].uid => i = j
    /\ phase \in {"allocate", "forward"} =>
          \A i \in DOMAIN batch.reqs :
              /\ batch.reqs[i].uid \in live
              /\ batch.reqs[i].chunked <=> Continuing(batch.reqs[i].uid)

(* A request whose prompt is computed never waits again. *)
PrefilledInv ==
    \A d \in {batch, last_data} : \A i \in DOMAIN d.reqs :
        ~d.reqs[i].chunked => d.reqs[i].uid \notin to_send \cup ToSet(pending_list)

Inv == /\ QueueTypes /\ ObjectTypes /\ PlacesDisjoint /\ HeadIsChunked
       /\ AddingInv /\ BatchInv /\ PrefilledInv

(* Every row is free, once, or held by one request. *)
RowsOwned ==
    /\ IsInjective(row_slots)
    /\ \A r \in live : req[r].table_idx \notin ToSet(row_slots)
    /\ \A r, s \in live : req[r].table_idx = req[s].table_idx => r = s
    /\ Row = ToSet(row_slots) \cup {req[r].table_idx : r \in live}

NoAbortInFlight == ~Overlap \/ Abortable = {}

(* Entry i of a batch d holds a row, or it is the step that was in flight   *)
(* when its request finished.                                               *)
LiveUnless(d, i, finished) ==
    ~d.reqs[i].chunked => \/ d.reqs[i].uid \in live
                          \/ d.phase = "decode" /\ d.reqs[i].uid \in finished

(* normal_loop: what a batch has still to process holds a row. *)
OwnBatchInv ==
    phase = "process" => \A i \in DOMAIN batch.reqs : i >= next => LiveUnless(batch, i, {})

(* overlap_loop: so does what is in flight, unless it finished in the batch *)
(* before; and a prompt is not finished before its own batch is processed.  *)
InFlightInv ==
    /\ \A i, j \in DOMAIN last_data.reqs : last_data.reqs[i].uid = last_data.reqs[j].uid => i = j
    /\ \A i \in DOMAIN last_data.reqs : i >= next => LiveUnless(last_data, i, finished_reqs)
    /\ phase = "process" =>
          \A i \in DOMAIN batch.reqs : LiveUnless(batch, i, new_finished_reqs)
    /\ (phase \notin {"process", "failed"} \/ last_data = NoBatch) => new_finished_reqs = {}
    /\ batch.phase # "decode" =>
          \A i \in DOMAIN batch.reqs, j \in DOMAIN last_data.reqs :
              ~last_data.reqs[j].chunked => batch.reqs[i].uid # last_data.reqs[j].uid

FlightInv == /\ to_abort \subseteq Abortable
             /\ ~Overlap => OwnBatchInv
             /\ Overlap => InFlightInv

RowInv == RowsOwned /\ FlightInv

-----------------------------------------------------------------------------
(* Sequences *)

(* What is left of a sequence after its first n elements. *)
LEMMA TailOfSeq ==
    ASSUME NEW S, NEW s \in Seq(S), NEW n \in Nat, n <= Len(s)
    PROVE  LET t == SubSeq(s, n + 1, Len(s))
           IN  /\ t \in Seq(S)
               /\ Len(t) = Len(s) - n
               /\ \A i \in 1..Len(t) : t[i] = s[i + n]
<1>1. \A i \in (n + 1)..Len(s) : s[i] \in S
  OBVIOUS
<1> QED
  BY <1>1, SubSeqProperties

(* A sequence with an element put in front. *)
LEMMA HeadOfSeq ==
    ASSUME NEW S, NEW x \in S, NEW t \in Seq(S), NEW s, s = <<x>> \o t
    PROVE  /\ s \in Seq(S)
           /\ Len(s) = 1 + Len(t)
           /\ s[1] = x
           /\ \A i \in 1..Len(t) : s[i + 1] = t[i]
<1>1. <<x>> \in Seq(S) /\ Len(<<x>>) = 1 /\ <<x>>[1] = x /\ Len(t) \in Nat
  OBVIOUS
<1> QED
  BY <1>1, ConcatProperties

-----------------------------------------------------------------------------
(* Initially *)

(* A function on 1..n is a sequence. *)
LEMMA FunctionIsSeq ==
    ASSUME NEW S, NEW n \in Nat, NEW f \in [1..n -> S]
    PROVE  f \in Seq(S) /\ Len(f) = n
OBVIOUS

(* Nobody waits, runs or holds a row. *)
LEMMA InitInv == Init => Inv
<1> SUFFICES ASSUME Init PROVE Inv
  OBVIOUS
<1> USE SchedulerAssumptions DEF Init
<1>1. QueueTypes
  <2>1. row_slots \in Seq(Row)
    <3>1. \A i \in 1..MaxRunningReq : i - 1 \in Row
      BY DEF Row
    <3> QED
      BY <3>1
  <2> QED
    BY <2>1 DEF QueueTypes, NoBatch, Entry
<1>2. ObjectTypes
  <2>1. 0 \in Row
    BY DEF Row
  <2>2. /\ DOMAIN NoReq = Fields
        /\ NoReq.cached_len \in Int /\ NoReq.device_len \in Int
        /\ NoReq.table_idx \in Row /\ NoReq.chunked \in BOOLEAN
    BY <2>1 DEF NoReq, Fields
  <2>3. DOMAIN req = Req /\ \A r \in Req : req[r] = NoReq
    OBVIOUS
  <2> QED
    BY ONLY <2>2, <2>3 DEF ObjectTypes
<1>3. PlacesDisjoint
  BY DEF PlacesDisjoint, IsInjective, Continuing, NoReq
<1>4. HeadIsChunked /\ AddingInv
  BY DEF HeadIsChunked, AddingInv
<1>5. BatchInv /\ PrefilledInv
  BY DEF BatchInv, PrefilledInv, NoBatch
<1> QED
  BY <1>1, <1>2, <1>3, <1>4, <1>5 DEF Inv

(* Every row is free, once. *)
LEMMA InitRowInv == Init => RowInv
<1> SUFFICES ASSUME Init PROVE RowInv
  OBVIOUS
<1> USE SchedulerAssumptions DEF Init
<1>1. ToSet(row_slots) = Row /\ IsInjective(row_slots)
  <2>1. \A i \in 1..MaxRunningReq : i - 1 \in Row
    BY DEF Row
  <2>2. \A w \in Row : w + 1 \in 1..MaxRunningReq /\ (w + 1) - 1 = w
    BY DEF Row
  <2>3. /\ DOMAIN row_slots = 1..MaxRunningReq
        /\ \A i \in 1..MaxRunningReq : row_slots[i] = i - 1
    OBVIOUS
  <2>5. ToSet(row_slots) = Row
    BY <2>1, <2>2, <2>3 DEF ToSet
  <2> QED
    BY <2>3, <2>5 DEF IsInjective
<1>2. /\ DOMAIN batch.reqs = {} /\ DOMAIN last_data.reqs = {}
      /\ phase = "receive" /\ to_abort = Abortable /\ new_finished_reqs = {}
  BY DEF NoBatch
<1>3. RowsOwned
  BY <1>1 DEF RowsOwned
<1>4. FlightInv
  BY ONLY <1>2 DEF FlightInv, OwnBatchInv, InFlightInv
<1> QED
  BY <1>3, <1>4 DEF RowInv

-----------------------------------------------------------------------------
(* Steps that move no request *)

(* The steps of a batch between its choice and its end change no place. *)
LEMMA QuietSteps ==
    ASSUME Inv,
           \/ AllocateFree \/ AllocateEvict \/ AllocateFails
           \/ ScheduleNothing \/ ProcessFails \/ ProcessChunk
    PROVE  Inv'
<1>1. /\ UNCHANGED <<to_send, pending_list, running_reqs, live, req, adder, batch, last_data,
                    row_slots>>
      /\ phase # "receive" /\ phase' \in {"forward", "process", "failed"}
      /\ next' \in Nat \ {0}
      /\ phase' = "forward" => phase = "allocate" /\ next' = next
  BY DEF AllocateFree, AllocateEvict, AllocateFails, ScheduleNothing, ProcessFails,
         ProcessChunk, InProcess, Inv, QueueTypes, input_vars, queue_vars, pool_vars, ghost_vars
<1> USE <1>1 DEF Inv
<1>2. QueueTypes' /\ ObjectTypes' /\ PlacesDisjoint' /\ PrefilledInv' /\ AddingInv'
  BY DEF QueueTypes, ObjectTypes, PlacesDisjoint, PrefilledInv, AddingInv, Continuing
<1>3. BatchInv'
  BY DEF BatchInv, Continuing
<1>4. HeadIsChunked'
  <2>1. phase = "admit" => adder.reqs = <<>> 
    BY DEF AllocateFree, AllocateEvict, AllocateFails, ScheduleNothing, ProcessFails,
         ProcessChunk, InProcess
  <2>2. Admitted = 0 /\ Admitted' = 0
    BY <2>1 DEF Admitted
  <2> QED
    BY <2>2 DEF HeadIsChunked, Continuing
<1> QED
  BY <1>2, <1>3, <1>4

(* The loop turns to the pending requests. *)
LEMMA StartStep ==
    ASSUME Inv, StartSchedule
    PROVE  Inv'
<1>1. /\ phase = "receive" /\ phase' = "admit"
      /\ adder'.reqs = <<>> /\ adder'.chunked_list = <<>> /\ adder'.token_budget \in Int
      /\ UNCHANGED <<to_send, pending_list, running_reqs, live, req, batch, last_data, next,
                    row_slots>>
  BY SchedulerAssumptions DEF StartSchedule, input_vars, queue_vars, pool_vars, ghost_vars
<1> USE <1>1 DEF Inv
<1>2. QueueTypes' /\ ObjectTypes' /\ PlacesDisjoint' /\ PrefilledInv'
  BY DEF QueueTypes, ObjectTypes, PlacesDisjoint, PrefilledInv, Continuing
<1>3. BatchInv' /\ AddingInv'
  BY DEF BatchInv, AddingInv, QueueTypes
<1>4. HeadIsChunked'
  BY DEF HeadIsChunked, Admitted, Continuing
<1> QED
  BY <1>2, <1>3, <1>4

-----------------------------------------------------------------------------
(* Processing *)

(* The token that reaches the host changes nothing else of a request. *)
LEMMA AppendedFields ==
    ASSUME NEW q, DOMAIN q = Fields
    PROVE  /\ DOMAIN Appended(q) = Fields
           /\ Appended(q).cached_len = q.cached_len /\ Appended(q).device_len = q.device_len
           /\ Appended(q).table_idx = q.table_idx /\ Appended(q).chunked = q.chunked
BY DEF Appended, Fields

(* What matters of the objects stays when one of them gets a token. *)
SameObjects ==
    /\ DOMAIN req' = DOMAIN req
    /\ \A r \in DOMAIN req :
          /\ DOMAIN req'[r] = DOMAIN req[r]
          /\ req'[r].cached_len = req[r].cached_len
          /\ req'[r].device_len = req[r].device_len
          /\ req'[r].table_idx = req[r].table_idx
          /\ req'[r].chunked = req[r].chunked

(* Processing a token leaves lengths on the device and rows alone. *)
LEMMA ProcessedObjects ==
    ASSUME ObjectTypes, ProcessFinished \/ ProcessPrefilled \/ ProcessDecoded
    PROVE  SameObjects
<1> DEFINE r == Work.reqs[next].uid
<1>1. DOMAIN req = Req /\ \A s \in Req : DOMAIN req[s] = Fields
  BY DEF ObjectTypes
<1>2. ASSUME NEW n, req' = [req EXCEPT ![r] = [Appended(@) EXCEPT !.handle_len = n]]
      PROVE  SameObjects
  <2> DEFINE q == [Appended(req[r]) EXCEPT !.handle_len = n]
  <2>1. DOMAIN req' = DOMAIN req /\ \A s \in DOMAIN req : s # r => req'[s] = req[s]
    BY <1>2
  <2>2. ASSUME r \in Req PROVE req'[r] = q
    BY <1>1, <1>2, <2>2
  <2>3. ASSUME r \in Req
        PROVE  /\ DOMAIN q = Fields
               /\ q.cached_len = req[r].cached_len /\ q.device_len = req[r].device_len
               /\ q.table_idx = req[r].table_idx /\ q.chunked = req[r].chunked
    BY <1>1, <2>3, AppendedFields DEF Fields
  <2> HIDE DEF q, r
  <2> QED
    BY <1>1, <2>1, <2>2, <2>3 DEF SameObjects
<1>3. ASSUME req' = [req EXCEPT ![r] = Appended(@)]
      PROVE  SameObjects
  <2> HIDE DEF r
  <2> QED
    BY <1>1, <1>3, AppendedFields DEF SameObjects
<1>4. CASE ProcessFinished \/ ProcessDecoded
  BY <1>3, <1>4 DEF ProcessFinished, ProcessDecoded, Deliver
<1>5. CASE ProcessPrefilled
  BY <1>2, <1>5 DEF ProcessPrefilled
<1> QED
  BY <1>4, <1>5

(* A request that finishes is not waiting, because its prompt is computed. *)
LEMMA ProcessStep ==
    ASSUME Inv, ProcessFinished \/ ProcessPrefilled \/ ProcessDecoded
    PROVE  Inv'
<1> DEFINE r == Work.reqs[next].uid
<1> USE DEF Inv
<1>1. /\ phase = "process" /\ phase' = "process" /\ next' = next + 1
      /\ UNCHANGED <<to_send, pending_list, adder, batch, last_data>>
      /\ \/ UNCHANGED <<running_reqs, live>>
         \/ running_reqs' = running_reqs \ {r} /\ live' = live \ {r}
      /\ next \in DOMAIN Work.reqs /\ ~Work.reqs[next].chunked
  <2>1. Work.reqs \in Seq(Entry) /\ next \in Nat \ {0}
    BY DEF Work, QueueTypes
  <2>2. phase = "process" /\ next <= Len(Work.reqs) /\ ~Work.reqs[next].chunked
    BY DEF ProcessFinished, ProcessPrefilled, ProcessDecoded, InProcess
  <2>3. /\ next' = next + 1
        /\ UNCHANGED <<phase, to_send, pending_list, adder, batch, last_data>>
    BY DEF ProcessFinished, ProcessPrefilled, ProcessDecoded, input_vars
  <2>4. ASSUME ProcessFinished
        PROVE  running_reqs' = running_reqs \ {r} /\ live' = live \ {r}
    BY <2>4 DEF ProcessFinished, RemoveReq
  <2>5. ASSUME ProcessPrefilled \/ ProcessDecoded
        PROVE  UNCHANGED <<running_reqs, live>>
    BY <2>5 DEF ProcessPrefilled, ProcessDecoded
  <2>6. next \in DOMAIN Work.reqs
    BY <2>1, <2>2
  <2> HIDE DEF r
  <2> QED
    BY <2>2, <2>3, <2>4, <2>5, <2>6
<1>2. SameObjects
  BY ProcessedObjects
<1>3. r \notin ToSet(pending_list)
  BY <1>1 DEF PrefilledInv, Work
<1>4. QueueTypes'
  <2>1. r \in Req
    <3>1. Work.reqs \in Seq(Entry)
      BY DEF QueueTypes, Work
    <3>2. Work.reqs[next] \in Entry
      BY <1>1, <3>1
    <3> QED
      BY <3>2 DEF Entry
  <2>2. row_slots' \in Seq(Row)
    <3>1. row_slots' = row_slots \/ row_slots' = Append(row_slots, req[r].table_idx)
      BY DEF ProcessFinished, ProcessPrefilled, ProcessDecoded, FreeRow, pool_vars
    <3>2. req[r].table_idx \in Row
      BY <2>1 DEF ObjectTypes
    <3>3. row_slots \in Seq(Row)
      BY DEF QueueTypes
    <3>4. Append(row_slots, req[r].table_idx) \in Seq(Row)
      BY <3>2, <3>3, AppendProperties
    <3> HIDE DEF r
    <3> QED
      BY <3>1, <3>3, <3>4
  <2> HIDE DEF r
  <2> QED
    BY <1>1, <2>2 DEF QueueTypes
<1> HIDE DEF r
<1>5. ObjectTypes'
  BY <1>2 DEF SameObjects, ObjectTypes
<1>6. PlacesDisjoint' /\ PrefilledInv' /\ AddingInv'
  <2>1. \A s \in Req : Continuing(s)' <=> Continuing(s)
    BY <1>2 DEF SameObjects, ObjectTypes, Continuing
  <2> QED
    BY <1>1, <2>1 DEF PlacesDisjoint, PrefilledInv, AddingInv, QueueTypes
<1>7. BatchInv'
  BY <1>1 DEF BatchInv
<1>8. HeadIsChunked'
  <2>1. \A s \in Req : Continuing(s)' <=> Continuing(s)
    BY <1>2 DEF SameObjects, ObjectTypes, Continuing
  <2>2. \A i \in DOMAIN pending_list : pending_list[i] \in Req /\ pending_list[i] # r
    BY <1>3 DEF ToSet, QueueTypes
  <2> QED
    BY <1>1, <2>1, <2>2 DEF HeadIsChunked, Admitted
<1> QED
  BY <1>4, <1>5, <1>6, <1>7, <1>8

(* The iteration ends. *)
LEMMA EndStep ==
    ASSUME Inv, EndIteration
    PROVE  Inv'
<1>1. /\ phase = "process" /\ phase' = "receive" /\ next' = 1
      /\ adder'.reqs = <<>> /\ adder'.chunked_list = <<>> /\ adder'.token_budget = 0
      /\ batch' = NoBatch /\ last_data' \in {batch, NoBatch}
      /\ UNCHANGED <<to_send, pending_list, running_reqs, live, req, row_slots>>
  BY DEF EndIteration, input_vars, ghost_vars
<1>2. NoBatch.reqs = <<>>
  BY DEF NoBatch
<1> USE <1>1, <1>2 DEF Inv
<1>3. QueueTypes'
  <2>1. <<>> \in Seq(Entry) /\ <<>> \in Seq(Req)
    OBVIOUS
  <2>2. batch'.reqs \in Seq(Entry) /\ last_data'.reqs \in Seq(Entry)
    BY <2>1 DEF QueueTypes
  <2> QED
    BY <2>1, <2>2 DEF QueueTypes
<1>4. ObjectTypes' /\ PlacesDisjoint' /\ AddingInv'
  BY DEF ObjectTypes, PlacesDisjoint, AddingInv, Continuing
<1>5. BatchInv' /\ PrefilledInv'
  BY DEF BatchInv, PrefilledInv
<1>6. HeadIsChunked'
  BY DEF HeadIsChunked, Admitted, Continuing
<1> QED
  BY <1>3, <1>4, <1>5, <1>6

-----------------------------------------------------------------------------
(* The forward pass *)

(* What complete_one leaves of an object. *)
LEMMA CompletedFields ==
    ASSUME NEW q, NEW token, DOMAIN q = Fields, q.device_len \in Int
    PROVE  /\ DOMAIN Completed(q, token) = Fields
           /\ Completed(q, token).cached_len \in Int
           /\ Completed(q, token).device_len \in Int
           /\ Completed(q, token).table_idx = q.table_idx
           /\ Completed(q, token).chunked = q.chunked
BY DEF Completed, Fields

(* What runs after the batch ran before it or was in it with its whole prompt. *)
LEMMA ForwardStep ==
    ASSUME Inv, Forward
    PROVE  Inv'
<1> USE DEF Inv
<1>1. /\ phase = "forward" /\ phase' = "process"
      /\ UNCHANGED <<to_send, pending_list, adder, batch, last_data, next, live, row_slots>>
  BY DEF Forward, input_vars, pool_vars
<1>2. PICK done \in [Req -> {req'[s] : s \in Req}] :
         /\ req' = done
         /\ \A s \in Req : /\ DOMAIN done[s] = Fields
                           /\ done[s].cached_len \in Int /\ done[s].device_len \in Int
                           /\ done[s].table_idx = req[s].table_idx
                           /\ done[s].chunked = req[s].chunked
         /\ running_reqs' = {s \in running_reqs \cup BatchUids : CanDecode(done[s])}
  <2>1. PICK token : 
           LET done == [s \in Req |->
                         IF s \notin BatchUids THEN req[s]
                         ELSE Completed(req[s], IF req[s].chunked THEN Eos ELSE token[s])]
           IN  /\ req' = done
               /\ running_reqs' = {s \in running_reqs \cup BatchUids : CanDecode(done[s])}
    BY DEF Forward
  <2> DEFINE done == [s \in Req |->
                       IF s \notin BatchUids THEN req[s]
                       ELSE Completed(req[s], IF req[s].chunked THEN Eos ELSE token[s])]
  <2>2. \A s \in Req : /\ DOMAIN done[s] = Fields
                       /\ done[s].cached_len \in Int /\ done[s].device_len \in Int
                       /\ done[s].table_idx = req[s].table_idx
                       /\ done[s].chunked = req[s].chunked
    <3> TAKE s \in Req
    <3>1. /\ DOMAIN req[s] = Fields
          /\ req[s].cached_len \in Int /\ req[s].device_len \in Int
      BY DEF ObjectTypes
    <3> QED
      BY <3>1, CompletedFields
  <2>3. req' = done /\ running_reqs' = {s \in running_reqs \cup BatchUids : CanDecode(done[s])}
    BY <2>1
  <2>4. done \in [Req -> {done[s] : s \in Req}]
    OBVIOUS
  <2> HIDE DEF done
  <2> QED
    BY <2>2, <2>3, <2>4
<1>3. \A s \in Req : Continuing(s)' <=> Continuing(s)
  BY <1>2 DEF Continuing
<1>4. \A s \in BatchUids :
         s \in Req /\ s \in live /\ (~Continuing(s) => s \notin to_send \cup ToSet(pending_list))
  BY <1>1 DEF BatchUids, BatchInv, PrefilledInv, QueueTypes, Entry
<1>5. \A s \in running_reqs' : /\ s \in running_reqs \cup BatchUids
                              /\ s \in Req /\ s \in live /\ ~Continuing(s)
  BY <1>2, <1>4 DEF CanDecode, Continuing, QueueTypes, PlacesDisjoint
<1>6. QueueTypes'
  BY <1>1, <1>5 DEF QueueTypes
<1>7. ObjectTypes'
  BY <1>2 DEF ObjectTypes
<1>8. PlacesDisjoint'
  <2>1. \A i \in DOMAIN pending_list :
           pending_list[i] \in ToSet(pending_list) /\ pending_list[i] \notin running_reqs'
    BY <1>4, <1>5 DEF ToSet, PlacesDisjoint
  <2> QED
    BY <1>1, <1>3, <1>5, <2>1 DEF PlacesDisjoint, QueueTypes
<1>9. AddingInv' /\ BatchInv' /\ PrefilledInv'
  BY <1>1 DEF AddingInv, BatchInv, PrefilledInv
<1>10. HeadIsChunked'
  BY <1>1, <1>3 DEF HeadIsChunked, Admitted, QueueTypes
<1> QED
  BY <1>6, <1>7, <1>8, <1>9, <1>10

-----------------------------------------------------------------------------
(* Choosing a batch *)

(* A decode batch is everything that runs, once each. *)
LEMMA DecodeStep ==
    ASSUME Inv, ScheduleDecode
    PROVE  Inv'
<1> USE DEF Inv
<1>1. /\ phase = "admit" /\ phase' = "allocate" /\ adder.reqs = <<>>
      /\ UNCHANGED <<to_send, pending_list, running_reqs, live, req, adder, last_data, next,
                    row_slots>>
  BY DEF ScheduleDecode, input_vars, queue_vars, pool_vars, ghost_vars
<1>2. IsFiniteSet(running_reqs) /\ Cardinality(running_reqs) \in Nat
  BY SchedulerAssumptions, FS_Subset, FS_CardinalityType DEF QueueTypes
<1>3. PICK order \in [1..Cardinality(running_reqs) -> running_reqs] :
         /\ \A i, j \in DOMAIN order : i < j => order[i] < order[j]
         /\ batch' = [phase |-> "decode",
                      reqs |-> [i \in DOMAIN order |-> [uid |-> order[i], chunked |-> FALSE]]]
  BY DEF ScheduleDecode
<1>4. /\ DOMAIN order = 1..Cardinality(running_reqs)
      /\ \A i \in DOMAIN order : order[i] \in running_reqs /\ order[i] \in Req
  BY DEF QueueTypes
<1>5. /\ DOMAIN batch'.reqs = DOMAIN order
      /\ \A i \in DOMAIN order : /\ batch'.reqs[i] \in Entry
                                /\ batch'.reqs[i].uid = order[i]
                                /\ ~batch'.reqs[i].chunked
  <2> DEFINE R == [i \in DOMAIN order |-> [uid |-> order[i], chunked |-> FALSE]]
  <2>1. batch'.reqs = R
    BY <1>3
  <2>2. /\ DOMAIN R = DOMAIN order
        /\ \A i \in DOMAIN order : R[i] \in Entry /\ R[i].uid = order[i] /\ ~R[i].chunked
    BY <1>4 DEF Entry
  <2> QED
    BY <2>1, <2>2
<1>6. QueueTypes'
  <2>1. batch'.reqs \in Seq(Entry)
    <3>1. batch'.reqs = [i \in DOMAIN order |-> batch'.reqs[i]]
      BY <1>3
    <3>2. batch'.reqs \in [1..Cardinality(running_reqs) -> Entry]
      BY <1>4, <1>5, <3>1
    <3> QED
      BY <1>2, <3>2, FunctionIsSeq
  <2> QED
    BY <1>1, <2>1 DEF QueueTypes
<1>7. ObjectTypes' /\ PlacesDisjoint' /\ AddingInv'
  BY <1>1 DEF ObjectTypes, PlacesDisjoint, AddingInv, Continuing
<1>8. BatchInv'
  <2>1. \A i, j \in DOMAIN order : order[i] = order[j] => i = j
    <3> SUFFICES ASSUME NEW i \in DOMAIN order, NEW j \in DOMAIN order, order[i] = order[j]
                 PROVE  i = j
      OBVIOUS
    <3>1. i \in Int /\ j \in Int
      BY <1>2, <1>4
    <3>2. order[i] \in Nat /\ order[j] \in Nat
      BY <1>4, SchedulerAssumptions
    <3>3. ~(i < j) /\ ~(j < i)
      BY <1>3, <3>2
    <3> QED
      BY <3>1, <3>3
  <2>2. \A i \in DOMAIN order : order[i] \in live /\ ~Continuing(order[i])
    BY <1>4 DEF PlacesDisjoint
  <2>3. (\A i \in DOMAIN batch.reqs :
            /\ batch.reqs[i].uid \in live
            /\ batch.reqs[i].chunked <=> Continuing(batch.reqs[i].uid))'
    BY <1>1, <1>5, <2>2 DEF Continuing
  <2>4. \A i, j \in DOMAIN batch'.reqs : batch'.reqs[i].uid = batch'.reqs[j].uid => i = j
    BY <1>5, <2>1
  <2>5. next' = 1 /\ phase' = "allocate"
    BY <1>1 DEF BatchInv
  <2> QED
    BY <2>3, <2>4, <2>5 DEF BatchInv
<1>9. PrefilledInv'
  <2>1. \A r \in running_reqs : r \notin to_send \cup ToSet(pending_list)
    BY DEF PlacesDisjoint, ToSet
  <2> QED
    BY <1>1, <1>4, <1>5, <2>1 DEF PrefilledInv
<1>10. HeadIsChunked'
  <2>1. Admitted = 0 /\ Admitted' = 0
    BY <1>1 DEF Admitted
  <2> QED
    BY <1>1, <2>1 DEF HeadIsChunked, Continuing
<1> QED
  BY <1>6, <1>7, <1>8, <1>9, <1>10

(* What is left pending begins with the request whose prompt was cut, if    *)
(* any, and else with the first that was not admitted.                      *)
LEMMA StillPendingTail ==
    ASSUME Inv, phase = "admit"
    PROVE  \E m \in {Len(adder.reqs), Len(adder.reqs) + 1} :
              /\ m \in 1..(Len(pending_list) + 1)
              /\ StillPending \in Seq(Req)
              /\ Len(StillPending) = Len(pending_list) + 1 - m
              /\ \A i \in 1..Len(StillPending) : StillPending[i] = pending_list[i + m - 1]
              /\ \A i \in DOMAIN adder.reqs : ~adder.reqs[i].chunked => i < m
              /\ m = Len(adder.reqs) => Continuing(pending_list[m]) /\ pending_list[m] \in live
<1> DEFINE n == Len(adder.reqs)
<1> USE DEF Inv
<1>1. /\ n \in Nat /\ Len(pending_list) \in Nat /\ n <= Len(pending_list)
      /\ pending_list \in Seq(Req) /\ DOMAIN adder.reqs = 1..n
  BY DEF QueueTypes, AddingInv
<1>2. /\ Unscheduled \in Seq(Req)
      /\ Len(Unscheduled) = Len(pending_list) - n
      /\ \A i \in 1..Len(Unscheduled) : Unscheduled[i] = pending_list[i + n]
  BY <1>1, TailOfSeq DEF Unscheduled
<1>3. CASE /\ adder.chunked_list = <<>>
           /\ \A i \in DOMAIN adder.reqs : ~adder.reqs[i].chunked
  <2>1. StillPending = Unscheduled
    BY <1>2, <1>3 DEF StillPending
  <2> WITNESS n + 1 \in {n, n + 1}
  <2> QED
    BY <1>1, <1>2, <2>1
<1>4. CASE /\ adder.reqs # <<>>
           /\ adder.chunked_list = <<pending_list[n]>>
           /\ \A i \in DOMAIN adder.reqs : adder.reqs[i].chunked <=> i = n
  <2>1. n >= 1 /\ n \in DOMAIN adder.reqs
    BY <1>1, <1>4 DEF QueueTypes
  <2>2. pending_list[n] \in Req
    BY <1>1, <2>1
  <2>3. /\ StillPending \in Seq(Req)
        /\ Len(StillPending) = 1 + Len(Unscheduled)
        /\ StillPending[1] = pending_list[n]
        /\ \A i \in 1..Len(Unscheduled) : StillPending[i + 1] = Unscheduled[i]
    <3>1. StillPending = <<pending_list[n]>> \o Unscheduled
      BY <1>4 DEF StillPending
    <3>2. Unscheduled \in Seq(Req)
      BY <1>2
    <3> HIDE DEF n
    <3> QED
      BY ONLY <2>2, <3>1, <3>2, HeadOfSeq
  <2>4. \A i \in 1..Len(StillPending) : StillPending[i] = pending_list[i + n - 1]
    <3> TAKE i \in 1..Len(StillPending)
    <3>1. Len(Unscheduled) \in Nat /\ i \in Nat /\ i >= 1 /\ i <= 1 + Len(Unscheduled)
      BY <1>2, <2>3, LenProperties
    <3>2. CASE i = 1
      BY <1>1, <2>1, <2>3, <3>2
    <3>3. CASE i >= 2
      <4>1. i - 1 \in 1..Len(Unscheduled) /\ (i - 1) + 1 = i /\ (i - 1) + n = i + n - 1
        BY <1>1, <3>1, <3>3
      <4>2. StillPending[(i - 1) + 1] = Unscheduled[i - 1]
        BY <2>3, <4>1
      <4>3. Unscheduled[i - 1] = pending_list[(i - 1) + n]
        BY <1>2, <4>1
      <4> QED
        BY <4>1, <4>2, <4>3
    <3> QED
      BY <3>1, <3>2, <3>3
  <2>5. Continuing(pending_list[n]) /\ pending_list[n] \in live
    BY <1>4, <2>1 DEF AddingInv
  <2>6. \A i \in DOMAIN adder.reqs : ~adder.reqs[i].chunked => i < n
    BY <1>1, <1>4
  <2>7. n \in 1..(Len(pending_list) + 1) /\ Len(StillPending) = Len(pending_list) + 1 - n
    BY <1>1, <1>2, <2>1, <2>3
  <2> WITNESS n \in {n, n + 1}
  <2> QED
    BY <2>3, <2>4, <2>5, <2>6, <2>7
<1> QED
  BY <1>3, <1>4 DEF AddingInv

(* The admitted requests become the batch. *)
LEMMA PrefillStep ==
    ASSUME Inv, SchedulePrefill
    PROVE  Inv'
<1> USE DEF Inv
<1>1. /\ phase = "admit" /\ phase' = "allocate"
      /\ pending_list' = StillPending
      /\ batch' = [phase |-> "prefill", reqs |-> adder.reqs]
      /\ UNCHANGED <<to_send, running_reqs, live, req, adder, last_data, next, row_slots>>
  BY DEF SchedulePrefill, input_vars, pool_vars, ghost_vars
<1>2. batch'.reqs = adder.reqs
  BY <1>1
<1>3. PICK m \in {Len(adder.reqs), Len(adder.reqs) + 1} :
              /\ m \in 1..(Len(pending_list) + 1)
              /\ StillPending \in Seq(Req)
              /\ Len(StillPending) = Len(pending_list) + 1 - m
              /\ \A i \in 1..Len(StillPending) : StillPending[i] = pending_list[i + m - 1]
              /\ \A i \in DOMAIN adder.reqs : ~adder.reqs[i].chunked => i < m
              /\ m = Len(adder.reqs) => Continuing(pending_list[m]) /\ pending_list[m] \in live
  BY <1>1, StillPendingTail
<1>4. /\ DOMAIN pending_list = 1..Len(pending_list) /\ Len(pending_list) \in Nat
      /\ DOMAIN adder.reqs = 1..Len(adder.reqs) /\ Len(adder.reqs) \in Nat
      /\ Len(adder.reqs) <= Len(pending_list)
  BY <1>1 DEF QueueTypes, AddingInv
<1>5. /\ DOMAIN pending_list' = 1..(Len(pending_list) + 1 - m)
      /\ \A i \in DOMAIN pending_list' :
            /\ i + m - 1 \in DOMAIN pending_list /\ i + m - 1 >= m
            /\ pending_list'[i] = pending_list[i + m - 1]
  BY <1>1, <1>3, <1>4
<1>6. QueueTypes'
  BY <1>1, <1>2, <1>3 DEF QueueTypes
<1>7. ObjectTypes'
  BY <1>1 DEF ObjectTypes
<1>8. PlacesDisjoint'
  <2>1. IsInjective(pending_list')
    <3> SUFFICES ASSUME NEW i \in DOMAIN pending_list', NEW j \in DOMAIN pending_list',
                        pending_list'[i] = pending_list'[j]
                 PROVE  i = j
      BY DEF IsInjective
    <3>1. i + m - 1 = j + m - 1
      BY <1>5 DEF PlacesDisjoint, IsInjective
    <3> QED
      BY <1>3, <1>4, <1>5, <3>1
  <2>2. \A i \in DOMAIN pending_list' : pending_list'[i] \notin to_send \cup running_reqs
    BY <1>5 DEF PlacesDisjoint
  <2> QED
    BY <1>1, <2>1, <2>2 DEF PlacesDisjoint, Continuing
<1>9. AddingInv'
  BY <1>1 DEF AddingInv
<1>10. BatchInv'
  <2>1. \A i \in DOMAIN adder.reqs :
           /\ adder.reqs[i].uid = pending_list[i]
           /\ adder.reqs[i].uid \in live
           /\ adder.reqs[i].chunked <=> Continuing(adder.reqs[i].uid)
    BY <1>1 DEF AddingInv
  <2>2. \A i, j \in DOMAIN adder.reqs : adder.reqs[i].uid = adder.reqs[j].uid => i = j
    BY <1>4, <2>1 DEF PlacesDisjoint, IsInjective
  <2>3. next' = 1 /\ phase' = "allocate"
    BY <1>1 DEF BatchInv
  <2> QED
    BY <1>1, <1>2, <2>1, <2>2, <2>3 DEF BatchInv, Continuing
<1>11. PrefilledInv'
  <2>1. ToSet(pending_list') \subseteq ToSet(pending_list)
    BY <1>5 DEF ToSet
  <2>2. ASSUME NEW i \in DOMAIN adder.reqs, ~adder.reqs[i].chunked
        PROVE  adder.reqs[i].uid \notin to_send \cup ToSet(pending_list')
    <3>1. i < m /\ i \in DOMAIN pending_list /\ adder.reqs[i].uid = pending_list[i]
      BY <1>1, <1>3, <1>4, <2>2 DEF AddingInv
    <3>2. \A j \in DOMAIN pending_list' : pending_list'[j] # pending_list[i]
      BY <1>3, <1>4, <1>5, <3>1 DEF PlacesDisjoint, IsInjective
    <3>3. pending_list[i] \notin to_send
      BY <3>1 DEF PlacesDisjoint
    <3> QED
      BY <3>1, <3>2, <3>3 DEF ToSet
  <2>3. \A i \in DOMAIN last_data.reqs :
           ~last_data.reqs[i].chunked => last_data.reqs[i].uid \notin to_send \cup ToSet(pending_list')
    BY <2>1 DEF PrefilledInv
  <2> QED
    BY <1>1, <1>2, <2>2, <2>3 DEF PrefilledInv
<1>12. HeadIsChunked'
  <2> SUFFICES ASSUME NEW i \in DOMAIN pending_list'
               PROVE  /\ Continuing(pending_list'[i]) <=> pending_list'[i] \in live
                      /\ Continuing(pending_list'[i]) => i = 1
    BY <1>1 DEF HeadIsChunked, Continuing
  <2>1. CASE i + m - 1 > Len(adder.reqs)
    <3>1. Admitted = Len(adder.reqs)
      BY <1>1 DEF Admitted
    <3>2. /\ Continuing(pending_list'[i]) <=> pending_list'[i] \in live
          /\ Continuing(pending_list'[i]) => i + m - 1 = 1
      BY <1>5, <2>1, <3>1 DEF HeadIsChunked
    <3>3. i + m - 1 = 1 => i = 1
      BY <1>3, <1>4, <1>5
    <3> QED
      BY <3>2, <3>3
  <2>2. CASE i + m - 1 <= Len(adder.reqs)
    <3>1. i = 1 /\ m = Len(adder.reqs)
      BY <1>3, <1>4, <1>5, <2>2
    <3>2. i + m - 1 = m
      BY <1>3, <1>4, <3>1
    <3>3. pending_list'[i] = pending_list[m]
      BY <1>5, <3>2
    <3> QED
      BY <1>3, <3>1, <3>3
  <2> QED
    BY <1>3, <1>4, <1>5, <2>1, <2>2
<1> QED
  BY <1>6, <1>7, <1>8, <1>9, <1>10, <1>11, <1>12

-----------------------------------------------------------------------------
(* Admission *)

(* The smaller of two. *)
LEMMA MinOfTwo ==
    ASSUME NEW a \in Int, NEW b \in Int
    PROVE  Min({a, b}) = IF a <= b THEN a ELSE b
BY DEF Min

(* What _add_one_req does to the objects and to the adder. *)
LEMMA AddedRequest ==
    ASSUME ObjectTypes, NEW r \in Req, NEW row \in Row, NEW n \in Int, NEW h,
           adder.token_budget \in Int,
           AddOneReq(r, row, n, h)
    PROVE  /\ req' = [req EXCEPT ![r] = req'[r]]
           /\ DOMAIN req'[r] = Fields
           /\ req'[r].cached_len \in Int /\ req'[r].device_len \in Int
           /\ req'[r].table_idx = row /\ req'[r].chunked \in BOOLEAN
           /\ adder'.token_budget \in Int
           /\ adder'.reqs = Append(adder.reqs, [uid |-> r, chunked |-> req'[r].chunked])
           /\ req'[r].chunked =>
                 adder'.chunked_list = Append(adder.chunked_list, r) /\ adder'.token_budget = 0
           /\ ~req'[r].chunked => adder'.chunked_list = adder.chunked_list
<1> DEFINE remain == Len(Prompt[r]) - n
           size == ChunkSize(remain)
           q == [ids |-> Prompt[r], host_len |-> n + size, cached_len |-> n,
                 device_len |-> n + size, max_device_len |-> n + size + OutputLen(r),
                 table_idx |-> row, handle_len |-> h, chunked |-> size < remain]
<1>1. remain \in Int
  BY SchedulerAssumptions
<1>2. /\ size \in Int
      /\ size < remain => size = adder.token_budget
  <2> HIDE DEF remain
  <2> QED
    BY <1>1, MinOfTwo DEF ChunkSize
<1>3. /\ req' = [req EXCEPT ![r] = q]
      /\ adder'.token_budget = adder.token_budget - size
      /\ adder'.reqs = Append(adder.reqs, [uid |-> r, chunked |-> size < remain])
      /\ adder'.chunked_list = IF size < remain THEN Append(adder.chunked_list, r)
                               ELSE adder.chunked_list
  BY DEF AddOneReq
<1>4. req'[r] = q
  BY <1>3 DEF ObjectTypes
<1>5. /\ DOMAIN q = Fields /\ q.cached_len = n /\ q.device_len = n + size
      /\ q.table_idx = row /\ q.chunked = (size < remain)
  BY DEF Fields
<1> HIDE DEF q, size, remain
<1>6. req' = [req EXCEPT ![r] = req'[r]]
  BY <1>3, <1>4
<1>7. req'[r].chunked = (size < remain) /\ req'[r].chunked \in BOOLEAN
  BY <1>4, <1>5
<1>8. adder'.reqs = Append(adder.reqs, [uid |-> r, chunked |-> req'[r].chunked])
  BY <1>3, <1>7
<1>9. size < remain => adder'.token_budget = 0
  BY <1>2, <1>3
<1>10. /\ adder'.token_budget \in Int
       /\ req'[r].cached_len \in Int /\ req'[r].device_len \in Int
  BY <1>2, <1>3, <1>4, <1>5
<1> QED
  BY <1>3, <1>4, <1>5, <1>6, <1>7, <1>8, <1>9, <1>10

(* A match has a length. *)
LEMMA MatchLength ==
    ASSUME NEW r \in Req
    PROVE  Len(MatchReq(cache, r)) \in Nat
<1> DEFINE ids == SubSeq(Prompt[r], 1, Len(Prompt[r]) - 1)
<1>1. ids \in Seq(Nat)
  BY SchedulerAssumptions
<1>2. MatchReq(cache, r) \in PagePrefixes(ids) \cup {<<>>}
  <2> HIDE DEF ids
  <2>1. \E h \in PagePrefixes(ids) \cup {<<>>} : IsMatch(DOMAIN cache, ids, h)
    BY <1>1, MatchExists
  <2>2. Longest(cache, ids) \in PagePrefixes(ids) \cup {<<>>}
    BY <2>1 DEF Longest
  <2> QED
    BY <2>2 DEF MatchReq, ids
<1>3. \A p \in PagePrefixes(ids) : Len(p) \in Nat
  <2> TAKE p \in PagePrefixes(ids)
  <2>1. PICK n \in 1..(Len(ids) \div PageSize) : p = SubSeq(ids, 1, PageSize * n)
    BY DEF PagePrefixes
  <2>2. Len(p) = PageSize * n /\ n \in Nat
    BY <1>1, <2>1, PagePrefixOfPages, PageArithmetic
  <2> QED
    BY <2>2, PageArithmetic
<1> QED
  BY <1>2, <1>3

(* An admission in terms of AddOneReq: the candidate holds a row after it. *)
LEMMA AdmittedRequest ==
    ASSUME Inv, AdmitChunk \/ AdmitNew
    PROVE  /\ phase = "admit" /\ adder.token_budget > 0
           /\ Len(adder.reqs) + 1 \in DOMAIN pending_list
           /\ live' = live \cup {Candidate}
           /\ UNCHANGED <<phase, to_send, pending_list, running_reqs, batch, last_data, next>>
           /\ row_slots' \in Seq(Row)
           /\ \E row \in Row, n \in Int : \E h : AddOneReq(Candidate, row, n, h)
<1> USE DEF Inv
<1>1. /\ phase = "admit" /\ MoreCandidates
      /\ UNCHANGED <<phase, to_send, pending_list, running_reqs, batch, last_data, next>>
  BY DEF AdmitChunk, AdmitNew, input_vars
<1>2. /\ adder.token_budget > 0
      /\ Len(adder.reqs) + 1 \in DOMAIN pending_list
      /\ Len(adder.reqs) + 1 > Admitted
  BY <1>1 DEF MoreCandidates, QueueTypes, Admitted
<1>3. Candidate \in Req
  BY <1>2 DEF Candidate, QueueTypes
<1>4. CASE AdmitChunk
  <2>1. /\ Continuing(Candidate)
        /\ AddOneReq(Candidate, req[Candidate].table_idx, req[Candidate].cached_len,
                     req[Candidate].handle_len)
        /\ live' = live /\ row_slots' = row_slots
    BY <1>4 DEF AdmitChunk, ghost_vars, pool_vars
  <2>2. Candidate \in live
    BY <1>2, <2>1 DEF HeadIsChunked, Candidate
  <2>3. req[Candidate].table_idx \in Row /\ req[Candidate].cached_len \in Int
    BY <1>3 DEF ObjectTypes
  <2> QED
    BY <1>1, <1>2, <2>1, <2>2, <2>3 DEF QueueTypes
<1>5. CASE AdmitNew
  <2>1. /\ CanAllocate(Candidate)
        /\ AddOneReq(Candidate, Last(row_slots), Len(MatchReq(cache, Candidate)),
                     Len(MatchReq(cache, Candidate)))
        /\ live' = live \cup {Candidate} /\ row_slots' = Front(row_slots)
    BY <1>5 DEF AdmitNew
  <2>2. row_slots # <<>> /\ row_slots \in Seq(Row)
    BY <2>1 DEF CanAllocate, QueueTypes
  <2>3. Last(row_slots) \in Row /\ Front(row_slots) \in Seq(Row)
    BY <2>2 DEF Last, Front
  <2>4. Len(MatchReq(cache, Candidate)) \in Int
    BY <1>3, MatchLength
  <2> QED
    BY <1>1, <1>2, <2>1, <2>3, <2>4
<1> QED
  BY <1>4, <1>5

(* After a cut the budget is used up, so what was admitted so far was whole. *)
LEMMA AdmitStep ==
    ASSUME Inv, AdmitChunk \/ AdmitNew
    PROVE  Inv'
<1> USE DEF Inv
<1> DEFINE n == Len(adder.reqs)
           r == Candidate
           new == [uid |-> r, chunked |-> req'[r].chunked]
<1>1. /\ phase = "admit" /\ adder.token_budget > 0
      /\ n + 1 \in DOMAIN pending_list
      /\ live' = live \cup {r}
      /\ UNCHANGED <<phase, to_send, pending_list, running_reqs, batch, last_data, next>>
      /\ row_slots' \in Seq(Row)
      /\ \E row \in Row, k \in Int : \E h : AddOneReq(r, row, k, h)
  BY AdmittedRequest
<1>2. r = pending_list[n + 1] /\ r \in Req
  BY <1>1 DEF Candidate, QueueTypes
<1>3. /\ DOMAIN req = Req /\ req' = [req EXCEPT ![r] = req'[r]]
      /\ DOMAIN req'[r] = Fields
      /\ req'[r].cached_len \in Int /\ req'[r].device_len \in Int
      /\ req'[r].table_idx \in Row /\ req'[r].chunked \in BOOLEAN
      /\ adder'.token_budget \in Int
      /\ adder'.reqs = Append(adder.reqs, new)
      /\ req'[r].chunked =>
            adder'.chunked_list = Append(adder.chunked_list, r) /\ adder'.token_budget = 0
      /\ ~req'[r].chunked => adder'.chunked_list = adder.chunked_list
  <2>1. PICK row \in Row, k \in Int : \E h : AddOneReq(r, row, k, h)
    BY <1>1
  <2>2. adder.token_budget \in Int /\ ObjectTypes /\ DOMAIN req = Req
    BY DEF QueueTypes, ObjectTypes
  <2> HIDE DEF r
  <2> QED
    BY <1>2, <2>1, <2>2, AddedRequest
<1>4. /\ n \in Nat /\ DOMAIN adder.reqs = 1..n
      /\ n <= Len(pending_list) /\ DOMAIN pending_list = 1..Len(pending_list)
      /\ Len(pending_list) \in Nat
      /\ adder.chunked_list = <<>>
      /\ \A i \in 1..n : ~adder.reqs[i].chunked
  <2>1. adder.reqs \in Seq(Entry) /\ pending_list \in Seq(Req) /\ adder.token_budget \in Int
    BY DEF QueueTypes
  <2>2. /\ n \in Nat /\ DOMAIN adder.reqs = 1..n
        /\ DOMAIN pending_list = 1..Len(pending_list) /\ Len(pending_list) \in Nat
    BY <2>1, LenProperties
  <2>3. /\ n <= Len(pending_list)
        /\ adder.chunked_list = <<>>
        /\ \A i \in DOMAIN adder.reqs : ~adder.reqs[i].chunked
    BY <1>1, <2>1 DEF AddingInv
  <2> QED
    BY <2>2, <2>3
<1> HIDE DEF r
<1>5. /\ new \in Entry
      /\ Len(adder'.reqs) = n + 1 /\ DOMAIN adder'.reqs = 1..(n + 1)
      /\ adder'.reqs \in Seq(Entry)
      /\ \A i \in 1..n : adder'.reqs[i] = adder.reqs[i]
      /\ adder'.reqs[n + 1] = new
  <2>1. new \in Entry
    BY <1>2, <1>3 DEF Entry
  <2>2. adder.reqs \in Seq(Entry)
    BY DEF QueueTypes
  <2> HIDE DEF new
  <2> QED
    BY <1>3, <1>4, <2>1, <2>2, AppendProperties
<1>6. \A s \in Req : s # r => req'[s] = req[s]
  BY <1>3
<1>7. \A i \in DOMAIN pending_list : pending_list[i] \in Req /\ (pending_list[i] = r => i = n + 1)
  BY <1>1, <1>2 DEF PlacesDisjoint, IsInjective, QueueTypes
<1>8. r \notin to_send \cup running_reqs
  BY <1>1, <1>2 DEF PlacesDisjoint
<1>9. QueueTypes'
  <2>1. adder'.chunked_list \in Seq(Req)
    <3>1. adder'.chunked_list = <<>> \/ adder'.chunked_list = <<r>>
      BY <1>3, <1>4
    <3>2. r \in Req
      BY <1>2
    <3>3. <<>> \in Seq(Req) /\ <<r>> \in Seq(Req)
      BY ONLY <3>2
    <3> QED
      BY <3>1, <3>3
  <2> QED
    BY <1>1, <1>2, <1>3, <1>5, <2>1 DEF QueueTypes
<1>10. ObjectTypes'
  BY <1>3, <1>6 DEF ObjectTypes
<1>11. PlacesDisjoint'
  <2>1. \A s \in running_reqs \cup to_send : Continuing(s)' <=> Continuing(s)
    BY <1>6, <1>8 DEF Continuing, QueueTypes
  <2> QED
    BY <1>1, <1>8, <2>1 DEF PlacesDisjoint
<1>12. HeadIsChunked'
  <2> SUFFICES ASSUME NEW i \in DOMAIN pending_list, i > n + 1
               PROVE  /\ Continuing(pending_list[i])' <=> pending_list[i] \in live'
                      /\ Continuing(pending_list[i])' => i = 1
    BY <1>1, <1>5 DEF HeadIsChunked, Admitted, Continuing
  <2>1. pending_list[i] # r /\ pending_list[i] \in Req
    BY <1>4, <1>7
  <2>2. Continuing(pending_list[i])' <=> Continuing(pending_list[i])
    BY <1>1, <1>6, <2>1 DEF Continuing
  <2>3. i > Admitted
    BY <1>1, <1>4 DEF Admitted
  <2> QED
    BY <1>1, <2>1, <2>2, <2>3 DEF HeadIsChunked
<1>13. AddingInv'
  <2>1. \A i \in 1..n : /\ adder'.reqs[i].uid = pending_list[i]
                        /\ pending_list[i] \in live
                        /\ ~adder'.reqs[i].chunked
                        /\ ~Continuing(pending_list[i])'
    <3> TAKE i \in 1..n
    <3>1. /\ adder.reqs[i].uid = pending_list[i] /\ pending_list[i] \in live
          /\ ~Continuing(pending_list[i])
      BY <1>1, <1>4 DEF AddingInv
    <3>2. pending_list[i] \in Req /\ pending_list[i] # r
      BY <1>4, <1>7
    <3> QED
      BY <1>1, <1>4, <1>5, <1>6, <3>1, <3>2 DEF Continuing
  <2>2. /\ adder'.reqs[n + 1].uid = pending_list[n + 1]
        /\ pending_list[n + 1] \in live'
        /\ adder'.reqs[n + 1].chunked <=> req'[pending_list[n + 1]].chunked
        /\ adder'.reqs[n + 1].chunked <=> req'[r].chunked
    <3>1. new.uid = r /\ (new.chunked <=> req'[r].chunked)
      OBVIOUS
    <3> QED
      BY <1>1, <1>2, <1>5, <3>1
  <2>3. (\A i \in DOMAIN adder.reqs :
              /\ adder.reqs[i].uid = pending_list[i]
              /\ pending_list[i] \in live
              /\ adder.reqs[i].chunked <=> Continuing(pending_list[i]))'
    <3>1. \A i \in 1..n : /\ adder'.reqs[i].uid = pending_list'[i]
                          /\ pending_list'[i] \in live'
                          /\ adder'.reqs[i].chunked <=> req'[pending_list'[i]].chunked
      BY <1>1, <2>1 DEF Continuing
    <3>2. \A i \in 1..(n + 1) : i \in 1..n \/ i = n + 1
      BY <1>4
    <3>3. \A i \in 1..(n + 1) : /\ adder'.reqs[i].uid = pending_list'[i]
                                /\ pending_list'[i] \in live'
                                /\ adder'.reqs[i].chunked <=> req'[pending_list'[i]].chunked
      BY <1>1, <2>2, <3>1, <3>2
    <3> QED
      BY <1>5, <3>3 DEF Continuing
  <2>4. ASSUME req'[r].chunked
        PROVE  /\ adder'.token_budget <= 0 /\ adder'.reqs # <<>>
               /\ adder'.chunked_list = <<pending_list'[Len(adder'.reqs)]>>
               /\ \A i \in DOMAIN adder'.reqs : adder'.reqs[i].chunked <=> i = Len(adder'.reqs)
    <3>1. adder'.chunked_list = <<r>>
      BY <1>3, <1>4, <2>4
    <3>2. pending_list'[Len(adder'.reqs)] = r
      BY <1>1, <1>2, <1>5
    <3>3. \A i \in 1..(n + 1) : adder'.reqs[i].chunked <=> i = n + 1
      BY <1>4, <2>1, <2>2, <2>4
    <3>4. adder'.reqs # <<>>
      BY <1>4, <1>5
    <3>5. adder'.token_budget <= 0
      BY <1>3, <2>4
    <3> QED
      BY <1>5, <3>1, <3>2, <3>3, <3>4, <3>5
  <2>5. ASSUME ~req'[r].chunked
        PROVE  /\ adder'.chunked_list = <<>>
               /\ \A i \in DOMAIN adder'.reqs : ~adder'.reqs[i].chunked
    BY <1>3, <1>4, <1>5, <2>1, <2>2, <2>5
  <2>6. Len(adder'.reqs) <= Len(pending_list')
    BY <1>1, <1>4, <1>5
  <2> QED
    BY <2>3, <2>4, <2>5, <2>6 DEF AddingInv
<1>14. BatchInv' /\ PrefilledInv'
  BY <1>1 DEF BatchInv, PrefilledInv
<1> QED
  BY <1>9, <1>10, <1>11, <1>12, <1>13, <1>14

-----------------------------------------------------------------------------
(* Messages *)

(* A request that is sent is new; it waits from then on or is dropped. *)
LEMMA ReceiveUserStep ==
    ASSUME Inv, NEW r \in Req, ReceiveUser(r)
    PROVE  Inv'
<1> USE DEF Inv
<1>1. /\ phase = "receive" /\ r \in to_send /\ to_send' = to_send \ {r}
      /\ pending_list' = pending_list \/ pending_list' = Append(pending_list, r)
      /\ UNCHANGED <<phase, running_reqs, live, req, adder, batch, last_data, next, row_slots>>
  BY DEF ReceiveUser, loop_vars, pool_vars, ghost_vars
<1>2. /\ pending_list \in Seq(Req) /\ Len(pending_list) \in Nat
      /\ DOMAIN pending_list = 1..Len(pending_list)
  BY LenProperties DEF QueueTypes
<1>3. /\ r \notin live /\ r \notin running_reqs /\ ~Continuing(r)
      /\ \A i \in DOMAIN pending_list : pending_list[i] # r
  BY <1>1 DEF PlacesDisjoint
<1>4. /\ pending_list' \in Seq(Req)
      /\ DOMAIN pending_list \subseteq DOMAIN pending_list'
      /\ \A i \in DOMAIN pending_list : pending_list'[i] = pending_list[i]
      /\ \A i \in DOMAIN pending_list' \ DOMAIN pending_list :
            i = Len(pending_list) + 1 /\ pending_list'[i] = r
  <2>1. Append(pending_list, r) \in Seq(Req) /\ Len(Append(pending_list, r)) = Len(pending_list) + 1
    BY <1>2, AppendProperties
  <2> QED
    BY <1>1, <1>2, <2>1, AppendProperties
<1>5. QueueTypes' /\ ObjectTypes'
  BY <1>1, <1>4 DEF QueueTypes, ObjectTypes
<1>6. PlacesDisjoint'
  <2>1. IsInjective(pending_list')
    BY <1>3, <1>4 DEF PlacesDisjoint, IsInjective
  <2>2. \A i \in DOMAIN pending_list' : pending_list'[i] \notin to_send' \cup running_reqs'
    BY <1>1, <1>3, <1>4 DEF PlacesDisjoint
  <2> QED
    BY <1>1, <2>1, <2>2 DEF PlacesDisjoint, Continuing
<1>7. HeadIsChunked'
  BY <1>1, <1>2, <1>3, <1>4 DEF HeadIsChunked, Admitted, Continuing
<1>8. AddingInv' /\ BatchInv'
  BY <1>1 DEF AddingInv, BatchInv, Continuing
<1>9. PrefilledInv'
  <2>1. ToSet(pending_list') \subseteq ToSet(pending_list) \cup {r}
    BY <1>4 DEF ToSet
  <2> QED
    BY <1>1, <2>1 DEF PrefilledInv
<1> QED
  BY <1>5, <1>6, <1>7, <1>8, <1>9

(* Removing an element of a sequence that holds it once. *)
LEMMA RemovedElement ==
    ASSUME NEW S, NEW s \in Seq(S), NEW x, IsInjective(s), x \in ToSet(s),
           NEW t, t = RemoveFirst(s, x)
    PROVE  \E k \in 1..Len(s) :
              /\ s[k] = x
              /\ t \in Seq(S)
              /\ Len(t) = Len(s) - 1
              /\ \A i \in 1..Len(t) : t[i] = IF i < k THEN s[i] ELSE s[i + 1]
<1>1. Len(s) \in Nat /\ DOMAIN s = 1..Len(s) /\ \A i \in 1..Len(s) : s[i] \in S
  BY LenProperties, ElementOfSeq
<1>2. PICK k \in 1..Len(s) : s[k] = x
  BY <1>1 DEF ToSet
<1>3. {i \in 1..Len(s) : s[i] = x} = {k}
  BY <1>1, <1>2 DEF IsInjective
<1>4. Min({k}) = k
  BY <1>2, MinOfTwo
<1>5. RemoveFirst(s, x) = SubSeq(s, 1, k - 1) \o SubSeq(s, k + 1, Len(s))
  BY <1>2, <1>3, <1>4 DEF RemoveFirst, RemoveAt, SelectInSeq
<1> DEFINE a == SubSeq(s, 1, k - 1)
           b == SubSeq(s, k + 1, Len(s))
<1>6. a \in Seq(S) /\ Len(a) = k - 1 /\ \A i \in 1..(k - 1) : a[i] = s[i]
  BY <1>1, <1>2, SubSeqProperties
<1>7. b \in Seq(S) /\ Len(b) = Len(s) - k /\ \A i \in 1..(Len(s) - k) : b[i] = s[i + k]
  <2>1. k \in Nat /\ k <= Len(s)
    BY <1>1, <1>2
  <2>2. /\ SubSeq(s, k + 1, Len(s)) \in Seq(S)
        /\ Len(SubSeq(s, k + 1, Len(s))) = Len(s) - k
        /\ \A i \in 1..Len(SubSeq(s, k + 1, Len(s))) : SubSeq(s, k + 1, Len(s))[i] = s[i + k]
    BY <2>1, TailOfSeq
  <2> QED
    BY <2>2
<1> HIDE DEF a, b
<1>8. /\ a \o b \in Seq(S)
      /\ Len(a \o b) = Len(a) + Len(b)
      /\ \A i \in 1..(Len(a) + Len(b)) : (a \o b)[i] = IF i <= Len(a) THEN a[i] ELSE b[i - Len(a)]
  BY <1>6, <1>7, ConcatProperties
<1>9. \A i \in 1..(Len(s) - 1) : (a \o b)[i] = IF i < k THEN s[i] ELSE s[i + 1]
  <2> TAKE i \in 1..(Len(s) - 1)
  <2>1. CASE i < k
    <3>1. i \in 1..(k - 1) /\ i \in 1..(Len(a) + Len(b)) /\ i <= Len(a)
      BY <1>1, <1>2, <1>6, <1>7, <2>1
    <3>2. (a \o b)[i] = a[i]
      BY <1>8, <3>1
    <3> QED
      BY <1>6, <2>1, <3>1, <3>2
  <2>2. CASE i >= k
    <3>1. i - (k - 1) \in 1..(Len(s) - k) /\ (i - (k - 1)) + k = i + 1
      BY <1>1, <1>2, <2>2
    <3>2. (a \o b)[i] = b[i - (k - 1)]
      BY <1>1, <1>2, <1>6, <1>7, <1>8, <2>2
    <3>3. b[i - (k - 1)] = s[(i - (k - 1)) + k]
      BY <1>7, <3>1
    <3>4. ~(i < k)
      BY <1>1, <1>2, <2>2
    <3>5. (a \o b)[i] = s[i + 1]
      BY ONLY <3>1, <3>2, <3>3
    <3> QED
      BY <3>4, <3>5
  <2>3. i < k \/ i >= k
    BY <1>1, <1>2
  <2> QED
    BY <2>1, <2>2, <2>3
<1>10. t = a \o b
  BY <1>5 DEF a, b
<1>11. Len(a \o b) = Len(s) - 1
  BY <1>1, <1>2, <1>6, <1>7, <1>8
<1> QED
  BY <1>2, <1>8, <1>9, <1>10, <1>11

(* An aborted request leaves its place; a row it may hold is given back with *)
(* it, unless the cache's assertion stops the loop.                          *)
LEMMA ReceiveAbortStep ==
    ASSUME Inv, NEW r \in Req, ReceiveAbort(r)
    PROVE  Inv'
<1> USE DEF Inv
<1>1. /\ phase = "receive" /\ phase' \in {"receive", "failed"} /\ r \notin to_send
      /\ pending_list' = RemoveFirst(pending_list, r)
      /\ UNCHANGED <<to_send, req, adder, batch, last_data, next>>
  BY DEF ReceiveAbort, FreeNow
<1>2. /\ pending_list \in Seq(Req) /\ IsInjective(pending_list)
      /\ DOMAIN pending_list = 1..Len(pending_list) /\ Len(pending_list) \in Nat
      /\ Contains(pending_list, r) <=> r \in ToSet(pending_list)
  BY LenProperties DEF QueueTypes, PlacesDisjoint, Contains, ToSet
<1>3. \E k \in Nat :
         /\ pending_list' \in Seq(Req)
         /\ \A i \in DOMAIN pending_list' :
               LET j == IF i < k THEN i ELSE i + 1
               IN  /\ j \in DOMAIN pending_list
                   /\ pending_list'[i] = pending_list[j]
                   /\ pending_list[j] # r
  <2>1. CASE r \in ToSet(pending_list)
    <3>1. PICK k \in 1..Len(pending_list) :
             /\ pending_list[k] = r
             /\ pending_list' \in Seq(Req)
             /\ Len(pending_list') = Len(pending_list) - 1
             /\ \A i \in 1..Len(pending_list') :
                   pending_list'[i] = IF i < k THEN pending_list[i] ELSE pending_list[i + 1]
      <4>1. ASSUME NEW t, t = RemoveFirst(pending_list, r)
            PROVE  \E k \in 1..Len(pending_list) :
                      /\ pending_list[k] = r
                      /\ t \in Seq(Req)
                      /\ Len(t) = Len(pending_list) - 1
                      /\ \A i \in 1..Len(t) :
                            t[i] = IF i < k THEN pending_list[i] ELSE pending_list[i + 1]
        <5>1. pending_list \in Seq(Req) /\ IsInjective(pending_list) /\ r \in ToSet(pending_list)
          BY <1>2, <2>1
        <5> QED
          BY ONLY <4>1, <5>1, RemovedElement
      <4> QED
        BY ONLY <1>1, <4>1
    <3>2. ASSUME NEW i \in DOMAIN pending_list'
          PROVE  LET j == IF i < k THEN i ELSE i + 1
                 IN  /\ j \in DOMAIN pending_list
                     /\ pending_list'[i] = pending_list[j]
                     /\ pending_list[j] # r
      <4>1. i \in 1..Len(pending_list') /\ i \in Int /\ k \in Int
        BY <1>2, <3>1
      <4>2. CASE i < k
        <5>1. i \in DOMAIN pending_list /\ i # k
          BY <1>2, <3>1, <4>1, <4>2
        <5>2. pending_list[i] # r
          BY <1>2, <3>1, <5>1 DEF IsInjective
        <5> QED
          BY <3>1, <4>1, <4>2, <5>1, <5>2
      <4>3. CASE ~(i < k)
        <5>1. i + 1 \in DOMAIN pending_list /\ i + 1 # k
          BY <1>2, <3>1, <4>1, <4>3
        <5>2. pending_list[i + 1] # r
          BY <1>2, <3>1, <5>1 DEF IsInjective
        <5> QED
          BY <3>1, <4>1, <4>3, <5>1, <5>2
      <4> QED
        BY <4>2, <4>3
    <3>3. k \in Nat
      BY <1>2, <3>1
    <3> QED
      BY <3>1, <3>2, <3>3
  <2>2. CASE r \notin ToSet(pending_list)
    <3>1. pending_list' = pending_list
      BY <1>1, <1>2, <2>2 DEF RemoveFirst, Contains
    <3>2. \A i \in DOMAIN pending_list : pending_list[i] # r /\ i < Len(pending_list) + 1
      BY <1>2, <2>2 DEF ToSet
    <3> WITNESS Len(pending_list) + 1 \in Nat
    <3> QED
      BY <1>2, <3>1, <3>2
  <2> QED
    BY <2>1, <2>2
<1>4. PICK k \in Nat :
         /\ pending_list' \in Seq(Req)
         /\ \A i \in DOMAIN pending_list' :
               LET j == IF i < k THEN i ELSE i + 1
               IN  /\ j \in DOMAIN pending_list
                   /\ pending_list'[i] = pending_list[j]
                   /\ pending_list[j] # r
  BY <1>3
<1>5. /\ running_reqs' = running_reqs \ {r}
      /\ \/ live' = live /\ row_slots' = row_slots
         \/ live' = live \ {r} /\ row_slots' = Append(row_slots, req[r].table_idx)
  <2>1. FreeNow(r) => \/ live' = live /\ row_slots' = row_slots
                      \/ live' = live \ {r} /\ row_slots' = Append(row_slots, req[r].table_idx)
    BY DEF FreeNow, FreeRow, pool_vars
  <2>2. \/ live' = live /\ row_slots' = row_slots
        \/ live' = live \ {r} /\ row_slots' = Append(row_slots, req[r].table_idx)
    BY <2>1 DEF ReceiveAbort, pool_vars
  <2>3. Contains(pending_list, r) => r \notin running_reqs
    BY <1>2 DEF PlacesDisjoint, ToSet
  <2>4. running_reqs' = IF Contains(pending_list, r) THEN running_reqs ELSE running_reqs \ {r}
    BY DEF ReceiveAbort, RemoveReq
  <2> QED
    BY <2>2, <2>3, <2>4
<1>6. /\ DOMAIN pending_list' = 1..Len(pending_list') /\ Len(pending_list') \in Nat
      /\ ToSet(pending_list') \subseteq ToSet(pending_list)
      /\ r \notin ToSet(pending_list')
  BY <1>4, LenProperties DEF ToSet
<1>7. QueueTypes' /\ ObjectTypes'
  <2>1. row_slots' \in Seq(Row)
    <3>1. row_slots \in Seq(Row) /\ req[r].table_idx \in Row
      BY DEF QueueTypes, ObjectTypes
    <3>2. Append(row_slots, req[r].table_idx) \in Seq(Row)
      BY <3>1, AppendProperties
    <3> QED
      BY <1>5, <3>1, <3>2
  <2> QED
    BY <1>1, <1>4, <1>5, <2>1 DEF QueueTypes, ObjectTypes
<1>8. PlacesDisjoint'
  <2>1. IsInjective(pending_list')
    <3> SUFFICES ASSUME NEW i \in DOMAIN pending_list', NEW j \in DOMAIN pending_list',
                        pending_list'[i] = pending_list'[j]
                 PROVE  i = j
      BY DEF IsInjective
    <3>1. (IF i < k THEN i ELSE i + 1) = (IF j < k THEN j ELSE j + 1)
      BY <1>2, <1>4 DEF IsInjective
    <3> QED
      BY <1>6, <3>1
  <2>2. \A i \in DOMAIN pending_list' : pending_list'[i] \notin to_send \cup running_reqs
    BY <1>4 DEF PlacesDisjoint
  <2> QED
    BY <1>1, <1>5, <2>1, <2>2 DEF PlacesDisjoint, Continuing
<1>9. HeadIsChunked'
  <2> SUFFICES ASSUME NEW i \in DOMAIN pending_list'
               PROVE  /\ Continuing(pending_list'[i]) <=> pending_list'[i] \in live'
                      /\ Continuing(pending_list'[i]) => i = 1
    BY <1>1 DEF HeadIsChunked, Continuing
  <2> DEFINE j == IF i < k THEN i ELSE i + 1
  <2>1. j \in DOMAIN pending_list /\ pending_list'[i] = pending_list[j] /\ pending_list[j] # r
    BY <1>4
  <2>2. j > Admitted /\ (j = 1 => i = 1)
    BY <1>1, <1>2, <1>6, <2>1 DEF Admitted
  <2> HIDE DEF j
  <2> QED
    BY <1>5, <2>1, <2>2 DEF HeadIsChunked
<1>10. AddingInv' /\ BatchInv'
  BY <1>1 DEF AddingInv, BatchInv, Continuing
<1>11. PrefilledInv'
  BY <1>1, <1>6 DEF PrefilledInv
<1> QED
  BY <1>7, <1>8, <1>9, <1>10, <1>11

(* Every step keeps Inv. *)
LEMMA NextInv ==
    ASSUME Inv, [Next]_vars
    PROVE  Inv'
<1>1. CASE UNCHANGED vars
  BY <1>1 DEF vars, loop_vars, input_vars, queue_vars, pool_vars, ghost_vars, Inv, QueueTypes,
              ObjectTypes, PlacesDisjoint, HeadIsChunked, Admitted, AddingInv, BatchInv,
              PrefilledInv, Continuing
<1>2. CASE Receive
  BY <1>2, ReceiveUserStep, ReceiveAbortStep DEF Receive
<1>3. CASE StartSchedule \/ Admit
  BY <1>3, StartStep, AdmitStep, PrefillStep, DecodeStep, QuietSteps DEF Admit
<1>4. CASE Allocate \/ Forward
  BY <1>4, QuietSteps, ForwardStep DEF Allocate
<1>5. CASE Process
  BY <1>5, QuietSteps, ProcessStep, EndStep DEF Process
<1> QED
  BY <1>1, <1>2, <1>3, <1>4, <1>5 DEF Next, Loop

(* At every moment, with either loop: each request is still to be sent, waits *)
(* or runs, at most once; those that wait hold no row except a half prefilled *)
(* head; and batches in flight hold no request that waits.                    *)
THEOREM SchedulerInvariance == Spec => []Inv
<1>1. Init => Inv
  BY InitInv
<1>2. Inv /\ [Next]_vars => Inv'
  BY NextInv
<1> QED
  BY <1>1, <1>2, PTL DEF Spec

(* PrefillManager puts a request whose prompt was cut back at the head: only  *)
(* the head ever waits with a row, however chunks, aborts and finishes mix.   *)
THEOREM HeadHoldsTheOnlyWaitingRow == Spec => []OnlyHeadIsChunked
<1>1. Inv => OnlyHeadIsChunked
  BY DEF Inv, HeadIsChunked, QueueTypes, Admitted, OnlyHeadIsChunked
<1> QED
  BY <1>1, SchedulerInvariance, PTL

(* No step but an admission gives a request a row. *)
LEMMA RowsAreTakenByAdmissions ==
    ASSUME [Next]_vars
    PROVE  live' \subseteq live \/ AdmitChunk \/ AdmitNew
<1>1. CASE UNCHANGED vars
  BY <1>1 DEF vars, ghost_vars
<1>2. CASE Receive
  <2>1. PICK r \in Req : ReceiveUser(r) \/ ReceiveAbort(r)
    BY <1>2 DEF Receive
  <2>2. FreeNow(r) => live' \subseteq live
    BY DEF FreeNow
  <2> QED
    BY <2>1, <2>2 DEF ReceiveUser, ReceiveAbort, ghost_vars
<1>3. CASE StartSchedule \/ Admit \/ Allocate
  BY <1>3 DEF StartSchedule, Admit, SchedulePrefill, ScheduleDecode, ScheduleNothing, Allocate,
              AllocateFree, AllocateEvict, AllocateFails, ghost_vars
<1>4. CASE Forward \/ Process
  BY <1>4 DEF Forward, Process, ProcessChunk, ProcessFinished, ProcessPrefilled, ProcessDecoded,
              ProcessFails, EndIteration, ghost_vars
<1> QED
  BY <1>1, <1>2, <1>3, <1>4 DEF Next, Loop

(* schedule_next_batch stops at the first pending request that does not fit:  *)
(* one that arrived later is never admitted before one that still waits.      *)
THEOREM FirstComeFirstServed == Spec => AdmittedInOrder
<1> DEFINE InOrder == \A r \in live' \ live : \A i, j \in DOMAIN pending_list :
                         pending_list[j] = r /\ i < j => pending_list[i] \in live'
<1>1. Inv /\ [Next]_vars => [InOrder]_vars
  <2> SUFFICES ASSUME Inv, [Next]_vars,
                      NEW r \in live' \ live,
                      NEW i \in DOMAIN pending_list, NEW j \in DOMAIN pending_list,
                      pending_list[j] = r, i < j
               PROVE  pending_list[i] \in live'
    OBVIOUS
  <2> DEFINE n == Len(adder.reqs)
  <2>1. AdmitChunk \/ AdmitNew
    BY RowsAreTakenByAdmissions
  <2>2. /\ phase = "admit" /\ n + 1 \in DOMAIN pending_list
        /\ live' = live \cup {pending_list[n + 1]}
    BY <2>1, AdmittedRequest DEF Candidate
  <2>3. j = n + 1
    BY <2>2 DEF Inv, PlacesDisjoint, IsInjective
  <2>4. i \in 1..n /\ DOMAIN adder.reqs = 1..n
    BY <2>3, LenProperties DEF Inv, QueueTypes
  <2> QED
    BY <2>2, <2>4 DEF Inv, AddingInv
<1>2. [][InOrder]_vars <=> AdmittedInOrder
  BY DEF AdmittedInOrder
<1> HIDE DEF InOrder
<1> QED
  BY <1>1, <1>2, SchedulerInvariance, PTL DEF Spec

-----------------------------------------------------------------------------
(* Rows *)

(* No step changes the row of a request that keeps one. *)
LEMMA RowsKept ==
    ASSUME RowsOwned, live' = live, row_slots' = row_slots,
           \A r \in live : req'[r].table_idx = req[r].table_idx
    PROVE  RowsOwned'
BY DEF RowsOwned

(* A row that is given back is owned by the free list alone. *)
LEMMA RowFreed ==
    ASSUME RowsOwned, ObjectTypes, row_slots \in Seq(Row), live \subseteq Req,
           NEW r \in live, live' = live \ {r},
           row_slots' = Append(row_slots, req[r].table_idx),
           \A s \in live : req'[s].table_idx = req[s].table_idx
    PROVE  RowsOwned'
<1> DEFINE row == req[r].table_idx
           n == Len(row_slots)
<1>1. row \in Row /\ row \notin ToSet(row_slots)
  BY DEF RowsOwned, ObjectTypes
<1>2. n \in Nat /\ DOMAIN row_slots = 1..n
  BY LenProperties
<1>3. /\ DOMAIN row_slots' = 1..(n + 1)
      /\ row_slots'[n + 1] = row
      /\ \A i \in 1..n : row_slots'[i] = row_slots[i]
  <2>1. row_slots' = Append(row_slots, row)
    OBVIOUS
  <2> HIDE DEF row
  <2>2. /\ row_slots' \in Seq(Row) /\ Len(row_slots') = n + 1
        /\ row_slots'[n + 1] = row
        /\ \A i \in 1..n : row_slots'[i] = row_slots[i]
    BY <1>1, <2>1, AppendProperties
  <2> QED
    BY <2>2, LenProperties
<1>4. 1..(n + 1) = 1..n \cup {n + 1} /\ n + 1 \notin 1..n
  BY <1>2
<1> HIDE DEF n
<1>5. ToSet(row_slots') = ToSet(row_slots) \cup {row}
  BY <1>2, <1>3, <1>4 DEF ToSet
<1>6. IsInjective(row_slots')
  BY <1>1, <1>2, <1>3, <1>4 DEF IsInjective, RowsOwned, ToSet
<1>7. \A s \in live' : s \in live /\ s # r /\ req'[s].table_idx = req[s].table_idx
  OBVIOUS
<1>8. {req'[s].table_idx : s \in live'} \cup {row} = {req[s].table_idx : s \in live}
  BY <1>7
<1>9. \A s \in live' : req'[s].table_idx # row
  BY <1>7 DEF RowsOwned
<1> HIDE DEF row
<1>10. Row = ToSet(row_slots') \cup {req'[s].table_idx : s \in live'}
  BY <1>5, <1>8 DEF RowsOwned
<1>11. \A s \in live' : req'[s].table_idx \notin ToSet(row_slots')
  BY <1>5, <1>7, <1>9 DEF RowsOwned
<1> QED
  BY <1>6, <1>7, <1>10, <1>11 DEF RowsOwned

(* A row that is taken is owned by the request alone. *)
LEMMA RowTaken ==
    ASSUME RowsOwned, row_slots \in Seq(Row), row_slots # <<>>,
           NEW r, r \notin live, live' = live \cup {r},
           row_slots' = Front(row_slots),
           req'[r].table_idx = Last(row_slots),
           \A s \in live : req'[s].table_idx = req[s].table_idx
    PROVE  RowsOwned'
<1> DEFINE n == Len(row_slots)
           row == row_slots[n]
<1>1. n \in Nat /\ n >= 1 /\ DOMAIN row_slots = 1..n /\ n - 1 \in Nat
  BY LenProperties
<1>2. \A i \in 1..(n - 1) : row_slots[i] \in Row
  BY <1>1
<1>3. /\ DOMAIN row_slots' = 1..(n - 1)
      /\ \A i \in 1..(n - 1) : row_slots'[i] = row_slots[i]
  <2>1. row_slots' = SubSeq(row_slots, 1, n - 1)
    BY DEF Front
  <2> QED
    BY <1>1, <1>2, <2>1, SubSeqProperties
<1>4. 1..n = 1..(n - 1) \cup {n} /\ n \notin 1..(n - 1)
  BY <1>1
<1>5. req'[r].table_idx = row
  BY DEF Last
<1> HIDE DEF n
<1>6. ToSet(row_slots) = ToSet(row_slots') \cup {row}
  BY <1>1, <1>3, <1>4 DEF ToSet
<1>7. IsInjective(row_slots') /\ row \notin ToSet(row_slots')
  BY <1>1, <1>3, <1>4 DEF IsInjective, RowsOwned, ToSet
<1>8. \A s \in live : req'[s].table_idx = req[s].table_idx /\ req[s].table_idx # row
  BY <1>6 DEF RowsOwned
<1>9. {req'[s].table_idx : s \in live'} = {req[s].table_idx : s \in live} \cup {row}
  BY <1>5, <1>8
<1> HIDE DEF row
<1>10. Row = ToSet(row_slots') \cup {req'[s].table_idx : s \in live'}
  BY <1>6, <1>9 DEF RowsOwned
<1>11. \A s \in live' : req'[s].table_idx \notin ToSet(row_slots')
  BY <1>5, <1>6, <1>7, <1>8 DEF RowsOwned
<1>12. \A s, t \in live' : req'[s].table_idx = req'[t].table_idx => s = t
  BY <1>5, <1>8 DEF RowsOwned
<1> QED
  BY <1>7, <1>10, <1>11, <1>12 DEF RowsOwned

(* The entries of a batch are numbered from one. *)
LEMMA BatchEntries ==
    ASSUME QueueTypes, NEW d, d \in {batch, last_data}
    PROVE  /\ Len(d.reqs) \in Nat /\ DOMAIN d.reqs = 1..Len(d.reqs)
           /\ \A i \in DOMAIN d.reqs : i \in Nat /\ i >= 1
           /\ \A i \in DOMAIN d.reqs : i >= next + 1 => i >= next /\ i # next
           /\ \A i \in DOMAIN d.reqs : d.reqs[i].uid \in Req
<1>1. d.reqs \in Seq(Entry) /\ next \in Nat
  BY DEF QueueTypes
<1>2. Len(d.reqs) \in Nat /\ DOMAIN d.reqs = 1..Len(d.reqs)
  BY <1>1, LenProperties
<1>3. \A i \in DOMAIN d.reqs : d.reqs[i] \in Entry
  BY <1>1, <1>2
<1>4. \A i \in DOMAIN d.reqs : d.reqs[i].uid \in Req
  BY <1>3 DEF Entry
<1> QED
  BY <1>1, <1>2, <1>4

(* The request whose token is processed is in Req, and it holds a row unless *)
(* this is a later step of a request that finished before.                   *)
LEMMA ProcessedEntry ==
    ASSUME Inv, FlightInv, InProcess, ~Work.reqs[next].chunked
    PROVE  /\ next \in DOMAIN Work.reqs
           /\ Work.reqs[next].uid \in Req
           /\ \/ Work.reqs[next].uid \in live
              \/ Overlap /\ Work.phase = "decode" /\ Work.reqs[next].uid \in finished_reqs
<1>1. Work \in {batch, last_data} /\ phase = "process" /\ next <= Len(Work.reqs)
  BY DEF Work, InProcess
<1>2. QueueTypes /\ next \in Nat \ {0}
  BY DEF Inv, QueueTypes
<1>3. next \in DOMAIN Work.reqs /\ Work.reqs[next].uid \in Req
  BY <1>1, <1>2, BatchEntries
<1>4. next >= next
  BY <1>2
<1> QED
  BY <1>1, <1>3, <1>4 DEF Work, FlightInv, OwnBatchInv, InFlightInv, LiveUnless

(* Who is freed when its tokens are processed, or has its prefix cached, *)
(* still holds a row.                                                    *)
LEMMA ProcessedHoldsRow ==
    ASSUME Inv, FlightInv, ProcessFinished \/ ProcessPrefilled
    PROVE  Work.reqs[next].uid \in live
<1>1. InProcess /\ ~Work.reqs[next].chunked
  BY DEF ProcessFinished, ProcessPrefilled
<1>2. ASSUME ProcessFinished PROVE Work.reqs[next].uid \notin finished_reqs
  BY <1>2 DEF ProcessFinished, FreedAlready
<1>3. ASSUME ProcessPrefilled PROVE Work.phase # "decode"
  BY <1>3 DEF ProcessPrefilled
<1> QED
  BY <1>1, <1>2, <1>3, ProcessedEntry

(* The steps between a batch's choice and its end: nobody loses a row. *)
LEMMA FlightFrame ==
    ASSUME FlightInv, UNCHANGED <<batch, last_data, next, finished_reqs, new_finished_reqs>>,
           to_abort' = to_abort, live \subseteq live',
           phase' = "process" <=> phase = "process", phase = "failed" => phase' = "failed"
    PROVE  FlightInv'
<1>1. phase' \in {"process", "failed"} <=> phase \in {"process", "failed"} \/ phase' = "failed"
  OBVIOUS
<1> QED
  BY <1>1 DEF FlightInv, OwnBatchInv, InFlightInv, LiveUnless

(* The rows of what is in flight stay held as it is processed. *)
LEMMA FlightStep ==
    ASSUME Inv, FlightInv, NoAbortInFlight, [Next]_vars
    PROVE  FlightInv'
<1> USE DEF Inv
<1>1. CASE UNCHANGED vars
  BY <1>1, FlightFrame DEF vars, loop_vars, input_vars, queue_vars, ghost_vars
<1>2. ASSUME NEW r \in Req, ReceiveUser(r)
      PROVE  FlightInv'
  BY <1>2, FlightFrame DEF ReceiveUser, loop_vars, ghost_vars
<1>3. ASSUME NEW r \in Req, ReceiveAbort(r)
      PROVE  FlightInv'
  <2>1. to_abort # {} /\ to_abort' \subseteq to_abort
    BY <1>3 DEF ReceiveAbort
  <2>2. phase' # "process"
    BY <1>3 DEF ReceiveAbort, FreeNow
  <2> QED
    BY <2>1, <2>2 DEF FlightInv, NoAbortInFlight, OwnBatchInv
<1>4. CASE StartSchedule \/ AdmitChunk \/ AdmitNew \/ Allocate
  <2>1. /\ UNCHANGED <<batch, last_data, next, finished_reqs, new_finished_reqs, to_abort>>
        /\ live \subseteq live'
        /\ phase \notin {"process", "failed"} /\ phase' # "process"
    BY <1>4 DEF StartSchedule, AdmitChunk, AdmitNew, Allocate, AllocateFree, AllocateEvict,
                AllocateFails, input_vars, queue_vars, ghost_vars
  <2> QED
    BY <2>1, FlightFrame
<1>5. CASE SchedulePrefill \/ ScheduleDecode
  <2>1. /\ UNCHANGED <<last_data, next, finished_reqs, new_finished_reqs, to_abort, live>>
        /\ phase = "admit" /\ phase' = "allocate"
    BY <1>5 DEF SchedulePrefill, ScheduleDecode, input_vars, queue_vars, ghost_vars
  <2>2. ASSUME batch'.phase # "decode",
               NEW i \in DOMAIN batch'.reqs, NEW j \in DOMAIN last_data.reqs,
               ~last_data.reqs[j].chunked
        PROVE  batch'.reqs[i].uid # last_data.reqs[j].uid
    <3>1. SchedulePrefill /\ batch'.reqs = adder.reqs
      BY <1>5, <2>2 DEF SchedulePrefill, ScheduleDecode
    <3>2. Len(adder.reqs) \in Nat /\ DOMAIN adder.reqs = 1..Len(adder.reqs)
          /\ Len(pending_list) \in Nat /\ DOMAIN pending_list = 1..Len(pending_list)
      BY LenProperties DEF QueueTypes
    <3>3. adder.reqs[i].uid = pending_list[i] /\ i \in DOMAIN pending_list
      BY <2>1, <2>2, <3>1, <3>2 DEF AddingInv
    <3> QED
      BY <2>2, <3>1, <3>3 DEF PrefilledInv, ToSet
  <2> QED
    BY <2>1, <2>2 DEF FlightInv, OwnBatchInv, InFlightInv, LiveUnless
<1>6. CASE ScheduleNothing \/ Forward
  <2>1. /\ UNCHANGED <<batch, last_data, next, finished_reqs, new_finished_reqs, to_abort, live>>
        /\ phase \in {"admit", "forward"} /\ phase' = "process"
        /\ phase = "admit" => batch = NoBatch
    BY <1>6 DEF ScheduleNothing, Forward, input_vars, queue_vars, ghost_vars, BatchInv
  <2>2. \A i \in DOMAIN batch.reqs : batch.reqs[i].uid \in live
    BY <2>1 DEF BatchInv, NoBatch
  <2> QED
    BY <2>1, <2>2 DEF FlightInv, OwnBatchInv, InFlightInv, LiveUnless
<1>7. CASE ProcessFails
  <2>1. /\ UNCHANGED <<batch, last_data, next, finished_reqs, new_finished_reqs, to_abort, live>>
        /\ phase = "process" /\ phase' = "failed"
    BY <1>7 DEF ProcessFails, InProcess, input_vars, queue_vars, ghost_vars
  <2> QED
    BY <2>1 DEF FlightInv, OwnBatchInv, InFlightInv, LiveUnless
<1>8. CASE ProcessChunk \/ ProcessPrefilled \/ ProcessDecoded
  <2>1. /\ UNCHANGED <<batch, last_data, finished_reqs, new_finished_reqs, to_abort, live, phase>>
        /\ next' = next + 1
    BY <1>8 DEF ProcessChunk, ProcessPrefilled, ProcessDecoded, input_vars, queue_vars, ghost_vars
  <2>2. \A i \in DOMAIN batch.reqs : i >= next' => i >= next
    BY <2>1, BatchEntries
  <2>3. \A i \in DOMAIN last_data.reqs : i >= next' => i >= next
    BY <2>1, BatchEntries
  <2> QED
    BY <2>1, <2>2, <2>3 DEF FlightInv, OwnBatchInv, InFlightInv, LiveUnless
<1>9. CASE ProcessFinished
  <2> DEFINE r == Work.reqs[next].uid
  <2>1. /\ UNCHANGED <<batch, last_data, finished_reqs, to_abort, phase>>
        /\ next' = next + 1 /\ phase = "process"
        /\ live' = live \ {r} /\ new_finished_reqs' = new_finished_reqs \cup {r}
        /\ InProcess /\ ~Work.reqs[next].chunked
    BY <1>9 DEF ProcessFinished, InProcess, input_vars
  <2>2. next \in DOMAIN Work.reqs
    BY <2>1, ProcessedEntry
  <2>3. CASE ~Overlap
    <3>1. r = batch.reqs[next].uid /\ next \in DOMAIN batch.reqs
      BY <2>2, <2>3 DEF Work
    <3>2. \A i \in DOMAIN batch.reqs : i >= next' => i >= next /\ batch.reqs[i].uid # r
      BY <2>1, <3>1, BatchEntries DEF BatchInv
    <3> HIDE DEF r
    <3> QED
      BY <2>1, <2>3, <3>2 DEF FlightInv, OwnBatchInv, LiveUnless
  <2>4. CASE Overlap
    <3>1. /\ r = last_data.reqs[next].uid /\ next \in DOMAIN last_data.reqs
          /\ ~last_data.reqs[next].chunked
      BY <2>1, <2>2, <2>4 DEF Work
    <3>2. \A i \in DOMAIN last_data.reqs : i >= next' => i >= next /\ last_data.reqs[i].uid # r
      BY <2>1, <2>4, <3>1, BatchEntries DEF FlightInv, InFlightInv
    <3>3. \A i \in DOMAIN batch.reqs : batch.reqs[i].uid = r => batch.phase = "decode"
      BY <2>4, <3>1 DEF FlightInv, InFlightInv
    <3>4. last_data # NoBatch
      BY <3>1 DEF NoBatch
    <3> HIDE DEF r
    <3> QED
      BY <2>1, <2>4, <3>2, <3>3, <3>4 DEF FlightInv, InFlightInv, LiveUnless
  <2> QED
    BY <2>3, <2>4
<1>10. CASE EndIteration
  <2>1. /\ phase = "process" /\ phase' = "receive" /\ next' = 1 /\ batch' = NoBatch
        /\ new_finished_reqs' = {} /\ UNCHANGED <<to_abort, live>>
        /\ Overlap => last_data' = batch
        /\ finished_reqs' = IF Work = NoBatch THEN finished_reqs ELSE new_finished_reqs
    BY <1>10 DEF EndIteration, input_vars, ghost_vars
  <2>2. ASSUME Overlap PROVE InFlightInv'
    <3>1. \A i \in DOMAIN batch.reqs : LiveUnless(batch, i, new_finished_reqs)
      BY <2>1, <2>2 DEF FlightInv, InFlightInv
    <3>2. Work = NoBatch => new_finished_reqs = {}
      BY <2>2 DEF FlightInv, InFlightInv, Work
    <3> QED
      BY <2>1, <2>2, <3>1, <3>2 DEF InFlightInv, LiveUnless, BatchInv, NoBatch
  <2> QED
    BY <2>1, <2>2 DEF FlightInv, OwnBatchInv
<1> QED
  BY <1>1, <1>2, <1>3, <1>4, <1>5, <1>6, <1>7, <1>8, <1>9, <1>10
     DEF Next, Receive, Loop, Admit, Process

(* What is freed held a row, and what is admitted took a free one. *)
LEMMA RowStep ==
    ASSUME Inv, RowInv, [Next]_vars
    PROVE  RowsOwned'
<1> USE DEF Inv, RowInv
<1>1. live \subseteq Req /\ row_slots \in Seq(Row) /\ next \in Nat \ {0}
  BY DEF QueueTypes
<1>2. CASE UNCHANGED vars
  BY <1>2 DEF vars, loop_vars, input_vars, queue_vars, pool_vars, ghost_vars, RowsOwned
<1>3. ASSUME NEW r \in Req, ReceiveUser(r)
      PROVE  RowsOwned'
  BY <1>3 DEF ReceiveUser, loop_vars, pool_vars, ghost_vars, RowsOwned
<1>4. ASSUME NEW r \in Req, ReceiveAbort(r)
      PROVE  RowsOwned'
  <2>1. phase = "receive" /\ phase' \in {"receive", "failed"} /\ req' = req
    BY <1>4 DEF ReceiveAbort, FreeNow
  <2>2. CASE live' = live /\ row_slots' = row_slots
    BY <2>1, <2>2, RowsKept
  <2>3. CASE /\ FreeNow(r) /\ CacheReq(cache, req[r], TRUE).ok
             /\ \/ Contains(pending_list, r) /\ Continuing(r)
                \/ r \in running_reqs
    <3>1. r \in live
      BY <2>1, <2>3 DEF PlacesDisjoint, HeadIsChunked, Admitted, Contains, QueueTypes
    <3>2. live' = live \ {r} /\ row_slots' = Append(row_slots, req[r].table_idx)
      BY <2>3 DEF FreeNow, FreeRow
    <3> QED
      BY <1>1, <2>1, <3>1, <3>2, RowFreed
  <2> QED
    BY <1>4, <2>2, <2>3 DEF ReceiveAbort, FreeNow, pool_vars
<1>5. CASE StartSchedule \/ SchedulePrefill \/ ScheduleDecode \/ ScheduleNothing \/ Allocate
  <2>1. UNCHANGED <<live, row_slots, req>>
    BY <1>5 DEF StartSchedule, SchedulePrefill, ScheduleDecode, ScheduleNothing, Allocate,
                AllocateFree, AllocateEvict, AllocateFails, queue_vars, pool_vars, ghost_vars
  <2> QED
    BY <2>1, RowsKept
<1>6. CASE AdmitChunk \/ AdmitNew
  <2> DEFINE r == Candidate
  <2>1. /\ phase = "admit" /\ phase' = phase
        /\ r \in Req /\ r = pending_list[Len(adder.reqs) + 1]
        /\ Len(adder.reqs) + 1 \in DOMAIN pending_list
    BY <1>6, AdmittedRequest DEF Candidate, QueueTypes
  <2>2. Continuing(r) <=> r \in live
    BY <2>1 DEF HeadIsChunked, Admitted, QueueTypes
  <2>3. ASSUME NEW row \in Row, NEW n \in Int, NEW h, AddOneReq(r, row, n, h)
        PROVE  /\ req'[r].table_idx = row
               /\ \A s \in live : s # r => req'[s].table_idx = req[s].table_idx
    <3>1. adder.token_budget \in Int /\ ObjectTypes
      BY DEF QueueTypes
    <3> HIDE DEF r
    <3>2. req' = [req EXCEPT ![r] = req'[r]] /\ req'[r].table_idx = row
      BY <2>1, <2>3, <3>1, AddedRequest
    <3> QED
      BY <1>1, <3>2 DEF ObjectTypes
  <2>4. CASE AdmitChunk
    <3>1. /\ AddOneReq(r, req[r].table_idx, req[r].cached_len, req[r].handle_len)
          /\ UNCHANGED <<live, row_slots>>
      BY <2>4 DEF AdmitChunk, pool_vars, ghost_vars
    <3>2. req[r].table_idx \in Row /\ req[r].cached_len \in Int
      BY <2>1 DEF ObjectTypes
    <3> HIDE DEF r
    <3>3. \A s \in live : req'[s].table_idx = req[s].table_idx
      BY <2>3, <3>1, <3>2
    <3> QED
      BY <2>1, <3>1, <3>3, RowsKept
  <2>5. CASE AdmitNew
    <3>1. /\ ~Continuing(r) /\ CanAllocate(r)
          /\ AddOneReq(r, Last(row_slots), Len(MatchReq(cache, r)), Len(MatchReq(cache, r)))
          /\ live' = live \cup {r} /\ row_slots' = Front(row_slots)
      BY <2>5 DEF AdmitNew
    <3>2. row_slots # <<>> /\ Last(row_slots) \in Row
      BY <1>1, <3>1 DEF CanAllocate, Last
    <3>3. Len(MatchReq(cache, r)) \in Int
      BY <2>1, MatchLength
    <3> HIDE DEF r
    <3>4. r \notin live
      BY <2>2, <3>1
    <3>5. /\ req'[r].table_idx = Last(row_slots)
          /\ \A s \in live : req'[s].table_idx = req[s].table_idx
      BY <2>3, <3>1, <3>2, <3>3, <3>4
    <3> QED
      BY <1>1, <2>1, <3>1, <3>2, <3>4, <3>5, RowTaken
  <2> QED
    BY <1>6, <2>4, <2>5
<1>7. CASE Forward
  <2>1. /\ phase = "forward" /\ UNCHANGED <<live, row_slots, batch, next>>
        /\ \A s \in Req : req'[s].table_idx = req[s].table_idx
    <3>1. PICK token :
             req' = [s \in Req |->
                       IF s \notin BatchUids THEN req[s]
                       ELSE Completed(req[s], IF req[s].chunked THEN Eos ELSE token[s])]
      BY <1>7 DEF Forward
    <3>2. \A s \in Req : DOMAIN req[s] = Fields /\ req[s].device_len \in Int
      BY DEF ObjectTypes
    <3>3. \A s \in Req : \A t : Completed(req[s], t).table_idx = req[s].table_idx
      BY <3>2, CompletedFields
    <3> QED
      BY <1>7, <3>1, <3>3 DEF Forward, pool_vars
  <2> QED
    BY <1>1, <2>1, RowsKept
<1>8. CASE ProcessChunk \/ ProcessFails \/ EndIteration
  <2>1. UNCHANGED <<live, row_slots, req>>
    BY <1>8 DEF ProcessChunk, ProcessFails, EndIteration, queue_vars, pool_vars, ghost_vars
  <2> QED
    BY <2>1, RowsKept
<1>9. CASE ProcessFinished \/ ProcessPrefilled \/ ProcessDecoded
  <2> DEFINE r == Work.reqs[next].uid
  <2>1. \A s \in live : req'[s].table_idx = req[s].table_idx
    BY <1>1, <1>9, ProcessedObjects DEF SameObjects, ObjectTypes
  <2>2. CASE ProcessFinished
    <3>1. live' = live \ {r} /\ row_slots' = Append(row_slots, req[r].table_idx)
      BY <2>2 DEF ProcessFinished, FreeRow
    <3>2. r \in live
      BY <2>2, ProcessedHoldsRow
    <3> HIDE DEF r
    <3> QED
      BY <1>1, <2>1, <3>1, <3>2, RowFreed
  <2>3. CASE ProcessPrefilled \/ ProcessDecoded
    BY <2>1, <2>3, RowsKept DEF ProcessPrefilled, ProcessDecoded, pool_vars
  <2> QED
    BY <1>9, <2>2, <2>3
<1> QED
  BY <1>2, <1>3, <1>4, <1>5, <1>6, <1>7, <1>8, <1>9
     DEF Next, Receive, Loop, Admit, Process

(* A sequence without repetitions is as long as the set of its elements. *)
LEMMA InjectiveSeqCardinality ==
    ASSUME NEW S, NEW s \in Seq(S), IsInjective(s)
    PROVE  IsFiniteSet(ToSet(s)) /\ Cardinality(ToSet(s)) = Len(s)
<1>1. Len(s) \in Nat /\ DOMAIN s = 1..Len(s)
  BY LenProperties
<1>2. s \in [1..Len(s) -> ToSet(s)]
  BY <1>1 DEF ToSet
<1>3. s \in Bijection(1..Len(s), ToSet(s))
  BY <1>1, <1>2, Fun_IsBij DEF IsInjective, ToSet
<1>4. IsFiniteSet(1..Len(s)) /\ Cardinality(1..Len(s)) = Len(s)
  BY ONLY <1>1, FS_Interval
<1> QED
  BY <1>3, <1>4, FS_Bijection DEF ExistsBijection

(* Owned once each, the rows add up. *)
LEMMA RowsOwnedCount ==
    ASSUME QueueTypes, RowsOwned
    PROVE  RowsPartitioned
<1> DEFINE free == ToSet(row_slots)
           held == {req[r].table_idx : r \in live}
<1>1. IsFiniteSet(free) /\ Cardinality(free) = Len(row_slots)
  BY InjectiveSeqCardinality DEF QueueTypes, RowsOwned
<1>2. IsFiniteSet(live) /\ Cardinality(live) \in Nat
  BY SchedulerAssumptions, FS_Subset, FS_CardinalityType DEF QueueTypes
<1>3. IsFiniteSet(held) /\ Cardinality(held) = Cardinality(live)
  <2> DEFINE f == [r \in live |-> req[r].table_idx]
  <2>1. f \in [live -> held] /\ \A h \in held : \E r \in live : f[r] = h
    OBVIOUS
  <2>2. \A r, s \in live : f[r] = f[s] => r = s
    BY DEF RowsOwned
  <2> HIDE DEF f, held
  <2>3. f \in Bijection(live, held)
    BY <2>1, <2>2, Fun_IsBij
  <2> QED
    BY <1>2, <2>3, FS_Bijection DEF ExistsBijection
<1>4. Row = free \cup held /\ free \cap held = {}
  BY DEF RowsOwned
<1>5. Cardinality(Row) = MaxRunningReq
  BY SchedulerAssumptions, FS_Interval DEF Row
<1>6. MaxRunningReq = Len(row_slots) + Cardinality(live)
  <2> HIDE DEF free, held
  <2>1. Cardinality(free \cup held) = Cardinality(free) + Cardinality(held) - Cardinality({})
    BY <1>1, <1>3, <1>4, FS_Union
  <2> QED
    BY <1>1, <1>2, <1>3, <1>4, <1>5, <2>1, FS_EmptySet, LenProperties DEF QueueTypes
<1> QED
  BY <1>4, <1>6 DEF RowsPartitioned

(* No row of the page table is lost or given back twice: with normal_loop     *)
(* through admissions, chunks, finishes and aborts at any moment, and with    *)
(* overlap_loop through all but aborts.                                       *)
THEOREM EveryRowHasOneOwner ==
    ASSUME NoAbortInFlight
    PROVE  Spec => []RowsPartitioned
<1>1. Init => Inv /\ RowInv
  BY InitInv, InitRowInv
<1>2. (Inv /\ RowInv) /\ [Next]_vars => (Inv /\ RowInv)'
  BY NextInv, RowStep, FlightStep DEF RowInv
<1>3. Inv /\ RowInv => RowsPartitioned
  BY RowsOwnedCount DEF Inv, RowInv
<1> QED
  BY <1>1, <1>2, <1>3, PTL DEF Spec

-----------------------------------------------------------------------------
(***************************************************************************)
(* The prefix cache: every cached prefix is locked once for each request   *)
(* whose handle covers it.                                                 *)
(*                                                                         *)
(* A handle is the first handle_len tokens of its request, so it means the *)
(* same prefix for as long as those tokens stay (WellFormed): they are     *)
(* computed, and what is computed is only appended to.  RefInv says what   *)
(* the cache keeps besides the counts.                                     *)
(***************************************************************************)

(* A Req or ChunkedReq of the given prompt. *)
WellFormed(q, prompt) ==
    /\ q.ids \in Seq(Nat)
    /\ q.host_len \in Nat /\ q.cached_len \in Nat /\ q.device_len \in Nat /\ q.handle_len \in Nat
    /\ q.handle_len <= q.cached_len /\ q.cached_len <= q.device_len
    /\ q.cached_len <= Len(q.ids)
    /\ ~q.chunked => q.device_len = Len(q.ids)
    /\ q.chunked => q.ids = prompt /\ q.cached_len < Len(q.ids)

(* What is cut is not computed to its end when the batch runs. *)
CutShort(reqs) ==
    \A i \in DOMAIN reqs : reqs[i].chunked =>
        req[reqs[i].uid].device_len < Len(req[reqs[i].uid].ids)

ObjectInv ==
    /\ \A r \in Req : WellFormed(req[r], Prompt[r])
    /\ phase = "admit" => CutShort(adder.reqs)
    /\ phase \in {"allocate", "forward"} => CutShort(batch.reqs)

CacheEntries == \A p \in DOMAIN cache : DOMAIN cache[p] = {"page", "ref_count"}

RefInv == CacheEntries /\ PrefixClosed(DOMAIN cache) /\ RefCountsExact

-----------------------------------------------------------------------------
(* Handles *)

(* The first n tokens of a sequence, n within it. *)
LEMMA FirstTokens ==
    ASSUME NEW s \in Seq(Nat), NEW n \in Nat, n <= Len(s)
    PROVE  /\ SubSeq(s, 1, n) \in Seq(Nat)
           /\ Len(SubSeq(s, 1, n)) = n
           /\ \A i \in 1..n : SubSeq(s, 1, n)[i] = s[i]
<1>1. \A i \in 1..n : s[i] \in Nat
  OBVIOUS
<1>2. 1 <= n \/ n = 0
  OBVIOUS
<1> QED
  BY <1>1, <1>2, SubSeqProperties

(* They stay the same when a token is appended. *)
LEMMA FirstTokensStay ==
    ASSUME NEW s \in Seq(Nat), NEW t \in Nat, NEW n \in Nat, n <= Len(s)
    PROVE  SubSeq(Append(s, t), 1, n) = SubSeq(s, 1, n)
<1> DEFINE a == Append(s, t)
<1>1. a \in Seq(Nat) /\ Len(a) = Len(s) + 1 /\ \A i \in 1..Len(s) : a[i] = s[i]
  BY AppendProperties
<1>2. Len(s) \in Nat
  OBVIOUS
<1> HIDE DEF a
<1>3. /\ SubSeq(a, 1, n) \in Seq(Nat) /\ Len(SubSeq(a, 1, n)) = n
      /\ \A i \in 1..n : SubSeq(a, 1, n)[i] = a[i]
  BY <1>1, <1>2, FirstTokens
<1>4. /\ SubSeq(s, 1, n) \in Seq(Nat) /\ Len(SubSeq(s, 1, n)) = n
      /\ \A i \in 1..n : SubSeq(s, 1, n)[i] = s[i]
  BY FirstTokens
<1>5. \A i \in 1..n : SubSeq(a, 1, n)[i] = SubSeq(s, 1, n)[i]
  BY <1>1, <1>2, <1>3, <1>4
<1> QED
  BY <1>3, <1>4, <1>5, SeqEqual DEF a

(* The first of the first tokens. *)
LEMMA FirstOfFirst ==
    ASSUME NEW s \in Seq(Nat), NEW m \in Nat, m <= Len(s), NEW n \in Nat, n <= m
    PROVE  SubSeq(SubSeq(s, 1, m), 1, n) = SubSeq(s, 1, n)
<1>1. CASE n = 0
  BY <1>1, SubSeqEmpty
<1>2. CASE n # 0
  <2>1. Len(s) \in Nat /\ m \in 1..Len(s) /\ n \in 1..m
    BY <1>2
  <2> QED
    BY <2>1, SubSeqOfPrefix
<1> QED
  BY <1>1, <1>2

(* A token that reaches the host. *)
LEMMA AppendedIsWellFormed ==
    ASSUME NEW q, NEW prompt, DOMAIN q = Fields, WellFormed(q, prompt)
    PROVE  /\ WellFormed(Appended(q), prompt)
           /\ HandleOf(Appended(q)) = HandleOf(q)
<1>1. /\ Appended(q).host_len = q.host_len + 1 /\ Appended(q).ids = q.ids
      /\ Appended(q).cached_len = q.cached_len /\ Appended(q).device_len = q.device_len
      /\ Appended(q).handle_len = q.handle_len /\ Appended(q).chunked = q.chunked
  BY DEF Appended, Fields
<1> QED
  BY <1>1 DEF WellFormed, HandleOf

(* A new handle, within what is computed. *)
LEMMA NewHandleIsWellFormed ==
    ASSUME NEW q, NEW prompt, DOMAIN q = Fields, WellFormed(q, prompt),
           NEW n \in Nat, n <= q.cached_len, NEW x, x = [q EXCEPT !.handle_len = n]
    PROVE  /\ WellFormed(x, prompt)
           /\ HandleOf(x) = SubSeq(q.ids, 1, n)
<1>1. /\ x.host_len = q.host_len /\ x.ids = q.ids
      /\ x.cached_len = q.cached_len /\ x.device_len = q.device_len
      /\ x.handle_len = n /\ x.chunked = q.chunked
  BY DEF Fields
<1> QED
  BY ONLY <1>1, WellFormed(q, prompt), n \in Nat, n <= q.cached_len DEF WellFormed, HandleOf

(* A step of the engine. *)
LEMMA CompletedIsWellFormed ==
    ASSUME NEW q, NEW prompt, DOMAIN q = Fields, WellFormed(q, prompt), NEW token \in Nat,
           q.chunked => q.device_len < Len(q.ids)
    PROVE  /\ WellFormed(Completed(q, token), prompt)
           /\ HandleOf(Completed(q, token)) = HandleOf(q)
<1> DEFINE c == Completed(q, token)
<1>1. /\ c.host_len = q.host_len /\ c.cached_len = q.device_len
      /\ c.device_len = q.device_len + 1
      /\ c.handle_len = q.handle_len /\ c.chunked = q.chunked
      /\ c.ids = IF q.chunked THEN q.ids ELSE Append(q.ids, token)
  BY DEF Completed, Fields
<1> HIDE DEF c
<1>2. /\ q.ids \in Seq(Nat) /\ Len(q.ids) \in Nat
      /\ q.handle_len \in Nat /\ q.cached_len \in Nat /\ q.device_len \in Nat
      /\ q.handle_len <= Len(q.ids)
  BY DEF WellFormed
<1>3. CASE q.chunked
  <2>1. c.ids = q.ids
    BY <1>1, <1>3
  <2>2. HandleOf(c) = HandleOf(q)
    BY ONLY <1>1, <2>1 DEF HandleOf
  <2>3. WellFormed(c, prompt)
    <3>1. q.device_len < Len(q.ids) /\ q.ids = prompt
      BY <1>3 DEF WellFormed
    <3>2. q.handle_len <= q.cached_len /\ q.cached_len <= q.device_len /\ q.host_len \in Nat
      BY DEF WellFormed
    <3> QED
      BY ONLY <1>1, <1>2, <1>3, <2>1, <3>1, <3>2 DEF WellFormed
  <2> QED
    BY <2>2, <2>3 DEF c
<1>4. CASE ~q.chunked
  <2>1. c.ids \in Seq(Nat) /\ Len(c.ids) = Len(q.ids) + 1
    BY <1>1, <1>2, <1>4, AppendProperties
  <2>2. HandleOf(c) = HandleOf(q)
    BY <1>1, <1>2, <1>4, FirstTokensStay DEF HandleOf
  <2>3. WellFormed(c, prompt)
    BY <1>1, <1>2, <1>4, <2>1 DEF WellFormed
  <2> QED
    BY <2>2, <2>3 DEF c
<1> QED
  BY <1>3, <1>4

-----------------------------------------------------------------------------
(* Lengths *)

(* Rounding down to whole pages, or to nothing. *)
LEMMA InsertLength ==
    ASSUME NEW s \in Seq(Nat)
    PROVE  /\ InsertLen(s) \in Nat /\ InsertLen(s) <= Len(s)
           /\ \E k \in Nat : InsertLen(s) = PageSize * k
<1> DEFINE d == Len(s) \div PageSize
<1>1. Len(s) \in Nat
  OBVIOUS
<1>2. d \in Nat /\ PageSize * d \in Nat /\ PageSize * d <= Len(s)
  BY <1>1, PageArithmetic
<1>3. InsertLen(s) = PageSize * d \/ InsertLen(s) = 0
  BY DEF InsertLen, AlignDown
<1>4. 0 = PageSize * 0
  BY PageSizeAssumption
<1> HIDE DEF d
<1> QED
  BY <1>1, <1>2, <1>3, <1>4

(* How much of an object cache_req inserts. *)
InsertedIds(q) == SubSeq(q.ids, 1, Min({q.host_len, q.cached_len}))

(* It is no more than is computed. *)
LEMMA InsertedLength ==
    ASSUME NEW q, NEW prompt, WellFormed(q, prompt)
    PROVE  /\ InsertedIds(q) \in Seq(Nat)
           /\ InsertLen(InsertedIds(q)) \in Nat
           /\ InsertLen(InsertedIds(q)) <= q.cached_len
           /\ InsertLen(InsertedIds(q)) <= Len(InsertedIds(q))
           /\ SubSeq(InsertedIds(q), 1, InsertLen(InsertedIds(q)))
                = SubSeq(q.ids, 1, InsertLen(InsertedIds(q)))
<1> DEFINE m == Min({q.host_len, q.cached_len})
           n == InsertLen(InsertedIds(q))
<1>1. /\ q.ids \in Seq(Nat) /\ q.host_len \in Nat /\ q.cached_len \in Nat
      /\ q.cached_len <= Len(q.ids) /\ Len(q.ids) \in Nat
  BY DEF WellFormed
<1>2. m \in Nat /\ m <= q.cached_len /\ m <= Len(q.ids)
  <2>1. m = IF q.host_len <= q.cached_len THEN q.host_len ELSE q.cached_len
    BY <1>1, MinOfTwo
  <2> HIDE DEF m
  <2> QED
    BY <1>1, <2>1
<1>3. InsertedIds(q) = SubSeq(q.ids, 1, m)
  BY DEF InsertedIds
<1> HIDE DEF m
<1>4. InsertedIds(q) \in Seq(Nat) /\ Len(InsertedIds(q)) = m
  BY <1>1, <1>2, <1>3, FirstTokens
<1>5. n \in Nat /\ n <= m
  BY <1>4, InsertLength
<1> HIDE DEF n
<1>6. SubSeq(SubSeq(q.ids, 1, m), 1, n) = SubSeq(q.ids, 1, n)
  BY <1>1, <1>2, <1>5, FirstOfFirst
<1>7. n <= q.cached_len
  BY <1>1, <1>2, <1>5
<1> QED
  BY <1>3, <1>4, <1>5, <1>6, <1>7 DEF n

(* What _add_one_req leaves: the chunk that the budget allows, and no more than *)
(* the prompt.                                                                   *)
LEMMA AddedIsWellFormed ==
    ASSUME ObjectTypes, NEW r \in Req, NEW row, NEW n \in Nat, n < Len(Prompt[r]),
           NEW h \in Nat, h <= n,
           adder.token_budget \in Int, adder.token_budget > 0,
           AddOneReq(r, row, n, h)
    PROVE  /\ WellFormed(req'[r], Prompt[r])
           /\ HandleOf(req'[r]) = SubSeq(Prompt[r], 1, h)
           /\ req'[r].chunked => req'[r].device_len < Len(req'[r].ids)
<1> DEFINE remain == Len(Prompt[r]) - n
           size == ChunkSize(remain)
           q == [ids |-> Prompt[r], host_len |-> n + size, cached_len |-> n,
                 device_len |-> n + size, max_device_len |-> n + size + OutputLen(r),
                 table_idx |-> row, handle_len |-> h, chunked |-> size < remain]
<1>1. Prompt[r] \in Seq(Nat) /\ Len(Prompt[r]) \in Nat
  BY SchedulerAssumptions
<1>2. remain \in Nat /\ remain >= 1 /\ Len(Prompt[r]) = n + remain
  BY <1>1
<1>3. size \in Nat /\ size >= 1 /\ size <= remain
  <2> HIDE DEF remain
  <2>1. size = IF adder.token_budget <= remain THEN adder.token_budget ELSE remain
    BY <1>2, MinOfTwo DEF ChunkSize
  <2> HIDE DEF size
  <2> QED
    BY <1>2, <2>1
<1>4. req' = [req EXCEPT ![r] = q]
  BY DEF AddOneReq
<1>5. req'[r] = q
  BY <1>4 DEF ObjectTypes
<1>6. /\ q.ids = Prompt[r] /\ q.host_len = n + size /\ q.cached_len = n
      /\ q.device_len = n + size /\ q.handle_len = h /\ (q.chunked <=> size < remain)
  OBVIOUS
<1> HIDE DEF q, size, remain
<1>7. /\ q.host_len \in Nat /\ q.device_len \in Nat /\ q.cached_len <= q.device_len
      /\ q.cached_len < Len(q.ids)
      /\ ~q.chunked => q.device_len = Len(q.ids)
      /\ q.chunked => q.device_len < Len(q.ids)
  BY <1>1, <1>2, <1>3, <1>6
<1>8. WellFormed(q, Prompt[r])
  BY <1>1, <1>6, <1>7 DEF WellFormed
<1>9. HandleOf(q) = SubSeq(Prompt[r], 1, h)
  BY <1>6 DEF HandleOf
<1> QED
  BY <1>5, <1>7, <1>8, <1>9

(* The match of a request: cached, and shorter than its prompt. *)
LEMMA MatchedPrefix ==
    ASSUME NEW r \in Req, PrefixClosed(DOMAIN cache)
    PROVE  /\ Len(MatchReq(cache, r)) \in Nat
           /\ Len(MatchReq(cache, r)) < Len(Prompt[r])
           /\ SubSeq(Prompt[r], 1, Len(MatchReq(cache, r))) = MatchReq(cache, r)
           /\ PagePrefixes(MatchReq(cache, r)) \subseteq DOMAIN cache
<1> DEFINE l == Len(Prompt[r]) - 1
           ids == SubSeq(Prompt[r], 1, l)
           h == MatchReq(cache, r)
<1>1. Prompt[r] \in Seq(Nat) /\ Len(Prompt[r]) \in Nat /\ l \in Nat
  BY SchedulerAssumptions
<1> HIDE DEF l
<1>2. ids \in Seq(Nat) /\ Len(ids) = l
  <2>1. l <= Len(Prompt[r])
    BY <1>1 DEF l
  <2> QED
    BY <1>1, <2>1, FirstTokens
<1>3. h \in (PagePrefixes(ids) \cap DOMAIN cache) \cup {<<>>}
  <2>1. h = Longest(cache, ids)
    BY DEF MatchReq, l
  <2> HIDE DEF h, ids
  <2>2. \E x \in PagePrefixes(ids) \cup {<<>>} : IsMatch(DOMAIN cache, ids, x)
    BY <1>2, MatchExists
  <2> QED
    BY <2>1, <2>2 DEF Longest, IsMatch
<1> HIDE DEF h
<1>4. CASE h = <<>>
  <2>1. Len(h) = 0 /\ SubSeq(Prompt[r], 1, 0) = <<>> /\ 0 < Len(Prompt[r])
    BY <1>1, <1>4, SubSeqEmpty DEF l
  <2> QED
    BY <1>4, <2>1, NoPagePrefix DEF h
<1>5. CASE h # <<>>
  <2>1. h \in PagePrefixes(ids) /\ h \in DOMAIN cache
    BY <1>3, <1>5
  <2>2. PICK n \in 1..(Len(ids) \div PageSize) : h = SubSeq(ids, 1, PageSize * n)
    BY <2>1 DEF PagePrefixes
  <2>3. n \in Nat /\ PageSize * n \in Nat /\ PageSize * n <= l
    <3>1. n \in Nat /\ n <= l \div PageSize
      <4>1. l \div PageSize \in Nat
        BY <1>1, PageArithmetic
      <4> QED
        BY <1>2, <2>2, <4>1
    <3> QED
      BY <1>1, <3>1, PageArithmetic
  <2>4. Len(h) = PageSize * n
    BY <1>2, <2>2, PagePrefixOfPages
  <2>5. SubSeq(ids, 1, PageSize * n) = SubSeq(Prompt[r], 1, PageSize * n)
    <3>1. l <= Len(Prompt[r])
      BY <1>1 DEF l
    <3> QED
      BY <1>1, <2>3, <3>1, FirstOfFirst
  <2>6. Len(h) \in Nat /\ Len(h) < Len(Prompt[r])
    BY <1>1, <2>3, <2>4 DEF l
  <2>7. PagePrefixes(h) \subseteq DOMAIN cache
    BY <2>1 DEF PrefixClosed
  <2> QED
    BY <2>2, <2>4, <2>5, <2>6, <2>7 DEF h
<1> QED
  BY <1>4, <1>5

-----------------------------------------------------------------------------
(* The objects of the requests *)

(* There is no object yet. *)
LEMMA InitObjects == Init => ObjectInv
<1> SUFFICES ASSUME Init PROVE ObjectInv
  OBVIOUS
<1>1. \A r \in Req : req[r] = NoReq
  BY DEF Init
<1>2. ASSUME NEW prompt PROVE WellFormed(NoReq, prompt)
  BY DEF WellFormed, NoReq
<1>3. phase = "receive"
  BY DEF Init
<1> QED
  BY <1>1, <1>2, <1>3 DEF ObjectInv

(* Nothing is computed of a request whose object stays. *)
LEMMA ObjectsKept ==
    ASSUME ObjectInv, req' = req,
           phase' = "admit" => CutShort(adder.reqs)',
           phase' \in {"allocate", "forward"} => CutShort(batch.reqs)'
    PROVE  ObjectInv'
BY DEF ObjectInv

(* The object of the processed request is not one of a batch to come. *)
LEMMA ObjectProcessed ==
    ASSUME Inv, ObjectInv, ProcessFinished \/ ProcessPrefilled \/ ProcessDecoded
    PROVE  /\ ObjectInv'
           /\ \A s \in Req : s # Work.reqs[next].uid => req'[s] = req[s]
           /\ ~ProcessPrefilled => \A s \in Req : HandleOf(req'[s]) = HandleOf(req[s])
<1> DEFINE r == Work.reqs[next].uid
           h == CacheReq(cache, Appended(req[r]), FALSE).handle_len
<1>1. /\ \A s \in Req : WellFormed(req[s], Prompt[s]) /\ DOMAIN req[s] = Fields
      /\ DOMAIN req = Req
  BY DEF Inv, ObjectTypes, ObjectInv
<1>2. phase' = "process"
  BY DEF ProcessFinished, ProcessPrefilled, ProcessDecoded, InProcess
<1>3. CASE ProcessFinished \/ ProcessDecoded
  <2>1. req' = [req EXCEPT ![r] = Appended(req[r])]
    BY <1>3 DEF ProcessFinished, ProcessDecoded, Deliver
  <2> HIDE DEF r, h
  <2>2. \A s \in Req : req'[s] = req[s] \/ (s = r /\ req'[s] = Appended(req[s]))
    BY <1>1, <2>1
  <2>3. \A s \in Req : WellFormed(req'[s], Prompt[s]) /\ HandleOf(req'[s]) = HandleOf(req[s])
    BY <1>1, <2>2, AppendedIsWellFormed
  <2>4. ObjectInv'
    BY <1>2, <2>3 DEF ObjectInv
  <2>5. \A s \in Req : s # r => req'[s] = req[s]
    BY <1>1, <2>1
  <2> QED
    BY <2>3, <2>4, <2>5 DEF r
<1>4. CASE ProcessPrefilled
  <2>1. req' = [req EXCEPT ![r] = [Appended(req[r]) EXCEPT !.handle_len = h]]
    BY <1>4 DEF ProcessPrefilled
  <2>2. \A s \in Req : s # r => req'[s] = req[s]
    BY <1>1, <2>1
  <2>3. ASSUME r \in Req PROVE WellFormed(req'[r], Prompt[r])
    <3> DEFINE q == Appended(req[r])
    <3>1. req'[r] = [q EXCEPT !.handle_len = h]
      BY <1>1, <2>1, <2>3
    <3>2. DOMAIN q = Fields /\ WellFormed(q, Prompt[r])
      BY <1>1, <2>3, AppendedIsWellFormed, AppendedFields
    <3>3. h = InsertLen(InsertedIds(q))
      BY DEF CacheReq, InsertedIds
    <3> HIDE DEF q, h, r
    <3>4. h \in Nat /\ h <= q.cached_len
      BY <3>2, <3>3, InsertedLength
    <3> QED
      BY <3>1, <3>2, <3>4, NewHandleIsWellFormed
  <2> HIDE DEF r, h
  <2>4. \A s \in Req : WellFormed(req'[s], Prompt[s])
    BY <1>1, <2>2, <2>3
  <2> QED
    BY <1>2, <1>4, <2>2, <2>4 DEF ObjectInv, r
<1> QED
  BY <1>3, <1>4

(* A forward pass appends to the objects of its batch. *)
LEMMA ObjectForward ==
    ASSUME Inv, ObjectInv, Forward
    PROVE  /\ ObjectInv'
           /\ \A s \in Req : HandleOf(req'[s]) = HandleOf(req[s])
<1>1. \A s \in Req : WellFormed(req[s], Prompt[s]) /\ DOMAIN req[s] = Fields
  BY DEF Inv, ObjectTypes, ObjectInv
<1>2. PICK token \in [{s \in BatchUids : ~req[s].chunked} -> Sampled] :
         req' = [s \in Req |->
                   IF s \notin BatchUids THEN req[s]
                   ELSE Completed(req[s], IF req[s].chunked THEN Eos ELSE token[s])]
  BY DEF Forward
<1>3. phase = "forward" /\ phase' = "process"
  BY DEF Forward
<1>4. \A s \in BatchUids : req[s].chunked => req[s].device_len < Len(req[s].ids)
  <2> TAKE s \in BatchUids
  <2>1. PICK i \in DOMAIN batch.reqs : s = batch.reqs[i].uid
    BY DEF BatchUids
  <2>2. batch.reqs[i].chunked <=> req[s].chunked
    BY <1>3, <2>1 DEF Inv, BatchInv, Continuing
  <2> QED
    BY <1>3, <2>1, <2>2 DEF ObjectInv, CutShort
<1>5. \A s \in Req : WellFormed(req'[s], Prompt[s]) /\ HandleOf(req'[s]) = HandleOf(req[s])
  <2> TAKE s \in Req
  <2>1. CASE s \notin BatchUids
    BY <1>1, <1>2, <2>1
  <2>2. CASE s \in BatchUids
    <3>1. req'[s] = Completed(req[s], IF req[s].chunked THEN Eos ELSE token[s])
      BY <1>2, <2>2
    <3>2. ~req[s].chunked => token[s] \in Nat
      BY <2>2, SchedulerAssumptions
    <3>3. (IF req[s].chunked THEN Eos ELSE token[s]) \in Nat
      BY <3>2, SchedulerAssumptions
    <3> QED
      BY <1>1, <1>4, <2>2, <3>1, <3>3, CompletedIsWellFormed
  <2> QED
    BY <2>1, <2>2
<1> QED
  BY <1>3, <1>5 DEF ObjectInv

(* An admission writes the object of the candidate only. *)
LEMMA ObjectAdmitted ==
    ASSUME Inv, ObjectInv, PrefixClosed(DOMAIN cache), AdmitChunk \/ AdmitNew
    PROVE  /\ ObjectInv'
           /\ Candidate \in Req
           /\ \A s \in Req : s # Candidate => req'[s] = req[s]
           /\ AdmitChunk => HandleOf(req'[Candidate]) = HandleOf(req[Candidate])
           /\ AdmitNew => HandleOf(req'[Candidate]) = MatchReq(cache, Candidate)
<1> DEFINE r == Candidate
           a == adder.reqs
<1>1. /\ phase = "admit" /\ phase' = "admit" /\ adder.token_budget \in Int
      /\ adder.token_budget > 0 /\ Len(a) + 1 \in DOMAIN pending_list
      /\ r = pending_list[Len(a) + 1]
  BY AdmittedRequest DEF Inv, QueueTypes, Candidate
<1>2. r \in Req
  BY <1>1 DEF Inv, QueueTypes
<1>3. a \in Seq(Entry) /\ Len(a) \in Nat /\ DOMAIN a = 1..Len(a)
  BY LenProperties DEF Inv, QueueTypes
<1>4. \A i \in DOMAIN a : a[i].uid # r /\ a[i].uid \in Req
  <2> TAKE i \in DOMAIN a
  <2>1. a[i] \in Entry /\ a[i].uid = pending_list[i] /\ i \in Nat /\ i # Len(a) + 1 /\ i <= Len(a)
    BY <1>1, <1>3 DEF Inv, AddingInv
  <2>2. i \in DOMAIN pending_list
    BY <1>1, <1>3, <2>1 DEF Inv, AddingInv, QueueTypes
  <2> QED
    BY <1>1, <2>1, <2>2 DEF Entry, Inv, PlacesDisjoint, IsInjective
<1>5. \A s \in Req : WellFormed(req[s], Prompt[s])
  BY DEF ObjectInv
<1>6. DOMAIN req = Req /\ ObjectTypes
  BY DEF Inv, ObjectTypes
<1>7. ASSUME NEW row \in Row, NEW n \in Nat, n < Len(Prompt[r]), NEW h \in Nat, h <= n,
             AddOneReq(r, row, n, h)
      PROVE  /\ ObjectInv'
             /\ \A s \in Req : s # r => req'[s] = req[s]
             /\ HandleOf(req'[r]) = SubSeq(Prompt[r], 1, h)
  <2> HIDE DEF r, a
  <2>1. /\ req' = [req EXCEPT ![r] = req'[r]]
        /\ adder'.reqs = Append(adder.reqs, [uid |-> r, chunked |-> req'[r].chunked])
        /\ req'[r].chunked \in BOOLEAN
    BY <1>1, <1>2, <1>6, <1>7, AddedRequest
  <2>2. /\ WellFormed(req'[r], Prompt[r])
        /\ HandleOf(req'[r]) = SubSeq(Prompt[r], 1, h)
        /\ req'[r].chunked => req'[r].device_len < Len(req'[r].ids)
    BY <1>1, <1>2, <1>6, <1>7, AddedIsWellFormed
  <2>3. \A s \in Req : s # r => req'[s] = req[s]
    BY <1>6, <2>1
  <2>4. [uid |-> r, chunked |-> req'[r].chunked] \in Entry
    BY <1>2, <2>1 DEF Entry
  <2>5. /\ DOMAIN adder'.reqs = 1..(Len(a) + 1)
        /\ \A i \in 1..Len(a) : adder'.reqs[i] = a[i]
        /\ adder'.reqs[Len(a) + 1].uid = r
    <3>1. adder'.reqs = Append(a, [uid |-> r, chunked |-> req'[r].chunked])
      BY <2>1 DEF a
    <3>2. /\ adder'.reqs \in Seq(Entry) /\ Len(adder'.reqs) = Len(a) + 1
          /\ \A i \in 1..Len(a) : adder'.reqs[i] = a[i]
          /\ adder'.reqs[Len(a) + 1] = [uid |-> r, chunked |-> req'[r].chunked]
      BY <1>3, <2>4, <3>1, AppendProperties
    <3> QED
      BY <3>2, LenProperties
  <2>6. CutShort(a)
    BY <1>1 DEF ObjectInv, a
  <2>7. CutShort(adder.reqs)'
    <3> SUFFICES ASSUME NEW i \in DOMAIN adder'.reqs, adder'.reqs[i].chunked
                 PROVE  req'[adder'.reqs[i].uid].device_len < Len(req'[adder'.reqs[i].uid].ids)
      BY DEF CutShort
    <3>1. CASE i = Len(a) + 1
      <4>1. adder'.reqs[i].uid = r
        BY <2>5, <3>1
      <4>2. req'[r].chunked
        BY <2>1, <3>1, <1>3, <2>4, AppendProperties DEF a
      <4> QED
        BY <2>2, <4>1, <4>2
    <3>2. CASE i # Len(a) + 1
      <4>1. i \in DOMAIN a /\ adder'.reqs[i] = a[i]
        BY <1>3, <2>5, <3>2
      <4> QED
        BY <1>4, <2>3, <2>6, <4>1 DEF CutShort
    <3> QED
      BY <3>1, <3>2
  <2>8. \A s \in Req : WellFormed(req'[s], Prompt[s])
    BY <1>5, <2>2, <2>3
  <2> QED
    BY <1>1, <2>2, <2>3, <2>7, <2>8 DEF ObjectInv
<1>8. CASE AdmitChunk
  <2>1. /\ AddOneReq(r, req[r].table_idx, req[r].cached_len, req[r].handle_len)
        /\ req[r].chunked
    BY <1>8 DEF AdmitChunk, Continuing
  <2>2. req[r].table_idx \in Row
    BY <1>2, <1>6 DEF ObjectTypes
  <2> HIDE DEF r, a
  <2>3. /\ req[r].cached_len \in Nat /\ req[r].cached_len < Len(Prompt[r])
        /\ req[r].handle_len \in Nat /\ req[r].handle_len <= req[r].cached_len
        /\ req[r].ids = Prompt[r]
    BY <1>2, <1>5, <2>1 DEF WellFormed
  <2>4. HandleOf(req[r]) = SubSeq(Prompt[r], 1, req[r].handle_len)
    BY <2>3 DEF HandleOf
  <2>5. AdmitNew => HandleOf(req'[r]) = MatchReq(cache, r)
    BY <1>8, <2>1 DEF AdmitNew, Continuing, r
  <2> QED
    BY <1>2, <1>7, <2>1, <2>2, <2>3, <2>4, <2>5 DEF r
<1>9. CASE AdmitNew
  <2> DEFINE n == Len(MatchReq(cache, r))
  <2>1. AddOneReq(r, Last(row_slots), n, n) /\ ~req[r].chunked /\ row_slots # <<>>
    BY <1>9 DEF AdmitNew, Continuing, CanAllocate
  <2>2. Last(row_slots) \in Row
    BY <2>1 DEF Last, Inv, QueueTypes
  <2>3. /\ n \in Nat /\ n < Len(Prompt[r]) /\ n <= n
        /\ SubSeq(Prompt[r], 1, n) = MatchReq(cache, r)
    BY <1>2, MatchedPrefix
  <2>4. ~AdmitChunk
    BY <2>1 DEF AdmitChunk, Continuing
  <2> HIDE DEF r, a, n
  <2> QED
    BY <1>2, <1>7, <2>1, <2>2, <2>3, <2>4 DEF r
<1> QED
  BY <1>8, <1>9

(* What a request holds a handle to is computed in every state. *)
LEMMA ObjectStep ==
    ASSUME Inv, ObjectInv, PrefixClosed(DOMAIN cache), [Next]_vars
    PROVE  ObjectInv'
<1>1. CASE UNCHANGED vars
  BY <1>1, ObjectsKept DEF vars, loop_vars, queue_vars, ObjectInv, CutShort
<1>2. ASSUME NEW r \in Req, ReceiveUser(r) \/ ReceiveAbort(r)
      PROVE  ObjectInv'
  <2>1. req' = req /\ phase' \in {"receive", "failed"}
    BY <1>2 DEF ReceiveUser, ReceiveAbort, FreeNow, loop_vars
  <2> QED
    BY <2>1, ObjectsKept
<1>3. CASE StartSchedule
  <2>1. req' = req /\ phase' = "admit" /\ adder'.reqs = <<>>
    BY <1>3 DEF StartSchedule, queue_vars
  <2> QED
    BY <2>1, ObjectsKept DEF CutShort
<1>4. CASE SchedulePrefill \/ ScheduleDecode
  <2>1. /\ req' = req /\ phase = "admit" /\ phase' = "allocate"
        /\ batch'.reqs = adder.reqs \/ \A i \in DOMAIN batch'.reqs : ~batch'.reqs[i].chunked
    BY <1>4 DEF SchedulePrefill, ScheduleDecode, queue_vars
  <2>2. CutShort(batch.reqs)'
    BY <2>1 DEF CutShort, ObjectInv
  <2> QED
    BY <2>1, <2>2, ObjectsKept
<1>5. CASE Allocate
  <2>1. req' = req /\ batch' = batch /\ phase = "allocate" /\ phase' \in {"forward", "failed"}
    BY <1>5 DEF Allocate, AllocateFree, AllocateEvict, AllocateFails, queue_vars
  <2>2. CutShort(batch.reqs)'
    BY <2>1 DEF CutShort, ObjectInv
  <2> QED
    BY <2>1, <2>2, ObjectsKept
<1>6. CASE ScheduleNothing \/ ProcessChunk \/ ProcessFails \/ EndIteration
  <2>1. req' = req /\ phase' \in {"process", "failed", "receive"}
    BY <1>6 DEF ScheduleNothing, ProcessChunk, ProcessFails, EndIteration, InProcess, queue_vars
  <2> QED
    BY <2>1, ObjectsKept
<1> QED
  BY <1>1, <1>2, <1>3, <1>4, <1>5, <1>6, ObjectAdmitted, ObjectForward, ObjectProcessed
     DEF Next, Receive, Loop, Admit, Process

-----------------------------------------------------------------------------
(* What cache_req does to the cache *)

RefCountIn(cc, p) == IF p \in DOMAIN cc THEN cc[p].ref_count ELSE 0

(* Locking a handle raises the counts of its prefixes by one, ... *)
LEMMA LockEffect ==
    ASSUME NEW cc, \A p \in DOMAIN cc : DOMAIN cc[p] = {"page", "ref_count"}, NEW h,
           \A p \in DOMAIN cc : cc[p].ref_count \in Int,
           NEW x, x = LockHandle(cc, h)
    PROVE  /\ DOMAIN x = DOMAIN cc
           /\ \A p \in DOMAIN cc :
                 /\ DOMAIN x[p] = {"page", "ref_count"}
                 /\ x[p].page = cc[p].page
                 /\ x[p].ref_count = cc[p].ref_count + (IF p \in PagePrefixes(h) THEN 1 ELSE 0)
BY DEF LockHandle

(* ... and unlocking it lowers them. *)
LEMMA UnlockEffect ==
    ASSUME NEW cc, \A p \in DOMAIN cc : DOMAIN cc[p] = {"page", "ref_count"}, NEW h,
           \A p \in DOMAIN cc : cc[p].ref_count \in Int,
           NEW x, x = UnlockHandle(cc, h)
    PROVE  /\ DOMAIN x = DOMAIN cc
           /\ \A p \in DOMAIN cc :
                 /\ DOMAIN x[p] = {"page", "ref_count"}
                 /\ x[p].page = cc[p].page
                 /\ x[p].ref_count = cc[p].ref_count - (IF p \in PagePrefixes(h) THEN 1 ELSE 0)
BY DEF UnlockHandle

(* Who holds a lock on a prefix. *)
Holders(p) == {r \in live : p \in PagePrefixes(HandleOf(req[r]))}

(* The locks are as many as the holders, cached or not. *)
LEMMA LocksAreHeld ==
    ASSUME Inv, RefCountsExact
    PROVE  \A p : /\ IsFiniteSet(Holders(p)) /\ Cardinality(Holders(p)) \in Nat
                  /\ RefCountIn(cache, p) = Cardinality(Holders(p))
<1> TAKE p
<1>1. IsFiniteSet(live)
  BY SchedulerAssumptions, FS_Subset DEF Inv, QueueTypes
<1>2. Holders(p) \subseteq live
  BY DEF Holders
<1>3. IsFiniteSet(Holders(p)) /\ Cardinality(Holders(p)) \in Nat
  BY <1>1, <1>2, FS_Subset, FS_CardinalityType
<1>4. CASE p \in DOMAIN cache
  BY <1>3, <1>4 DEF RefCountsExact, RefCountIn, Holders
<1>5. CASE p \notin DOMAIN cache
  <2>1. Holders(p) = {}
    BY <1>5 DEF RefCountsExact, Holders
  <2> QED
    BY <1>3, <1>5, <2>1, FS_EmptySet DEF RefCountIn
<1> QED
  BY <1>4, <1>5

(* The page of a prefix that cache_req inserts: the one its row has for it. *)
NewPage(q, p) == page_table[q.table_idx][Len(p) \div PageSize - 1]

(* The prefixes that cache_req inserts are those of the handle it leaves. *)
LEMMA CacheReqEffect ==
    ASSUME Inv, RefInv, NEW q, NEW prompt, WellFormed(q, prompt), NEW finished \in BOOLEAN
    PROVE  LET c == CacheReq(cache, q, finished)
               kept == PagePrefixes(SubSeq(q.ids, 1, c.handle_len))
               old == PagePrefixes(HandleOf(q))
           IN  /\ c.handle_len \in Nat /\ c.handle_len <= q.cached_len
               /\ DOMAIN c.cache = DOMAIN cache \cup kept
               /\ PrefixClosed(DOMAIN c.cache)
               /\ \A p \in DOMAIN c.cache :
                     /\ DOMAIN c.cache[p] = {"page", "ref_count"}
                     /\ c.cache[p].page = IF p \in DOMAIN cache THEN cache[p].page
                                          ELSE NewPage(q, p)
                     /\ c.cache[p].ref_count =
                          RefCountIn(cache, p) - (IF p \in old THEN 1 ELSE 0)
                            + (IF ~finished /\ p \in kept THEN 1 ELSE 0)
<1> DEFINE c == CacheReq(cache, q, finished)
           ids == InsertedIds(q)
           n == InsertLen(ids)
           h == SubSeq(ids, 1, n)
           kept == PagePrefixes(h)
           old == PagePrefixes(HandleOf(q))
           inserted == [p \in DOMAIN cache \cup kept |->
                        IF p \in DOMAIN cache THEN cache[p]
                        ELSE [page |-> page_table[q.table_idx][Len(p) \div PageSize - 1],
                              ref_count |-> 0]]
           unlocked == UnlockHandle(inserted, HandleOf(q))
<1>1. /\ c.handle_len = n
      /\ c.cache = IF finished THEN unlocked ELSE LockHandle(unlocked, h)
  BY DEF CacheReq, InsertedIds
<1>2. ids \in Seq(Nat) /\ n \in Nat /\ n <= q.cached_len /\ n <= Len(ids)
      /\ h = SubSeq(q.ids, 1, n)
  BY InsertedLength
<1>3. h \in Seq(Nat)
  <2> HIDE DEF ids, n
  <2> QED
    BY <1>2, FirstTokens
<1>4. \A p \in kept : PagePrefixes(p) \subseteq kept
  <2> HIDE DEF h
  <2> QED
    BY <1>3, PagePrefixesNest
<1>5. CacheEntries /\ PrefixClosed(DOMAIN cache)
  BY DEF RefInv
<1> HIDE DEF ids, n, h, kept, old
<1>6. \A p : RefCountIn(cache, p) \in Int
  BY LocksAreHeld DEF RefInv
<1>7. /\ DOMAIN inserted = DOMAIN cache \cup kept
      /\ \A p \in DOMAIN inserted :
            /\ DOMAIN inserted[p] = {"page", "ref_count"}
            /\ inserted[p].page = IF p \in DOMAIN cache THEN cache[p].page ELSE NewPage(q, p)
            /\ inserted[p].ref_count = RefCountIn(cache, p)
            /\ inserted[p].ref_count \in Int
  BY <1>5, <1>6 DEF CacheEntries, RefCountIn, NewPage
<1> HIDE DEF inserted
<1>8. /\ DOMAIN unlocked = DOMAIN cache \cup kept
      /\ \A p \in DOMAIN unlocked :
            /\ DOMAIN unlocked[p] = {"page", "ref_count"}
            /\ unlocked[p].page = IF p \in DOMAIN cache THEN cache[p].page ELSE NewPage(q, p)
            /\ unlocked[p].ref_count = RefCountIn(cache, p) - (IF p \in old THEN 1 ELSE 0)
            /\ unlocked[p].ref_count \in Int
  <2>2. unlocked = UnlockHandle(inserted, HandleOf(q))
    OBVIOUS
  <2> HIDE DEF unlocked, c
  <2>1. /\ DOMAIN unlocked = DOMAIN inserted
        /\ \A p \in DOMAIN inserted :
              /\ DOMAIN unlocked[p] = {"page", "ref_count"}
              /\ unlocked[p].page = inserted[p].page
              /\ unlocked[p].ref_count =
                    inserted[p].ref_count - (IF p \in old THEN 1 ELSE 0)
    <3>1. /\ \A p \in DOMAIN inserted : DOMAIN inserted[p] = {"page", "ref_count"}
          /\ \A p \in DOMAIN inserted : inserted[p].ref_count \in Int
      BY <1>7
    <3> QED
      BY ONLY <2>2, <3>1, UnlockEffect DEF old
  <2> QED
    BY <1>6, <1>7, <2>1
<1> HIDE DEF unlocked
<1>9. /\ DOMAIN c.cache = DOMAIN cache \cup kept
      /\ \A p \in DOMAIN c.cache :
            /\ DOMAIN c.cache[p] = {"page", "ref_count"}
            /\ c.cache[p].page = IF p \in DOMAIN cache THEN cache[p].page ELSE NewPage(q, p)
            /\ c.cache[p].ref_count =
                 RefCountIn(cache, p) - (IF p \in old THEN 1 ELSE 0)
                   + (IF ~finished /\ p \in kept THEN 1 ELSE 0)
  <2> HIDE DEF c
  <2>1. CASE finished
    <3>1. c.cache = unlocked
      BY <1>1, <2>1
    <3>2. \A p \in DOMAIN unlocked :
             RefCountIn(cache, p) - (IF p \in old THEN 1 ELSE 0)
               = RefCountIn(cache, p) - (IF p \in old THEN 1 ELSE 0)
                   + (IF ~finished /\ p \in kept THEN 1 ELSE 0)
      BY <1>6, <2>1
    <3> QED
      BY <1>8, <3>1, <3>2
  <2>2. CASE ~finished
    <3>1. c.cache = LockHandle(unlocked, h)
      BY <1>1, <2>2
    <3>2. /\ DOMAIN c.cache = DOMAIN unlocked
          /\ \A p \in DOMAIN unlocked :
                /\ DOMAIN c.cache[p] = {"page", "ref_count"}
                /\ c.cache[p].page = unlocked[p].page
                /\ c.cache[p].ref_count =
                      unlocked[p].ref_count + (IF p \in kept THEN 1 ELSE 0)
      BY <1>8, <3>1, LockEffect DEF kept
    <3> QED
      BY <1>6, <1>8, <2>2, <3>2
  <2> QED
    BY <2>1, <2>2
<1>10. PrefixClosed(DOMAIN c.cache)
  <2> HIDE DEF c
  <2> QED
    BY <1>4, <1>5, <1>9 DEF PrefixClosed
<1> HIDE DEF c
<1>11. c.handle_len = n /\ n \in Nat /\ n <= q.cached_len /\ SubSeq(q.ids, 1, c.handle_len) = h
  BY <1>1, <1>2 DEF c
<1> QED
  BY <1>9, <1>10, <1>11 DEF c, kept, old

-----------------------------------------------------------------------------
(* The counts follow the handles *)

(* Nothing is cached. *)
LEMMA InitRefs == Init => RefInv
<1> SUFFICES ASSUME Init PROVE RefInv
  OBVIOUS
<1>1. live = {} /\ DOMAIN cache = {}
  BY DEF Init
<1> QED
  BY <1>1 DEF RefInv, CacheEntries, PrefixClosed, RefCountsExact

(* Nobody takes, moves or drops a handle. *)
LEMMA RefsKept ==
    ASSUME RefInv, cache' = cache, live' = live,
           \A s \in live : HandleOf(req'[s]) = HandleOf(req[s])
    PROVE  RefInv'
<1>1. \A p : {s \in live' : p \in PagePrefixes(HandleOf(req'[s]))}
               = {s \in live : p \in PagePrefixes(HandleOf(req[s]))}
  OBVIOUS
<1> QED
  BY <1>1 DEF RefInv, CacheEntries, RefCountsExact

(* A request is admitted and locks its match. *)
LEMMA RefsTaken ==
    ASSUME Inv, RefInv, NEW r, r \notin live, live' = live \cup {r},
           cache' = LockHandle(cache, HandleOf(req'[r])),
           PagePrefixes(HandleOf(req'[r])) \subseteq DOMAIN cache,
           \A s \in live : HandleOf(req'[s]) = HandleOf(req[s])
    PROVE  RefInv'
<1> DEFINE new == PagePrefixes(HandleOf(req'[r]))
           Now(p) == {s \in live' : p \in PagePrefixes(HandleOf(req'[s]))}
<1>1. CacheEntries /\ PrefixClosed(DOMAIN cache) /\ RefCountsExact
  BY DEF RefInv
<1>2. \A p : /\ IsFiniteSet(Holders(p)) /\ Cardinality(Holders(p)) \in Nat
             /\ RefCountIn(cache, p) = Cardinality(Holders(p))
  BY <1>1, LocksAreHeld
<1>3. \A p \in DOMAIN cache : cache[p].ref_count = Cardinality(Holders(p))
                              /\ cache[p].ref_count \in Int
  BY <1>2 DEF RefCountIn
<1>4. /\ DOMAIN cache' = DOMAIN cache
      /\ \A p \in DOMAIN cache :
            /\ DOMAIN cache'[p] = {"page", "ref_count"}
            /\ cache'[p].ref_count = cache[p].ref_count + (IF p \in new THEN 1 ELSE 0)
  BY <1>1, <1>3, LockEffect DEF CacheEntries
<1>5. \A p : Now(p) = IF p \in new THEN Holders(p) \cup {r} ELSE Holders(p)
  BY DEF Holders
<1>6. \A p : Cardinality(Now(p)) = Cardinality(Holders(p)) + (IF p \in new THEN 1 ELSE 0)
  <2> TAKE p
  <2>1. r \notin Holders(p)
    BY DEF Holders
  <2>2. Cardinality(Holders(p) \cup {r}) = Cardinality(Holders(p)) + 1
    BY <1>2, <2>1, FS_AddElement
  <2>3. Now(p) = IF p \in new THEN Holders(p) \cup {r} ELSE Holders(p)
    BY <1>5
  <2> HIDE DEF new, Now
  <2>4. CASE p \in new
    BY <2>2, <2>3, <2>4
  <2>5. CASE p \notin new
    BY <1>2, <2>3, <2>5
  <2> QED
    BY <2>4, <2>5
<1>7. \A s \in live' : PagePrefixes(HandleOf(req'[s])) \subseteq DOMAIN cache'
  BY <1>1, <1>4 DEF RefCountsExact
<1>8. \A p \in DOMAIN cache' : cache'[p].ref_count = Cardinality(Now(p))
  <2> HIDE DEF new, Now
  <2> QED
    BY <1>3, <1>4, <1>6
<1>9. RefCountsExact' /\ CacheEntries' /\ PrefixClosed(DOMAIN cache')
  BY <1>1, <1>4, <1>7, <1>8 DEF RefCountsExact, CacheEntries
<1> QED
  BY <1>9 DEF RefInv

(* A request is over: its prefix stays cached, its lock goes. *)
LEMMA RefsFreed ==
    ASSUME Inv, RefInv, NEW r \in live, NEW q, NEW prompt, WellFormed(q, prompt),
           HandleOf(q) = HandleOf(req[r]),
           cache' = CacheReq(cache, q, TRUE).cache, live' = live \ {r},
           \A s \in live : HandleOf(req'[s]) = HandleOf(req[s])
    PROVE  RefInv'
<1> DEFINE old == PagePrefixes(HandleOf(req[r]))
           kept == PagePrefixes(SubSeq(q.ids, 1, CacheReq(cache, q, TRUE).handle_len))
           Now(p) == {s \in live' : p \in PagePrefixes(HandleOf(req'[s]))}
<1>1. RefCountsExact
  BY DEF RefInv
<1>2. \A p : /\ IsFiniteSet(Holders(p)) /\ Cardinality(Holders(p)) \in Nat
             /\ RefCountIn(cache, p) = Cardinality(Holders(p))
  BY <1>1, LocksAreHeld
<1>3. /\ DOMAIN cache' = DOMAIN cache \cup kept
      /\ PrefixClosed(DOMAIN cache')
      /\ \A p \in DOMAIN cache' :
            /\ DOMAIN cache'[p] = {"page", "ref_count"}
            /\ cache'[p].ref_count = RefCountIn(cache, p) - (IF p \in old THEN 1 ELSE 0)
  <2> DEFINE c == CacheReq(cache, q, TRUE).cache
  <2>1. /\ DOMAIN c = DOMAIN cache \cup kept
        /\ PrefixClosed(DOMAIN c)
        /\ \A p \in DOMAIN c :
              /\ DOMAIN c[p] = {"page", "ref_count"}
              /\ c[p].ref_count = RefCountIn(cache, p) - (IF p \in old THEN 1 ELSE 0)
                                    + (IF ~TRUE /\ p \in kept THEN 1 ELSE 0)
    BY CacheReqEffect
  <2> HIDE DEF c, old, kept
  <2>2. cache' = c
    BY DEF c
  <2>3. \A p \in DOMAIN c : c[p].ref_count = RefCountIn(cache, p) - (IF p \in old THEN 1 ELSE 0)
    BY <1>2, <2>1
  <2> QED
    BY <2>1, <2>2, <2>3
<1>4. \A p : Now(p) = Holders(p) \ {r}
  BY DEF Holders
<1>5. \A p : Cardinality(Now(p)) = Cardinality(Holders(p)) - (IF p \in old THEN 1 ELSE 0)
  <2> TAKE p
  <2>1. r \in Holders(p) <=> p \in old
    BY DEF Holders
  <2>2. Cardinality(Holders(p) \ {r}) =
           IF r \in Holders(p) THEN Cardinality(Holders(p)) - 1 ELSE Cardinality(Holders(p))
    BY <1>2, FS_RemoveElement
  <2>3. Now(p) = Holders(p) \ {r}
    BY <1>4
  <2> HIDE DEF old, Now
  <2>4. CASE p \in old
    BY <2>1, <2>2, <2>3, <2>4
  <2>5. CASE p \notin old
    BY <1>2, <2>1, <2>2, <2>3, <2>5
  <2> QED
    BY <2>4, <2>5
<1>6. \A s \in live' : PagePrefixes(HandleOf(req'[s])) \subseteq DOMAIN cache'
  BY <1>1, <1>3 DEF RefCountsExact
<1>7. \A p \in DOMAIN cache' : cache'[p].ref_count = Cardinality(Now(p))
  <2> HIDE DEF old, kept, Now
  <2> QED
    BY <1>2, <1>3, <1>5
<1>8. RefCountsExact' /\ CacheEntries'
  BY <1>3, <1>6, <1>7 DEF RefCountsExact, CacheEntries
<1> QED
  BY <1>3, <1>8 DEF RefInv

(* A request's computed prefix is cached and it holds that instead of what it *)
(* held before.                                                                *)
LEMMA RefsMoved ==
    ASSUME Inv, RefInv, NEW r \in live, NEW q, NEW prompt, WellFormed(q, prompt),
           HandleOf(q) = HandleOf(req[r]),
           cache' = CacheReq(cache, q, FALSE).cache, live' = live,
           HandleOf(req'[r]) = SubSeq(q.ids, 1, CacheReq(cache, q, FALSE).handle_len),
           \A s \in live : s # r => HandleOf(req'[s]) = HandleOf(req[s])
    PROVE  RefInv'
<1> DEFINE old == PagePrefixes(HandleOf(req[r]))
           kept == PagePrefixes(HandleOf(req'[r]))
           Now(p) == {s \in live' : p \in PagePrefixes(HandleOf(req'[s]))}
<1>1. RefCountsExact
  BY DEF RefInv
<1>2. \A p : /\ IsFiniteSet(Holders(p)) /\ Cardinality(Holders(p)) \in Nat
             /\ RefCountIn(cache, p) = Cardinality(Holders(p))
  BY <1>1, LocksAreHeld
<1>3. /\ DOMAIN cache' = DOMAIN cache \cup kept
      /\ PrefixClosed(DOMAIN cache')
      /\ \A p \in DOMAIN cache' :
            /\ DOMAIN cache'[p] = {"page", "ref_count"}
            /\ cache'[p].ref_count = RefCountIn(cache, p) - (IF p \in old THEN 1 ELSE 0)
                                       + (IF p \in kept THEN 1 ELSE 0)
  BY CacheReqEffect
<1>4. \A p : Now(p) = IF p \in kept THEN (Holders(p) \ {r}) \cup {r} ELSE Holders(p) \ {r}
  BY DEF Holders
<1>5. \A p : Cardinality(Now(p)) = Cardinality(Holders(p)) - (IF p \in old THEN 1 ELSE 0)
                                     + (IF p \in kept THEN 1 ELSE 0)
  <2> TAKE p
  <2>1. r \in Holders(p) <=> p \in old
    BY DEF Holders
  <2>2. /\ IsFiniteSet(Holders(p) \ {r})
        /\ Cardinality(Holders(p) \ {r}) =
             IF r \in Holders(p) THEN Cardinality(Holders(p)) - 1 ELSE Cardinality(Holders(p))
    BY <1>2, FS_RemoveElement
  <2>3. Cardinality((Holders(p) \ {r}) \cup {r}) = Cardinality(Holders(p) \ {r}) + 1
    BY <2>2, FS_AddElement
  <2>4. Now(p) = IF p \in kept THEN (Holders(p) \ {r}) \cup {r} ELSE Holders(p) \ {r}
    BY <1>4
  <2>5. Cardinality(Holders(p)) \in Nat
    BY <1>2
  <2> HIDE DEF old, kept, Now
  <2>6. CASE p \in kept
    <3>1. Now(p) = (Holders(p) \ {r}) \cup {r}
      BY <2>4, <2>6
    <3> QED
      BY <2>1, <2>2, <2>3, <2>5, <2>6, <3>1
  <2>7. CASE p \notin kept
    <3>1. Now(p) = Holders(p) \ {r}
      BY <2>4, <2>7
    <3> QED
      BY <2>1, <2>2, <2>5, <2>7, <3>1
  <2> QED
    BY <2>6, <2>7
<1>6. \A s \in live' : PagePrefixes(HandleOf(req'[s])) \subseteq DOMAIN cache'
  BY <1>1, <1>3 DEF RefCountsExact
<1>7. \A p \in DOMAIN cache' : cache'[p].ref_count = Cardinality(Now(p))
  <2> HIDE DEF old, kept, Now
  <2> QED
    BY <1>2, <1>3, <1>5
<1>8. RefCountsExact' /\ CacheEntries'
  BY <1>3, <1>6, <1>7 DEF RefCountsExact, CacheEntries
<1> QED
  BY <1>3, <1>8 DEF RefInv

(* What is evicted is locked by nobody. *)
LEMMA RefsEvicted ==
    ASSUME Inv, RefInv, AllocateEvict
    PROVE  RefInv'
<1>1. PICK V \in Victims(cache, NeededPages - Len(free_slots)) :
         cache' = [p \in DOMAIN cache \ V |-> cache[p]]
  BY DEF AllocateEvict
<1>2. live' = live /\ req' = req
  BY DEF AllocateEvict, queue_vars, ghost_vars
<1>3. /\ V \subseteq DOMAIN cache /\ \A p \in V : cache[p].ref_count = 0
      /\ PrefixClosed(DOMAIN cache \ V)
  BY DEF Victims, Evictable
<1>4. DOMAIN cache' = DOMAIN cache \ V /\ \A p \in DOMAIN cache' : cache'[p] = cache[p]
  BY <1>1
<1>5. \A p \in V : Holders(p) = {}
  <2> TAKE p \in V
  <2>1. IsFiniteSet(Holders(p)) /\ Cardinality(Holders(p)) = 0
    BY <1>3, LocksAreHeld DEF RefInv, RefCountIn
  <2> QED
    BY <2>1, FS_EmptySet
<1>6. \A s \in live : PagePrefixes(HandleOf(req[s])) \subseteq DOMAIN cache \ V
  BY <1>5 DEF Holders, RefInv, RefCountsExact
<1> QED
  BY <1>2, <1>3, <1>4, <1>6 DEF RefInv, RefCountsExact, CacheEntries

(* An abort frees who is partly prefilled or runs. *)
LEMMA AbortedHoldsRow ==
    ASSUME Inv, NEW r \in Req, phase = "receive",
           \/ Contains(pending_list, r) /\ Continuing(r)
           \/ r \in running_reqs
    PROVE  r \in live
BY DEF Inv, PlacesDisjoint, HeadIsChunked, Admitted, Contains, QueueTypes

(* Every step keeps the counts exact. *)
LEMMA RefStep ==
    ASSUME Inv, FlightInv, ObjectInv, RefInv, [Next]_vars
    PROVE  RefInv'
<1>1. /\ live \subseteq Req /\ DOMAIN req = Req
      /\ \A s \in Req : DOMAIN req[s] = Fields /\ WellFormed(req[s], Prompt[s])
  BY DEF Inv, QueueTypes, ObjectTypes, ObjectInv
<1>2. CASE UNCHANGED vars
  BY <1>2, RefsKept DEF vars, queue_vars, pool_vars, ghost_vars
<1>3. ASSUME NEW r \in Req, ReceiveUser(r)
      PROVE  RefInv'
  BY <1>3, RefsKept DEF ReceiveUser, pool_vars, ghost_vars
<1>4. ASSUME NEW r \in Req, ReceiveAbort(r)
      PROVE  RefInv'
  <2>1. phase = "receive" /\ req' = req
    BY <1>4 DEF ReceiveAbort
  <2>2. CASE live' = live /\ cache' = cache
    BY <2>1, <2>2, RefsKept
  <2>3. CASE /\ cache' = CacheReq(cache, req[r], TRUE).cache /\ live' = live \ {r}
             /\ \/ Contains(pending_list, r) /\ Continuing(r)
                \/ r \in running_reqs
    <3>1. r \in live
      BY <2>1, <2>3, AbortedHoldsRow
    <3> QED
      BY <1>1, <2>1, <2>3, <3>1, RefsFreed
  <2> QED
    BY <1>4, <2>2, <2>3 DEF ReceiveAbort, FreeNow, pool_vars
<1>5. CASE \/ StartSchedule \/ SchedulePrefill \/ ScheduleDecode \/ ScheduleNothing
           \/ AllocateFree \/ AllocateFails \/ ProcessChunk \/ ProcessFails \/ EndIteration
  <2>1. UNCHANGED <<live, cache, req>>
    BY <1>5 DEF StartSchedule, SchedulePrefill, ScheduleDecode, ScheduleNothing,
                AllocateFree, AllocateFails, ProcessChunk, ProcessFails, EndIteration,
                queue_vars, pool_vars, ghost_vars
  <2> QED
    BY <2>1, RefsKept
<1>6. CASE AdmitChunk \/ AdmitNew
  <2> DEFINE r == Candidate
  <2>1. /\ r \in Req /\ \A s \in Req : s # r => req'[s] = req[s]
        /\ AdmitChunk => HandleOf(req'[r]) = HandleOf(req[r])
        /\ AdmitNew => HandleOf(req'[r]) = MatchReq(cache, r)
    BY <1>6, ObjectAdmitted DEF RefInv
  <2>2. CASE AdmitChunk
    <3>1. UNCHANGED <<live, cache>>
      BY <2>2 DEF AdmitChunk, pool_vars, ghost_vars
    <3> QED
      BY <1>1, <2>1, <2>2, <3>1, RefsKept
  <2>3. CASE AdmitNew
    <3>1. /\ ~Continuing(r) /\ live' = live \cup {r}
          /\ cache' = LockHandle(cache, MatchReq(cache, r))
      BY <2>3 DEF AdmitNew
    <3>2. /\ phase = "admit" /\ r = pending_list[Len(adder.reqs) + 1]
          /\ Len(adder.reqs) + 1 \in DOMAIN pending_list
      BY <2>3, AdmittedRequest DEF Candidate
    <3>3. r \notin live
      BY <3>1, <3>2 DEF Inv, HeadIsChunked, Admitted, QueueTypes
    <3>4. PagePrefixes(MatchReq(cache, r)) \subseteq DOMAIN cache
      BY <2>1, MatchedPrefix DEF RefInv
    <3> QED
      BY <1>1, <2>1, <2>3, <3>1, <3>3, <3>4, RefsTaken
  <2> QED
    BY <1>6, <2>2, <2>3
<1>7. CASE Forward
  <2>1. UNCHANGED <<live, cache>>
    BY <1>7 DEF Forward, pool_vars
  <2> QED
    BY <1>1, <1>7, <2>1, ObjectForward, RefsKept
<1>8. CASE ProcessFinished \/ ProcessPrefilled \/ ProcessDecoded
  <2> DEFINE r == Work.reqs[next].uid
             q == Appended(req[r])
  <2>1. /\ \A s \in Req : s # r => req'[s] = req[s]
        /\ ~ProcessPrefilled => \A s \in Req : HandleOf(req'[s]) = HandleOf(req[s])
    BY <1>8, ObjectProcessed
  <2>2. ProcessFinished \/ ProcessPrefilled => r \in live
    BY ProcessedHoldsRow
  <2>3. r \in live => DOMAIN q = Fields /\ WellFormed(q, Prompt[r])
                      /\ HandleOf(q) = HandleOf(req[r])
    BY <1>1, AppendedIsWellFormed, AppendedFields
  <2>4. CASE ProcessDecoded
    <3>1. UNCHANGED <<live, cache>> /\ ~ProcessPrefilled
      BY <2>4 DEF ProcessDecoded, ProcessPrefilled, pool_vars
    <3> QED
      BY <1>1, <2>1, <3>1, RefsKept
  <2>5. CASE ProcessFinished
    <3>1. cache' = CacheReq(cache, q, TRUE).cache /\ live' = live \ {r}
      BY <2>5 DEF ProcessFinished
    <3>2. \A s \in live : HandleOf(req'[s]) = HandleOf(req[s])
      <4>1. req' = [req EXCEPT ![r] = q]
        BY <2>5 DEF ProcessFinished, Deliver
      <4> HIDE DEF r, q
      <4> QED
        BY <1>1, <2>3, <4>1
    <3> HIDE DEF r, q
    <3> QED
      BY <2>2, <2>3, <2>5, <3>1, <3>2, RefsFreed
  <2>6. CASE ProcessPrefilled
    <3> DEFINE n == CacheReq(cache, q, FALSE).handle_len
    <3>1. /\ cache' = CacheReq(cache, q, FALSE).cache /\ live' = live
          /\ req' = [req EXCEPT ![r] = [q EXCEPT !.handle_len = n]]
      BY <2>6 DEF ProcessPrefilled, pool_vars
    <3>2. r \in live
      BY <2>2, <2>6
    <3> HIDE DEF r, q
    <3>3. n \in Nat /\ n <= q.cached_len
      BY <2>3, <3>2, CacheReqEffect
    <3> HIDE DEF n
    <3>4. req'[r] = [q EXCEPT !.handle_len = n]
      BY <1>1, <3>1, <3>2
    <3>5. HandleOf(req'[r]) = SubSeq(q.ids, 1, n)
      BY <2>3, <3>2, <3>3, <3>4, NewHandleIsWellFormed
    <3>6. \A s \in live : s # r => HandleOf(req'[s]) = HandleOf(req[s])
      BY <1>1, <2>1
    <3> QED
      BY <2>3, <3>1, <3>2, <3>5, <3>6, RefsMoved DEF n
  <2> QED
    BY <1>8, <2>4, <2>5, <2>6
<1> QED
  BY <1>2, <1>3, <1>4, <1>5, <1>6, <1>7, <1>8, RefsEvicted
     DEF Next, Receive, Loop, Admit, Allocate, Process

-----------------------------------------------------------------------------

CacheInv == Inv /\ FlightInv /\ ObjectInv /\ RefInv

(* Places, objects and counts, always. *)
LEMMA CacheInvariance ==
    ASSUME NoAbortInFlight
    PROVE  Spec => []CacheInv
<1>1. Init => CacheInv
  BY InitInv, InitRowInv, InitObjects, InitRefs DEF CacheInv, RowInv
<1>2. CacheInv /\ [Next]_vars => CacheInv'
  BY NextInv, FlightStep, ObjectStep, RefStep DEF CacheInv, RefInv
<1> QED
  BY <1>1, <1>2, PTL DEF Spec

(* Every cached prefix is locked once for each request whose handle covers it, *)
(* through chunks, duplicate prefixes, evictions, finishes and aborts          *)
(* (CacheManager.lock, unlock and cache_req): nothing in use can be evicted    *)
(* and nothing stays locked.                                                   *)
THEOREM EveryLockHasItsHandle ==
    ASSUME NoAbortInFlight
    PROVE  Spec => []RefCountsExact
<1>1. CacheInv => RefCountsExact
  BY DEF CacheInv, RefInv
<1> QED
  BY <1>1, CacheInvariance, PTL

-----------------------------------------------------------------------------
(* Unlocking *)

(* What a live request holds is locked, so unlocking it is legal. *)
LEMMA UnlockIsLegal ==
    ASSUME Inv, RefInv, NEW r \in live, NEW q, HandleOf(q) = HandleOf(req[r]), NEW finished
    PROVE  CacheReq(cache, q, finished).ok
<1> DEFINE insert_ids == SubSeq(q.ids, 1, Min({q.host_len, q.cached_len}))
           stored == PagePrefixes(SubSeq(insert_ids, 1, InsertLen(insert_ids)))
           inserted == [p \in DOMAIN cache \cup stored |->
                        IF p \in DOMAIN cache THEN cache[p]
                        ELSE [page |-> page_table[q.table_idx][Len(p) \div PageSize - 1],
                              ref_count |-> 0]]
<1>1. CacheReq(cache, q, finished).ok = CanUnlock(inserted, HandleOf(q))
  BY DEF CacheReq
<1>2. ASSUME NEW p \in PagePrefixes(HandleOf(req[r]))
      PROVE  p \in DOMAIN cache /\ cache[p].ref_count > 0
  <2>1. p \in DOMAIN cache /\ RefCountsExact
    BY DEF RefInv, RefCountsExact
  <2>2. /\ IsFiniteSet(Holders(p)) /\ Cardinality(Holders(p)) \in Nat
        /\ cache[p].ref_count = Cardinality(Holders(p))
    BY <2>1, LocksAreHeld DEF RefCountIn
  <2>3. Cardinality(Holders(p)) # 0
    BY <2>2, FS_EmptySet DEF Holders
  <2> QED
    BY <2>1, <2>2, <2>3
<1>3. \A p \in DOMAIN cache : p \in DOMAIN inserted /\ inserted[p] = cache[p]
  OBVIOUS
<1> HIDE DEF inserted
<1>4. CanUnlock(inserted, HandleOf(q))
  BY <1>2, <1>3 DEF CanUnlock
<1> QED
  BY <1>1, <1>4

(* A step that trips an assertion trips the one about an eviction's size. *)
LEMMA OnlyAllocationFails ==
    ASSUME CacheInv, Next, phase' = "failed"
    PROVE  AllocateFails
<1> USE DEF CacheInv
<1>1. ASSUME NEW r \in Req, ReceiveUser(r) \/ ReceiveAbort(r)
      PROVE  FALSE
  <2>1. ReceiveAbort(r) /\ phase = "receive"
    BY <1>1 DEF ReceiveUser, ReceiveAbort, loop_vars
  <2>2. /\ \/ Contains(pending_list, r) /\ Continuing(r)
           \/ r \in running_reqs
        /\ ~CacheReq(cache, req[r], TRUE).ok
    BY <2>1 DEF ReceiveAbort, FreeNow
  <2> QED
    BY <2>1, <2>2, AbortedHoldsRow, UnlockIsLegal
<1>2. ASSUME ProcessFails
      PROVE  FALSE
  <2> DEFINE r == Work.reqs[next].uid
             over == Finished(r) /\ ~FreedAlready(r)
  <2>1. /\ InProcess /\ ~Work.reqs[next].chunked /\ (~over => Work.phase = "prefill")
        /\ ~CacheReq(cache, Appended(req[r]), over).ok
    BY <1>2 DEF ProcessFails
  <2>2. r \in Req /\ (r \in live \/ (Work.phase = "decode" /\ r \in finished_reqs))
    BY <2>1, ProcessedEntry
  <2>3. r \in live
    BY <2>1, <2>2 DEF FreedAlready
  <2>4. HandleOf(Appended(req[r])) = HandleOf(req[r])
    BY <2>2, AppendedIsWellFormed DEF Inv, ObjectTypes, ObjectInv
  <2> HIDE DEF r, over
  <2> QED
    BY <2>1, <2>3, <2>4, UnlockIsLegal
<1> QED
  BY <1>1, <1>2
     DEF Next, Receive, Loop, StartSchedule, Admit, AdmitChunk, AdmitNew, SchedulePrefill,
         ScheduleDecode, ScheduleNothing, Allocate, AllocateFree, AllocateEvict, Forward,
         Process, ProcessChunk, ProcessFinished, ProcessPrefilled, ProcessDecoded,
         EndIteration, InProcess

(* No handle is unlocked twice ("assert node.ref_count >= 0", in               *)
(* radix_cache.py): the only assertion that a step of the scheduler can trip   *)
(* is the one about the size of an eviction.                                   *)
THEOREM HandlesAreUnlockedOnce ==
    ASSUME NoAbortInFlight
    PROVE  Spec => [][phase' = "failed" => AllocateFails]_vars
<1>1. CacheInv /\ [Next]_vars => [phase' = "failed" => AllocateFails]_vars
  BY OnlyAllocationFails
<1> QED
  BY <1>1, CacheInvariance, PTL DEF Spec

-----------------------------------------------------------------------------
(***************************************************************************)
(* What clients are told, with normal_loop: the reply that says finished   *)
(* is the last one, and comes when the request has what it asked for.      *)
(*                                                                         *)
(* A request that was told is in no stage any more where a token could be  *)
(* computed or processed for it (ToldInv); and while it is, the host is    *)
(* behind the device by the one token of the batch that is being processed *)
(* (SeenInv).  With overlap_loop neither holds: see FindEarlyFinish.       *)
(***************************************************************************)


(* Where a request is until its last reply. *)
Stages == to_send \cup ToSet(pending_list) \cup live

ToldInv ==
    /\ told_finished \subseteq Req
    /\ told_finished \cap Stages = {}
    /\ finished_reqs \cup new_finished_reqs \subseteq told_finished

(* A token of r was computed in this iteration that the host has not seen. *)
Unseen(r) ==
    /\ phase = "process"
    /\ \E i \in DOMAIN batch.reqs :
          i >= next /\ ~batch.reqs[i].chunked /\ batch.reqs[i].uid = r

(* Lengths of the object of a request whose prompt is computed whole. *)
Seen(q, r, unseen) ==
    ~q.chunked => /\ q.max_device_len = Len(Prompt[r]) + OutputLen(r)
                  /\ q.host_len >= Len(Prompt[r])
                  /\ q.host_len = IF unseen THEN Len(q.ids) - 1 ELSE Len(q.ids)

SeenInv ==
    /\ phase = "process" =>
          \A i \in DOMAIN batch.reqs : ~batch.reqs[i].chunked => ~Continuing(batch.reqs[i].uid)
    /\ phase # "failed" => \A r \in live : Seen(req[r], r, Unseen(r))

ReplyInv == ToldInv /\ SeenInv /\ FinishedMeansComplete

-----------------------------------------------------------------------------
(* Who was told *)

(* Nobody comes back to a place that it has left. *)
LEMMA StagesShrink ==
    ASSUME Inv, [Next]_vars
    PROVE  Stages' \subseteq Stages
<1>1. /\ pending_list \in Seq(Req) /\ Len(pending_list) \in Nat
      /\ DOMAIN pending_list = 1..Len(pending_list) /\ IsInjective(pending_list)
  BY LenProperties DEF Inv, QueueTypes, PlacesDisjoint
<1>2. ASSUME NEW r \in Req, ReceiveUser(r)
      PROVE  Stages' \subseteq Stages
  <2>1. /\ to_send' = to_send \ {r} /\ r \in to_send /\ live' = live
        /\ pending_list' = pending_list \/ pending_list' = Append(pending_list, r)
    BY <1>2 DEF ReceiveUser, ghost_vars
  <2>2. ToSet(pending_list') \subseteq ToSet(pending_list) \cup {r}
    <3>1. CASE pending_list' = Append(pending_list, r)
      <4>1. /\ DOMAIN pending_list' = 1..(Len(pending_list) + 1)
            /\ \A i \in 1..Len(pending_list) : pending_list'[i] = pending_list[i]
            /\ pending_list'[Len(pending_list) + 1] = r
        <5>1. /\ pending_list' \in Seq(Req) /\ Len(pending_list') = Len(pending_list) + 1
              /\ \A i \in 1..Len(pending_list) : pending_list'[i] = pending_list[i]
              /\ pending_list'[Len(pending_list) + 1] = r
          BY <1>1, <3>1, AppendProperties
        <5> QED
          BY <5>1, LenProperties
      <4> QED
        BY <1>1, <4>1 DEF ToSet
    <3> QED
      BY <2>1, <3>1
  <2> QED
    BY <2>1, <2>2 DEF Stages
<1>3. ASSUME NEW r \in Req, ReceiveAbort(r)
      PROVE  Stages' \subseteq Stages
  <2>1. to_send' = to_send /\ live' \subseteq live
    BY <1>3 DEF ReceiveAbort, FreeNow
  <2>2. ToSet(pending_list') \subseteq ToSet(pending_list)
    <3>1. pending_list' = RemoveFirst(pending_list, r)
      BY <1>3 DEF ReceiveAbort
    <3>2. CASE r \in ToSet(pending_list)
      <4>1. ASSUME NEW t, t = RemoveFirst(pending_list, r)
            PROVE  ToSet(t) \subseteq ToSet(pending_list)
        <5>1. \E k \in 1..Len(pending_list) :
                 /\ pending_list[k] = r
                 /\ t \in Seq(Req)
                 /\ Len(t) = Len(pending_list) - 1
                 /\ \A i \in 1..Len(t) : t[i] = IF i < k THEN pending_list[i]
                                                ELSE pending_list[i + 1]
          <6>1. pending_list \in Seq(Req) /\ IsInjective(pending_list) /\ r \in ToSet(pending_list)
            BY <1>1, <3>2
          <6> QED
            BY ONLY <4>1, <6>1, RemovedElement
        <5>2. DOMAIN t = 1..(Len(pending_list) - 1)
          BY <5>1, LenProperties
        <5>3. \A i \in DOMAIN t : \E j \in DOMAIN pending_list : t[i] = pending_list[j]
          <6> TAKE i \in DOMAIN t
          <6>1. i \in DOMAIN pending_list /\ i + 1 \in DOMAIN pending_list
            BY <1>1, <5>2
          <6>2. t[i] = pending_list[i] \/ t[i] = pending_list[i + 1]
            BY <1>1, <5>1, <5>2
          <6> QED
            BY <6>1, <6>2
        <5> QED
          BY <5>3 DEF ToSet
      <4> QED
        BY ONLY <3>1, <4>1
    <3>3. CASE r \notin ToSet(pending_list)
      <4>1. pending_list' = pending_list
        BY <3>1, <3>3 DEF RemoveFirst, Contains, ToSet
      <4> QED
        BY <4>1
    <3> QED
      BY <3>2, <3>3
  <2> QED
    BY <2>1, <2>2 DEF Stages
<1>4. CASE SchedulePrefill
  <2>1. /\ phase = "admit" /\ to_send' = to_send /\ live' = live
        /\ pending_list' = StillPending
    BY <1>4 DEF SchedulePrefill, input_vars, ghost_vars
  <2>2. PICK m \in {Len(adder.reqs), Len(adder.reqs) + 1} :
           /\ m \in 1..(Len(pending_list) + 1)
           /\ StillPending \in Seq(Req)
           /\ Len(StillPending) = Len(pending_list) + 1 - m
           /\ \A i \in 1..Len(StillPending) : StillPending[i] = pending_list[i + m - 1]
    BY <2>1, StillPendingTail
  <2>3. /\ pending_list' \in Seq(Req)
        /\ DOMAIN pending_list' = 1..(Len(pending_list) + 1 - m)
        /\ \A i \in DOMAIN pending_list' : pending_list'[i] = pending_list[i + m - 1]
    BY <2>1, <2>2, LenProperties
  <2>4. \A i \in DOMAIN pending_list' : i + m - 1 \in DOMAIN pending_list
    BY <1>1, <2>2, <2>3
  <2> QED
    BY <2>1, <2>3, <2>4 DEF Stages, ToSet
<1>5. CASE AdmitChunk \/ AdmitNew
  <2>1. /\ Len(adder.reqs) + 1 \in DOMAIN pending_list
        /\ live' = live \cup {pending_list[Len(adder.reqs) + 1]}
        /\ UNCHANGED <<to_send, pending_list>>
    BY <1>5, AdmittedRequest DEF Candidate
  <2> QED
    BY <2>1 DEF Stages, ToSet
<1>6. CASE \/ StartSchedule \/ ScheduleDecode \/ ScheduleNothing \/ Allocate \/ Forward
           \/ Process \/ UNCHANGED vars
  <2>1. to_send' = to_send /\ pending_list' = pending_list /\ live' \subseteq live
    BY <1>6 DEF StartSchedule, ScheduleDecode, ScheduleNothing, Allocate, AllocateFree,
                AllocateEvict, AllocateFails, Forward, Process, ProcessChunk, ProcessFinished,
                ProcessPrefilled, ProcessDecoded, ProcessFails, EndIteration, vars,
                input_vars, queue_vars, ghost_vars
  <2> QED
    BY <2>1 DEF Stages
<1> QED
  BY <1>2, <1>3, <1>4, <1>5, <1>6 DEF Next, Receive, Loop, Admit

(* With normal_loop, a request whose token is processed holds a row still. *)
LEMMA ProcessedIsLive ==
    ASSUME Inv, FlightInv, ~Overlap, ProcessFinished \/ ProcessPrefilled \/ ProcessDecoded
    PROVE  /\ Work = batch /\ next \in DOMAIN batch.reqs /\ phase = "process"
           /\ ~batch.reqs[next].chunked
           /\ batch.reqs[next].uid \in live
<1>1. Work = batch
  BY DEF Work
<1>2. InProcess /\ ~Work.reqs[next].chunked
  BY DEF ProcessFinished, ProcessPrefilled, ProcessDecoded
<1> QED
  BY <1>1, <1>2, ProcessedEntry DEF InProcess

(* Only the request that finishes is told, and its row goes with the reply. *)
LEMMA ToldStep ==
    ASSUME Inv, FlightInv, ToldInv, ~Overlap, [Next]_vars
    PROVE  /\ ToldInv'
           /\ told_finished' # told_finished => ProcessFinished
<1>1. Stages' \subseteq Stages
  BY StagesShrink
<1>2. CASE ProcessFinished \/ ProcessPrefilled \/ ProcessDecoded
  <2> DEFINE r == Work.reqs[next].uid
  <2>1. /\ Work = batch /\ next \in DOMAIN batch.reqs /\ ~batch.reqs[next].chunked /\ r \in live
    BY <1>2, ProcessedIsLive
  <2>2. r \in Req /\ r \notin told_finished /\ r \notin finished_reqs
    BY <2>1 DEF ToldInv, Stages, Inv, QueueTypes
  <2>3. CASE ProcessFinished
    <3>1. /\ told_finished' = told_finished \cup {r} /\ live' = live \ {r}
          /\ finished_reqs' = finished_reqs /\ new_finished_reqs' = new_finished_reqs \cup {r}
          /\ UNCHANGED <<to_send, pending_list>>
      BY <2>3 DEF ProcessFinished, Deliver, input_vars
    <3>2. r \notin to_send \cup ToSet(pending_list)
      BY <2>1 DEF Inv, PrefilledInv
    <3> HIDE DEF r
    <3>3. ToldInv'
      BY <2>2, <3>1, <3>2 DEF ToldInv, Stages
    <3> QED
      BY <2>3, <3>3
  <2>4. CASE ProcessPrefilled \/ ProcessDecoded
    <3>1. UNCHANGED <<told_finished, finished_reqs, new_finished_reqs>>
      BY <2>2, <2>4 DEF ProcessPrefilled, ProcessDecoded, Deliver, FreedAlready
    <3> QED
      BY <1>1, <3>1 DEF ToldInv
  <2> QED
    BY <1>2, <2>3, <2>4
<1>3. CASE EndIteration
  <2>1. /\ told_finished' = told_finished /\ new_finished_reqs' = {}
        /\ finished_reqs' \in {finished_reqs, new_finished_reqs}
    BY <1>3 DEF EndIteration, ghost_vars
  <2> QED
    BY <1>1, <2>1 DEF ToldInv
<1>4. CASE ~(ProcessFinished \/ ProcessPrefilled \/ ProcessDecoded \/ EndIteration)
  <2>1. UNCHANGED <<told_finished, finished_reqs, new_finished_reqs>>
    BY <1>4 DEF Next, Receive, Loop, ReceiveUser, ReceiveAbort, StartSchedule, Admit, AdmitChunk,
                AdmitNew, SchedulePrefill, ScheduleDecode, ScheduleNothing, Allocate,
                AllocateFree, AllocateEvict, AllocateFails, Forward, Process, ProcessChunk,
                ProcessFails, vars, queue_vars, ghost_vars
  <2> QED
    BY <1>1, <2>1 DEF ToldInv
<1> QED
  BY <1>2, <1>3, <1>4

-----------------------------------------------------------------------------
(* The objects *)

(* A step writes the object of the candidate, of the batch or of the request *)
(* whose token is processed: each has a place.                               *)
LEMMA OnlyPlacedChange ==
    ASSUME Inv, FlightInv, ObjectInv, RefInv, ~Overlap, [Next]_vars
    PROVE  \A r \in Req : r \notin Stages => req'[r] = req[r]
<1>1. CASE AdmitChunk \/ AdmitNew
  <2>1. Candidate \in Stages
    BY <1>1, AdmittedRequest DEF Candidate, Stages, ToSet
  <2> QED
    BY <1>1, <2>1, ObjectAdmitted DEF RefInv
<1>2. CASE Forward
  <2>1. \A r \in BatchUids : r \in live
    BY <1>2 DEF Forward, Inv, BatchInv, BatchUids
  <2>2. \A r \in Req : r \notin BatchUids => req'[r] = req[r]
    BY <1>2 DEF Forward
  <2> QED
    BY <2>1, <2>2 DEF Stages
<1>3. CASE ProcessFinished \/ ProcessPrefilled \/ ProcessDecoded
  <2>1. Work.reqs[next].uid \in live
    BY <1>3, ProcessedIsLive
  <2> QED
    BY <1>3, <2>1, ObjectProcessed DEF Stages
<1>4. CASE ~(AdmitChunk \/ AdmitNew \/ Forward \/ ProcessFinished \/ ProcessPrefilled
              \/ ProcessDecoded)
  <2>1. req' = req
    BY <1>4 DEF Next, Receive, Loop, ReceiveUser, ReceiveAbort, StartSchedule, Admit,
                SchedulePrefill, ScheduleDecode, ScheduleNothing, Allocate,
                AllocateFree, AllocateEvict, AllocateFails, Process, ProcessChunk,
                ProcessFails, EndIteration, vars, queue_vars, ghost_vars
  <2> QED
    BY <2>1
<1> QED
  BY <1>1, <1>2, <1>3, <1>4

(* An admission: nothing of the prompt is unseen, and the output is reserved *)
(* from the end of the prompt on.                                            *)
LEMMA AddedIsSeen ==
    ASSUME ObjectTypes, NEW r \in Req, NEW row, NEW n \in Nat, n < Len(Prompt[r]), NEW h,
           adder.token_budget \in Int,
           AddOneReq(r, row, n, h)
    PROVE  Seen(req'[r], r, FALSE)
<1> DEFINE remain == Len(Prompt[r]) - n
           size == ChunkSize(remain)
           q == [ids |-> Prompt[r], host_len |-> n + size, cached_len |-> n,
                 device_len |-> n + size, max_device_len |-> n + size + OutputLen(r),
                 table_idx |-> row, handle_len |-> h, chunked |-> size < remain]
<1>1. Prompt[r] \in Seq(Nat) /\ Len(Prompt[r]) \in Nat
  BY SchedulerAssumptions
<1>2. remain \in Nat /\ Len(Prompt[r]) = n + remain
  BY <1>1
<1>3. size \in Int /\ size <= remain
  <2> HIDE DEF remain
  <2>1. size = IF adder.token_budget <= remain THEN adder.token_budget ELSE remain
    BY <1>2, MinOfTwo DEF ChunkSize
  <2> HIDE DEF size
  <2> QED
    BY <1>2, <2>1
<1>4. req' = [req EXCEPT ![r] = q]
  BY DEF AddOneReq
<1>5. req'[r] = q
  BY <1>4 DEF ObjectTypes
<1>6. /\ q.ids = Prompt[r] /\ q.host_len = n + size
      /\ q.max_device_len = n + size + OutputLen(r) /\ (q.chunked <=> size < remain)
  OBVIOUS
<1> HIDE DEF q, size, remain
<1>7. ~q.chunked => n + size = Len(Prompt[r])
  BY <1>2, <1>3, <1>6
<1> QED
  BY <1>1, <1>5, <1>6, <1>7 DEF Seen

(* A token reaches the host. *)
LEMMA AppendedIsSeen ==
    ASSUME NEW q, NEW r, DOMAIN q = Fields, WellFormed(q, Prompt[r]), Seen(q, r, TRUE),
           ~q.chunked, NEW x, NEW n,
           x = Appended(q) \/ x = [Appended(q) EXCEPT !.handle_len = n]
    PROVE  /\ Seen(x, r, FALSE)
           /\ ~x.chunked /\ x.ids = q.ids /\ x.host_len = Len(q.ids)
<1>1. /\ x.host_len = q.host_len + 1 /\ x.max_device_len = q.max_device_len /\ x.ids = q.ids
      /\ x.chunked = q.chunked
  BY DEF Appended, Fields
<1>2. /\ q.host_len \in Nat /\ Len(q.ids) \in Nat
      /\ q.host_len = Len(q.ids) - 1 /\ q.host_len >= Len(Prompt[r])
      /\ q.max_device_len = Len(Prompt[r]) + OutputLen(r)
  BY DEF Seen, WellFormed
<1>3. x.host_len = Len(q.ids)
  BY <1>1, <1>2
<1> QED
  BY <1>1, <1>2, <1>3 DEF Seen

(* The engine computes one. *)
LEMMA CompletedIsUnseen ==
    ASSUME NEW q, NEW r, DOMAIN q = Fields, WellFormed(q, Prompt[r]), Seen(q, r, FALSE),
           NEW token \in Nat
    PROVE  Seen(Completed(q, token), r, TRUE)
<1> DEFINE c == Completed(q, token)
<1>1. /\ c.host_len = q.host_len /\ c.max_device_len = q.max_device_len
      /\ c.chunked = q.chunked
      /\ ~q.chunked => c.ids = Append(q.ids, token)
  BY DEF Completed, Fields
<1> HIDE DEF c
<1>2. q.ids \in Seq(Nat) /\ Len(q.ids) \in Nat
  BY DEF WellFormed
<1>3. ~q.chunked => Len(c.ids) - 1 = Len(q.ids)
  BY <1>1, <1>2, AppendProperties
<1> QED
  BY <1>1, <1>3 DEF Seen, c

(* What the host has not seen is what this iteration computed. *)
LEMMA SeenStep ==
    ASSUME Inv, FlightInv, ObjectInv, RefInv, SeenInv, ~Overlap, [Next]_vars
    PROVE  SeenInv'
<1>1. /\ live \subseteq Req /\ DOMAIN req = Req /\ ObjectTypes
      /\ \A r \in Req : DOMAIN req[r] = Fields /\ WellFormed(req[r], Prompt[r])
  BY DEF Inv, QueueTypes, ObjectTypes, ObjectInv
<1>2. \A i \in DOMAIN batch.reqs :
         /\ i \in Nat /\ i >= 1 /\ (i >= next + 1 => i >= next /\ i # next)
         /\ batch.reqs[i].uid \in Req
  BY BatchEntries DEF Inv
<1>3. CASE UNCHANGED vars
  BY <1>3 DEF vars, loop_vars, queue_vars, ghost_vars, SeenInv, Unseen, Continuing
<1>4. ASSUME req' = req, live' \subseteq live, phase \notin {"process", "failed"},
             phase' = "process" => batch' = NoBatch
      PROVE  SeenInv'
  <2>1. \A r : ~Unseen(r) /\ ~Unseen(r)'
    BY <1>4 DEF Unseen, NoBatch
  <2> QED
    BY <1>4, <2>1 DEF SeenInv, NoBatch, Seen
<1>5. CASE \/ \E r \in Req : ReceiveUser(r) \/ ReceiveAbort(r)
           \/ StartSchedule \/ SchedulePrefill \/ ScheduleDecode \/ ScheduleNothing \/ Allocate
  <2>1. req' = req /\ live' \subseteq live
    BY <1>5 DEF ReceiveUser, ReceiveAbort, FreeNow, StartSchedule, SchedulePrefill,
                ScheduleDecode, ScheduleNothing, Allocate, AllocateFree, AllocateEvict,
                AllocateFails, queue_vars, ghost_vars
  <2>2. phase \notin {"process", "failed"} /\ (phase' = "process" => batch' = batch /\ phase = "admit")
    BY <1>5 DEF ReceiveUser, ReceiveAbort, FreeNow, StartSchedule, SchedulePrefill, loop_vars,
                ScheduleDecode, ScheduleNothing, Allocate, AllocateFree, AllocateEvict,
                AllocateFails
  <2>3. phase' = "process" => batch' = NoBatch
    BY <2>2 DEF Inv, BatchInv
  <2> QED
    BY <1>4, <2>1, <2>2, <2>3
<1>6. CASE AdmitChunk \/ AdmitNew
  <2> DEFINE r == Candidate
  <2>1. /\ phase = "admit" /\ phase' = phase /\ adder.token_budget \in Int
        /\ live' = live \cup {r}
    BY <1>6, AdmittedRequest DEF Inv, QueueTypes
  <2>2. r \in Req /\ \A s \in Req : s # r => req'[s] = req[s]
    BY <1>6, ObjectAdmitted DEF RefInv
  <2>3. Seen(req'[r], r, FALSE)
    <3>1. CASE AdmitChunk
      <4>1. AddOneReq(r, req[r].table_idx, req[r].cached_len, req[r].handle_len) /\ req[r].chunked
        BY <3>1 DEF AdmitChunk, Continuing
      <4> HIDE DEF r
      <4>2. req[r].cached_len \in Nat /\ req[r].cached_len < Len(Prompt[r])
        BY <1>1, <2>2, <4>1 DEF WellFormed
      <4> QED
        BY <1>1, <2>1, <2>2, <4>1, <4>2, AddedIsSeen
    <3>2. CASE AdmitNew
      <4> DEFINE n == Len(MatchReq(cache, r))
      <4>1. AddOneReq(r, Last(row_slots), n, n)
        BY <3>2 DEF AdmitNew
      <4>2. n \in Nat /\ n < Len(Prompt[r])
        BY <2>2, MatchedPrefix DEF RefInv
      <4> HIDE DEF r, n
      <4> QED
        BY <1>1, <2>1, <2>2, <4>1, <4>2, AddedIsSeen
    <3> QED
      BY <1>6, <3>1, <3>2
  <2> HIDE DEF r
  <2>4. \A s : ~Unseen(s) /\ ~Unseen(s)'
    BY <2>1 DEF Unseen
  <2>5. \A s \in live : Seen(req[s], s, FALSE)
    BY <2>1, <2>4 DEF SeenInv, Seen
  <2>6. \A s \in live' : Seen(req'[s], s, FALSE)
    BY <1>1, <2>1, <2>2, <2>3, <2>5
  <2> QED
    BY <2>1, <2>4, <2>6 DEF SeenInv, Seen
<1>7. CASE Forward
  <2>1. /\ phase = "forward" /\ phase' = "process" /\ UNCHANGED <<batch, next, live>> /\ next = 1
        /\ \A i \in DOMAIN batch.reqs : batch.reqs[i].chunked <=> Continuing(batch.reqs[i].uid)
    BY <1>7 DEF Forward, Inv, BatchInv
  <2>2. PICK token \in [{s \in BatchUids : ~req[s].chunked} -> Sampled] :
           req' = [s \in Req |->
                     IF s \notin BatchUids THEN req[s]
                     ELSE Completed(req[s], IF req[s].chunked THEN Eos ELSE token[s])]
    BY <1>7 DEF Forward
  <2>3. \A r \in Req : ~Unseen(r)
    BY <2>1 DEF Unseen
  <2>4. \A r \in live : Seen(req[r], r, FALSE)
    BY <1>1, <2>1, <2>3 DEF SeenInv, Seen
  <2>5. \A r \in Req : req'[r].chunked = req[r].chunked
    <3> TAKE r \in Req
    <3>1. ASSUME NEW t PROVE Completed(req[r], t).chunked = req[r].chunked
      BY <1>1, CompletedFields DEF WellFormed
    <3> QED
      BY <2>2, <3>1
  <2>6. \A r \in Req : ~req[r].chunked => (Unseen(r)' <=> r \in BatchUids)
    BY <1>2, <2>1 DEF Unseen, BatchUids, Continuing
  <2>7. \A r \in live : Seen(req'[r], r, Unseen(r)')
    <3> TAKE r \in live
    <3>1. CASE req[r].chunked
      BY <1>1, <2>5, <3>1 DEF Seen
    <3>2. CASE ~req[r].chunked /\ r \notin BatchUids
      BY <1>1, <2>2, <2>4, <2>6, <3>2 DEF Seen
    <3>3. CASE ~req[r].chunked /\ r \in BatchUids
      <4>1. token[r] \in Nat /\ req'[r] = Completed(req[r], token[r])
        BY <1>1, <2>2, <3>3, SchedulerAssumptions
      <4>2. Seen(req'[r], r, TRUE)
        BY <1>1, <2>4, <4>1, CompletedIsUnseen
      <4>3. Unseen(r)'
        BY <1>1, <2>6, <3>3
      <4> QED
        BY <4>2, <4>3 DEF Seen
    <3> QED
      BY <3>1, <3>2, <3>3
  <2> QED
    BY <1>2, <2>1, <2>5, <2>7 DEF SeenInv, Continuing
<1>8. CASE ProcessChunk
  <2>1. /\ phase = "process" /\ phase' = phase /\ UNCHANGED <<batch, live, req>>
        /\ next' = next + 1 /\ batch.reqs[next].chunked
    BY <1>8 DEF ProcessChunk, InProcess, queue_vars, ghost_vars, Work
  <2>2. next \in Nat
    BY DEF Inv, QueueTypes
  <2>3. \A i \in DOMAIN batch.reqs : ~batch.reqs[i].chunked => (i >= next + 1 <=> i >= next)
    BY <1>2, <2>1, <2>2
  <2>4. \A r : Unseen(r)' <=> Unseen(r)
    BY <2>1, <2>3 DEF Unseen
  <2> QED
    BY <2>1, <2>4 DEF SeenInv, Seen, Continuing
<1>9. CASE ProcessFails
  BY <1>9 DEF ProcessFails, SeenInv
<1>10. CASE EndIteration
  <2>1. /\ phase = "process" /\ phase' = "receive" /\ UNCHANGED <<live, req>>
        /\ next > Len(batch.reqs)
    BY <1>10 DEF EndIteration, ghost_vars, Work
  <2>2. \A r : ~Unseen(r) /\ ~Unseen(r)'
    <3>1. Len(batch.reqs) \in Nat /\ DOMAIN batch.reqs = 1..Len(batch.reqs) /\ next \in Nat
      BY BatchEntries DEF Inv, QueueTypes
    <3> QED
      BY <2>1, <3>1 DEF Unseen
  <2> QED
    BY <2>1, <2>2 DEF SeenInv, Seen
<1>11. CASE ProcessFinished \/ ProcessPrefilled \/ ProcessDecoded
  <2> PICK r : r = batch.reqs[next].uid
    OBVIOUS
  <2> PICK q : q = req[r]
    OBVIOUS
  <2>1. /\ Work = batch /\ next \in DOMAIN batch.reqs /\ phase = "process"
        /\ ~batch.reqs[next].chunked /\ r \in live
    BY <1>11, ProcessedIsLive
  <2>2. /\ phase' = phase /\ next' = next + 1 /\ batch' = batch /\ live' \subseteq live
    BY <1>11 DEF ProcessFinished, ProcessPrefilled, ProcessDecoded
  <2>3. \A s \in Req : s # r => req'[s] = req[s]
    BY <1>11, <2>1, ObjectProcessed
  <2>4. \E n : req'[r] = Appended(q) \/ req'[r] = [Appended(q) EXCEPT !.handle_len = n]
    <3>1. \/ req' = [req EXCEPT ![r] = Appended(q)]
          \/ \E n : req' = [req EXCEPT ![r] = [Appended(q) EXCEPT !.handle_len = n]]
      BY <1>11, <2>1 DEF ProcessFinished, ProcessPrefilled, ProcessDecoded, Deliver
    <3> QED
      BY <1>1, <2>1, <3>1
  <2>5. next >= next
    BY DEF Inv, QueueTypes
  <2>6. Unseen(r) /\ ~q.chunked
    BY <2>1, <2>5 DEF Unseen, SeenInv, Continuing
  <2>7. Seen(q, r, TRUE)
    BY <2>1, <2>6 DEF SeenInv, Seen
  <2>8. DOMAIN q = Fields /\ WellFormed(q, Prompt[r])
    BY <1>1, <2>1
  <2>9. \A i \in DOMAIN batch.reqs : i >= next' <=> i >= next /\ i # next
    <3>1. next \in Nat
      BY DEF Inv, QueueTypes
    <3> QED
      BY <1>2, <2>2, <3>1
  <2>10. \A i \in DOMAIN batch.reqs : batch.reqs[i].uid = r => i = next
    BY <2>1 DEF Inv, BatchInv
  <2>11. Seen(req'[r], r, FALSE) /\ ~req'[r].chunked
    <3>1. PICK n : req'[r] = Appended(q) \/ req'[r] = [Appended(q) EXCEPT !.handle_len = n]
      BY <2>4
    <3> QED
      BY ONLY <2>6, <2>7, <2>8, <3>1, AppendedIsSeen
  <2>12. ~Unseen(r)' /\ \A s : s # r => (Unseen(s)' <=> Unseen(s))
    BY <2>1, <2>2, <2>9, <2>10 DEF Unseen
  <2>13. \A s \in live : Seen(req'[s], s, Unseen(s)')
    <3> TAKE s \in live
    <3>1. CASE s = r
      BY <2>11, <2>12, <3>1 DEF Seen
    <3>2. CASE s # r
      BY <1>1, <2>1, <2>3, <2>12, <3>2 DEF Seen, SeenInv
    <3> QED
      BY <3>1, <3>2
  <2>14. \A i \in DOMAIN batch.reqs : ~batch.reqs[i].chunked => ~req'[batch.reqs[i].uid].chunked
    BY <1>2, <2>1, <2>3, <2>11 DEF SeenInv, Continuing
  <2> QED
    BY <2>1, <2>2, <2>13, <2>14 DEF SeenInv, Continuing
<1> QED
  BY <1>3, <1>5, <1>6, <1>7, <1>8, <1>9, <1>10, <1>11
     DEF Next, Receive, Loop, Admit, Process

(* The request that finishes has its last token, or the model ended it. *)
LEMMA FinishedIsComplete ==
    ASSUME Inv, FlightInv, ObjectInv, RefInv, SeenInv, ~Overlap, ProcessFinished,
           NEW r, r = Work.reqs[next].uid
    PROVE  \/ req'[r].host_len - Len(Prompt[r]) >= OutputLen(r)
           \/ r \notin IgnoreEos /\ \E i \in (Len(Prompt[r]) + 1)..req'[r].host_len :
                                       req'[r].ids[i] = Eos
<1> PICK q : q = req[r]
  OBVIOUS
<1>1. /\ r = batch.reqs[next].uid /\ next \in DOMAIN batch.reqs /\ phase = "process"
      /\ ~batch.reqs[next].chunked /\ r \in live
  BY ProcessedIsLive
<1>2. r \in Req /\ DOMAIN req = Req /\ DOMAIN q = Fields /\ WellFormed(q, Prompt[r])
  BY <1>1 DEF Inv, QueueTypes, ObjectTypes, ObjectInv
<1>3. next >= next
  BY DEF Inv, QueueTypes
<1>4. ~q.chunked /\ Seen(q, r, TRUE)
  BY <1>1, <1>3 DEF SeenInv, Seen, Unseen, Continuing
<1>5. req' = [req EXCEPT ![r] = Appended(q)]
  BY DEF ProcessFinished, Deliver
<1>6. req'[r] = Appended(q)
  BY <1>2, <1>5
<1>7. req'[r].ids = q.ids /\ req'[r].host_len = q.host_len + 1
  BY <1>2, <1>6 DEF Appended, Fields
<1>8. /\ q.host_len \in Nat /\ Len(q.ids) \in Nat /\ q.device_len = Len(q.ids)
      /\ q.host_len = Len(q.ids) - 1 /\ q.host_len >= Len(Prompt[r])
      /\ q.max_device_len = Len(Prompt[r]) + OutputLen(r)
  BY <1>4, <1>2 DEF WellFormed, Seen
<1>9. Len(Prompt[r]) \in Nat /\ OutputLen(r) \in Int
  <2>1. Prompt[r] \in Seq(Nat) /\ MaxTokens[r] \in Nat /\ MaxSeqLen \in Int
    BY <1>2, SchedulerAssumptions
  <2>2. Len(Prompt[r]) \in Nat
    BY <2>1
  <2> QED
    BY <2>1, <2>2 DEF OutputLen, MaxOutputLen
<1>10. \/ q.max_device_len - q.device_len <= 0
       \/ r \notin IgnoreEos /\ q.ids[q.host_len + 1] = Eos
  <2>1. ~CanDecode(q) \/ (r \notin IgnoreEos /\ NextToken(q) = Eos)
    BY DEF ProcessFinished, Finished
  <2>2. q.max_device_len - q.device_len \in Int
    <3> PICK m : m = q.max_device_len
      OBVIOUS
    <3> PICK d : d = q.device_len
      OBVIOUS
    <3>1. m \in Int
      BY ONLY <1>8, <1>9, m = q.max_device_len
    <3>2. d \in Int
      BY ONLY <1>8, d = q.device_len
    <3> QED
      BY ONLY <3>1, <3>2, m = q.max_device_len, d = q.device_len
  <2>3. ~CanDecode(q) => q.max_device_len - q.device_len <= 0
    BY ONLY <1>4, <2>2 DEF CanDecode, RemainLen
  <2> QED
    BY ONLY <2>1, <2>3 DEF NextToken
<1>11. CASE q.max_device_len - q.device_len <= 0
  <2> PICK p : p = Len(Prompt[r])
    OBVIOUS
  <2> PICK o : o = OutputLen(r)
    OBVIOUS
  <2> PICK l : l = Len(q.ids)
    OBVIOUS
  <2>1. p \in Nat /\ o \in Int /\ l \in Nat
    BY ONLY <1>8, <1>9, p = Len(Prompt[r]), o = OutputLen(r), l = Len(q.ids)
  <2>2. p + o - l <= 0
    <3>1. q.max_device_len = p + o /\ q.device_len = l
      BY ONLY <1>8, p = Len(Prompt[r]), o = OutputLen(r), l = Len(q.ids)
    <3> QED
      BY ONLY <1>11, <2>1, <3>1
  <2>3. (l - 1) + 1 - p >= o
    BY ONLY <2>1, <2>2
  <2>4. req'[r].host_len = (l - 1) + 1
    BY ONLY <1>7, <1>8, l = Len(q.ids)
  <2>5. req'[r].host_len - Len(Prompt[r]) >= OutputLen(r)
    <3>1. req'[r].host_len - p >= o
      BY ONLY <2>1, <2>3, <2>4
    <3> QED
      BY ONLY <3>1, p = Len(Prompt[r]), o = OutputLen(r)
  <2> QED
    BY ONLY <2>5
<1>12. CASE r \notin IgnoreEos /\ q.ids[q.host_len + 1] = Eos
  <2>1. q.host_len + 1 \in (Len(Prompt[r]) + 1)..req'[r].host_len
    BY <1>7, <1>8, <1>9
  <2> QED
    BY <1>7, <1>12, <2>1
<1> QED
  BY <1>10, <1>11, <1>12

(* Who is told that it finished has all it asked for. *)
LEMMA CompleteStep ==
    ASSUME Inv, FlightInv, ObjectInv, RefInv, ReplyInv, ~Overlap, [Next]_vars
    PROVE  FinishedMeansComplete'
<1>1. told_finished \subseteq Req /\ told_finished \cap Stages = {}
  BY DEF ReplyInv, ToldInv
<1>2. \A r \in told_finished : req'[r] = req[r]
  BY <1>1, OnlyPlacedChange
<1>3. CASE told_finished' = told_finished
  BY <1>2, <1>3 DEF ReplyInv, FinishedMeansComplete
<1>4. CASE told_finished' # told_finished
  <2>1. ProcessFinished
    BY <1>4, ToldStep DEF ReplyInv
  <2> PICK r : r = Work.reqs[next].uid
    OBVIOUS
  <2>2. told_finished' \subseteq told_finished \cup {r}
    BY <2>1 DEF ProcessFinished, Deliver
  <2>3. SeenInv
    BY DEF ReplyInv
  <2>4. \/ req'[r].host_len - Len(Prompt[r]) >= OutputLen(r)
        \/ r \notin IgnoreEos /\ \E i \in (Len(Prompt[r]) + 1)..req'[r].host_len :
                                    req'[r].ids[i] = Eos
    BY <2>1, <2>3, FinishedIsComplete
  <2>5. \A s \in told_finished :
           \/ req'[s].host_len - Len(Prompt[s]) >= OutputLen(s)
           \/ s \notin IgnoreEos /\ \E i \in (Len(Prompt[s]) + 1)..req'[s].host_len :
                                       req'[s].ids[i] = Eos
    BY <1>2 DEF ReplyInv, FinishedMeansComplete
  <2> QED
    BY <2>2, <2>4, <2>5 DEF FinishedMeansComplete
<1> QED
  BY <1>3, <1>4

-----------------------------------------------------------------------------

(* Nobody was told anything. *)
LEMMA InitReplies == Init => ReplyInv
<1> SUFFICES ASSUME Init PROVE ReplyInv
  OBVIOUS
<1>1. /\ phase = "receive" /\ live = {} /\ told_finished = {}
      /\ finished_reqs = {} /\ new_finished_reqs = {}
  BY DEF Init
<1> QED
  BY <1>1 DEF ReplyInv, ToldInv, SeenInv, FinishedMeansComplete

(* What clients are told, always. *)
LEMMA ReplyInvariance ==
    ASSUME ~Overlap
    PROVE  Spec => [](CacheInv /\ ReplyInv)
<1>1. Init => ReplyInv
  BY InitReplies
<1>2. CacheInv /\ ReplyInv /\ [Next]_vars => ReplyInv'
  BY ToldStep, SeenStep, CompleteStep DEF CacheInv, ReplyInv
<1>3. NoAbortInFlight
  BY DEF NoAbortInFlight
<1>4. Spec => []CacheInv
  BY <1>3, CacheInvariance
<1> QED
  BY <1>1, <1>2, <1>4, PTL DEF Spec

(* With normal_loop a client is told that its request finished when it has all *)
(* the tokens that it asked for, or the model ended it (_process_last_data),   *)
(* whatever is admitted, chunked or aborted meanwhile.                         *)
THEOREM FinishedRequestsAreComplete ==
    ASSUME ~Overlap
    PROVE  Spec => []FinishedMeansComplete
<1>1. CacheInv /\ ReplyInv => FinishedMeansComplete
  BY DEF ReplyInv
<1> QED
  BY <1>1, ReplyInvariance, PTL

(* With normal_loop no token follows the reply that says finished. *)
THEOREM NoReplyAfterTheLast ==
    ASSUME ~Overlap
    PROVE  Spec => FinishedReplyIsLast
<1> DEFINE Last1 == \A r \in told_finished : req'[r].host_len = req[r].host_len
<1>1. (CacheInv /\ ReplyInv) /\ [Next]_vars => [Last1]_vars
  <2> SUFFICES ASSUME CacheInv, ReplyInv, [Next]_vars, NEW r \in told_finished
               PROVE  req'[r].host_len = req[r].host_len
    OBVIOUS
  <2>1. r \in Req /\ r \notin Stages
    BY DEF ReplyInv, ToldInv
  <2>2. req'[r] = req[r]
    BY <2>1, OnlyPlacedChange DEF CacheInv
  <2> QED
    BY <2>2
<1>2. [][Last1]_vars <=> FinishedReplyIsLast
  BY DEF FinishedReplyIsLast
<1> HIDE DEF Last1
<1> QED
  BY <1>1, <1>2, ReplyInvariance, PTL DEF Spec

-----------------------------------------------------------------------------
(***************************************************************************)
(* Pages.  A step moves pages from one place to another.  That none is     *)
(* lost is shown page by page.  That none is there twice follows by        *)
(* counting: the places are as many as before, and no more than the pages, *)
(* of which each has one.  SchedulerPoolProofs goes on from here.          *)
(***************************************************************************)

(* Where pages are: the lists fr and lz, the cache cc, and of each row T[r] of *)
(* a request r of L the entries E[r].                                          *)
PagesAt(t, K) == {t[k] : k \in K}

PrefixPages(cc, N) == {cc[p].page : p \in N}

RowPages(L, E, T) == UNION {{T[r][k] : k \in E[r]} : r \in L}

Places(fr, lz, cc, L, E, T) ==
    ToSet(fr) \cup ToSet(lz) \cup {cc[p].page : p \in DOMAIN cc} \cup RowPages(L, E, T)

PlaceCount(fr, lz, cc, L, E) ==
    Len(fr) + Len(lz) + Cardinality(DOMAIN cc) + Cardinality(Pairs(L, E))

Partition(fr, lz, cc, L, E, T) ==
    Page = Places(fr, lz, cc, L, E, T) /\ NumPages = PlaceCount(fr, lz, cc, L, E)

(* Of the entries a..e-1 of a row t whose pages are in their own place, those up to b *)
(* are freed, those up to d become the cache's with the new prefixes N, and the rest  *)
(* is freed too when the request is over.                                             *)
Release(t, a, b, d, e, finished, freed, cc, cc2, N) ==
    /\ a <= b /\ b <= d /\ d <= e
    /\ Len(freed) = (b - a) + (IF finished THEN e - d ELSE 0)
    /\ ToSet(freed) = PagesAt(t, (a..(b - 1)) \cup (IF finished THEN d..(e - 1) ELSE {}))
    /\ DOMAIN cc2 = DOMAIN cc \cup N /\ \A p \in DOMAIN cc : cc2[p].page = cc[p].page
    /\ IsFiniteSet(N) /\ Cardinality(N) <= d - b
    /\ PrefixPages(cc2, N) = PagesAt(t, b..(d - 1))

(* Freed pages go to one of the two lists. *)
Goes(freed, fr, lz, fr2, lz2) ==
    /\ Len(fr2) + Len(lz2) = Len(fr) + Len(lz) + Len(freed)
    /\ ToSet(fr2) \cup ToSet(lz2) = ToSet(fr) \cup ToSet(lz) \cup ToSet(freed)

(* Only request r changes what it has: it keeps the entries from d on, or is over. *)
Keeps(r, d, e, finished, L, E, T, M, G, U) ==
    /\ finished => M = L \ {r}
    /\ ~finished => M = L /\ G[r] = d..(e - 1)
    /\ \A s \in L : s # r => G[s] = E[s]
    /\ \A s \in M : U[s] = T[s]

(* The first m of the slots, which are the free pages and those of evicted prefixes V, *)
(* are taken.                                                                          *)
Taken(fr, cc, V, slots, m, fr2, cc2) ==
    /\ V \subseteq DOMAIN cc /\ m <= Len(slots)
    /\ Len(slots) = Len(fr) + Cardinality(V)
    /\ ToSet(slots) = ToSet(fr) \cup PrefixPages(cc, V)
    /\ fr2 = SubSeq(slots, m + 1, Len(slots))
    /\ DOMAIN cc2 = DOMAIN cc \ V /\ \A p \in DOMAIN cc2 : cc2[p].page = cc[p].page

(* They become new entries of the rows, each of them some entry. *)
Written(L, E, T, slots, m, G, U) ==
    /\ \A r \in L : IsFiniteSet(G[r]) /\ E[r] \subseteq G[r]
    /\ \A r \in L : \A k \in E[r] : U[r][k] = T[r][k]
    /\ \A r \in L : \A k \in G[r] : k \notin E[r] => \E x \in 1..m : U[r][k] = slots[x]
    /\ \A x \in 1..m : \E r \in L : \E k \in G[r] : U[r][k] = slots[x]

(* What cache_req does to the pages of q: up to a its handle covers them, up to b the *)
(* cache has them by now, up to d it caches them, and up to e they are computed.      *)
Moves(q, c, finished) ==
    \E a, b, d, e \in Nat : \E N :
        /\ Release(page_table[q.table_idx], a, b, d, e, finished, c.freed, cache, c.cache, N)
        /\ q.handle_len \div PageSize = a /\ DivCeil(q.cached_len) = e
        /\ c.handle_len = PageSize * d /\ c.handle_len <= q.host_len
        /\ \E S : c.freed \in Seq(S)
        /\ cache_type # "radix" => N = {}

Entries == [r \in live |-> OwnEntries(r)]

Rows == [r \in live |-> page_table[req[r].table_idx]]

PartitionNow == Partition(free_slots, lazy_free_list, cache, live, Entries, Rows)

(* Each place can be counted. *)
Countable(fr, lz, cc, L, E) ==
    /\ fr \in Seq(Page) /\ lz \in Seq(Page) /\ IsFiniteSet(DOMAIN cc)
    /\ IsFiniteSet(L) /\ \A r \in L : IsFiniteSet(E[r])

TableInv ==
    /\ free_slots \in Seq(Page) /\ lazy_free_list \in Seq(Page)
    /\ DOMAIN page_table = Row
    /\ \A w \in Row : DOMAIN page_table[w] = 0..(DivCeil(MaxSeqLen) - 1)
    /\ IsFiniteSet(DOMAIN cache)

(* Handles end where pages end, and cover only what the host has. *)
HandleInv ==
    /\ \A r \in Req : req[r].handle_len <= req[r].host_len
                      /\ \E k \in Nat : req[r].handle_len = PageSize * k
    /\ cache_type # "radix" => DOMAIN cache = {}

(* No request computes beyond the end of its row. *)
FitsRow(q) == q.device_len <= MaxSeqLen

FitInv ==
    /\ \A r \in ToSet(pending_list) : MaxOutputLen(r) > 0
    /\ \A r \in live : /\ req[r].cached_len <= MaxSeqLen
                       /\ req[r].max_device_len \in Int /\ req[r].max_device_len <= MaxSeqLen
    /\ \A r \in running_reqs : FitsRow(req[r])
    /\ phase = "admit" => \A i \in DOMAIN adder.reqs : FitsRow(req[adder.reqs[i].uid])
    /\ phase \in {"allocate", "forward"} =>
          \A i \in DOMAIN batch.reqs : FitsRow(req[batch.reqs[i].uid])

PageInv == TableInv /\ HandleInv /\ FitInv /\ PagesPartitioned

-----------------------------------------------------------------------------
(* Counting *)

(* Nor are the elements of a sequence more than its length. *)
LEMMA ElementCount ==
    ASSUME NEW S, NEW s \in Seq(S)
    PROVE  /\ IsFiniteSet(ToSet(s)) /\ Cardinality(ToSet(s)) \in Nat
           /\ Cardinality(ToSet(s)) <= Len(s) /\ Len(s) \in Nat
<1>1. Len(s) \in Nat /\ DOMAIN s = 1..Len(s) /\ s = [i \in DOMAIN s |-> s[i]]
  OBVIOUS
<1>2. IsFiniteSet(DOMAIN s) /\ Cardinality(DOMAIN s) = Len(s)
  <2> PICK n : n = Len(s)
    OBVIOUS
  <2>1. n \in Nat /\ DOMAIN s = 1..n
    BY <1>1
  <2>2. IsFiniteSet(1..n) /\ Cardinality(1..n) = IF 1 > n THEN 0 ELSE n - 1 + 1
    BY ONLY <2>1, FS_Interval
  <2> QED
    BY <2>1, <2>2
<1>3. /\ IsFiniteSet({s[i] : i \in DOMAIN s}) /\ Cardinality({s[i] : i \in DOMAIN s}) \in Nat
      /\ Cardinality({s[i] : i \in DOMAIN s}) <= Cardinality(DOMAIN s)
  BY ONLY <1>1, <1>2, ImageCount
<1> QED
  BY <1>1, <1>2, <1>3 DEF ToSet

(* Two sequences after each other. *)
LEMMA JoinedElements ==
    ASSUME NEW S, NEW s \in Seq(S), NEW t \in Seq(S)
    PROVE  /\ s \o t \in Seq(S) /\ Len(s \o t) = Len(s) + Len(t)
           /\ ToSet(s \o t) = ToSet(s) \cup ToSet(t)
           /\ Len(<<>>) = 0 /\ ToSet(<<>>) = {}
<1> PICK u : u = s \o t
  OBVIOUS
<1>1. /\ u \in Seq(S) /\ Len(u) = Len(s) + Len(t) /\ Len(s) \in Nat /\ Len(t) \in Nat
      /\ \A i \in 1..Len(u) : u[i] = IF i <= Len(s) THEN s[i] ELSE t[i - Len(s)]
  BY ConcatProperties
<1>2. \A i \in 1..Len(u) : u[i] \in ToSet(s) \cup ToSet(t)
  BY <1>1 DEF ToSet
<1>3. \A i \in 1..Len(s) : i \in 1..Len(u) /\ u[i] = s[i]
  BY <1>1
<1>4. \A i \in 1..Len(t) : i + Len(s) \in 1..Len(u) /\ u[i + Len(s)] = t[i]
  BY <1>1
<1>5. DOMAIN u = 1..Len(u) /\ DOMAIN s = 1..Len(s) /\ DOMAIN t = 1..Len(t)
  BY <1>1, LenProperties
<1>6. ToSet(u) = ToSet(s) \cup ToSet(t)
  <2>1. ToSet(u) \subseteq ToSet(s) \cup ToSet(t)
    <3> PICK A : A = ToSet(s) \cup ToSet(t)
      OBVIOUS
    <3> QED
      BY <1>2, <1>5 DEF ToSet
  <2>2. ToSet(s) \subseteq ToSet(u)
    BY <1>3, <1>5 DEF ToSet
  <2>3. ToSet(t) \subseteq ToSet(u)
    BY <1>4, <1>5 DEF ToSet
  <2> QED
    BY <2>1, <2>2, <2>3
<1>7. Len(<<>>) = 0 /\ ToSet(<<>>) = {}
  BY DEF ToSet
<1> QED
  BY <1>1, <1>6, <1>7

(* Every page is somewhere, so there are no more pages than places. *)
LEMMA PlacesForAll ==
    ASSUME NEW fr \in Seq(Page), NEW lz \in Seq(Page), NEW cp, NEW hp,
           IsFiniteSet(cp), IsFiniteSet(hp), Page = ToSet(fr) \cup ToSet(lz) \cup cp \cup hp
    PROVE  /\ NumPages <= Len(fr) + Len(lz) + Cardinality(cp) + Cardinality(hp)
           /\ Cardinality(cp) \in Nat /\ Cardinality(hp) \in Nat
<1>1. NumPages \in Nat \ {0} /\ Cardinality(Page) = NumPages
  BY SchedulerAssumptions, FS_Interval DEF Page
<1> PICK f : f = ToSet(fr)
  OBVIOUS
<1> PICK l : l = ToSet(lz)
  OBVIOUS
<1>2. /\ IsFiniteSet(f) /\ Cardinality(f) \in Nat /\ Cardinality(f) <= Len(fr) /\ Len(fr) \in Nat
      /\ IsFiniteSet(l) /\ Cardinality(l) \in Nat /\ Cardinality(l) <= Len(lz) /\ Len(lz) \in Nat
  BY ElementCount
<1>3. /\ IsFiniteSet(f \cup l) /\ Cardinality(f \cup l) \in Nat
      /\ Cardinality(f \cup l) <= Cardinality(f) + Cardinality(l)
  BY <1>2, UnionCount
<1>4. /\ IsFiniteSet((f \cup l) \cup cp) /\ Cardinality((f \cup l) \cup cp) \in Nat
      /\ Cardinality(cp) \in Nat
      /\ Cardinality((f \cup l) \cup cp) <= Cardinality(f \cup l) + Cardinality(cp)
  BY <1>3, UnionCount
<1>5. /\ Cardinality(((f \cup l) \cup cp) \cup hp) \in Nat /\ Cardinality(hp) \in Nat
      /\ Cardinality(((f \cup l) \cup cp) \cup hp) <= Cardinality((f \cup l) \cup cp) + Cardinality(hp)
  BY <1>4, UnionCount
<1>6. Page = ((f \cup l) \cup cp) \cup hp
  OBVIOUS
<1> QED
  BY <1>1, <1>2, <1>3, <1>4, <1>5, <1>6

(* The elements of a finite set in a sequence. *)
LEMMA SeqOfSet ==
    ASSUME NEW S, IsFiniteSet(S)
    PROVE  SetToSeq(S) \in Seq(S) /\ Len(SetToSeq(S)) = Cardinality(S) /\ ToSet(SetToSeq(S)) = S
<1> PICK n : n = Cardinality(S)
  OBVIOUS
<1> PICK f : f = SetToSeq(S)
  OBVIOUS
<1>1. n \in Nat /\ ExistsBijection(1..n, S)
  BY FS_CardinalityType
<1>2. f \in [1..n -> S] /\ IsInjective(f)
  <2>1. \E g \in [1..n -> S] : IsInjective(g)
    BY <1>1 DEF ExistsBijection, Bijection, Injection
  <2> QED
    BY <2>1 DEF SetToSeq
<1>3. f \in Seq(S) /\ Len(f) = n /\ DOMAIN f = 1..n
  BY <1>1, <1>2, FunctionIsSeq
<1>4. f \in Bijection(1..n, Range(f))
  BY <1>2, Fun_InjMeansBijImage DEF Injection
<1>5. Range(f) \subseteq S /\ Cardinality(Range(f)) = n
  <2>1. IsFiniteSet(1..n) /\ Cardinality(1..n) = n
    BY <1>1, FS_Interval
  <2>2. ExistsBijection(1..n, Range(f))
    BY <1>4 DEF ExistsBijection
  <2>3. Cardinality(Range(f)) = n
    BY <2>1, <2>2, FS_Bijection
  <2> QED
    BY <1>2, <2>3 DEF Range
<1>6. Range(f) = S
  BY <1>5, FS_Subset
<1> QED
  BY <1>3, <1>6 DEF Range, ToSet

-----------------------------------------------------------------------------
(* Pages of lengths *)

(* Rounding up. *)
LEMMA CeilOfPages ==
    ASSUME NEW k \in Nat
    PROVE  DivCeil(PageSize * k) = k
<1>1. PageSize \in Nat \ {0}
  BY PageSizeAssumption
<1>2. PageSize * k \in Nat
  BY <1>1
<1> DEFINE n == PageSize * k + PageSize - 1
           d == n \div PageSize
<1>3. n \in Nat /\ d \in Nat /\ PageSize * d <= n /\ n < PageSize * (d + 1)
  BY <1>1, <1>2
<1>4. d <= k
  <2>1. SUFFICES ASSUME d >= k + 1 PROVE FALSE
    BY <1>3
  <2>2. PageSize * d >= PageSize * (k + 1)
    BY <1>1, <1>3, <2>1
  <2>3. PageSize * (k + 1) = PageSize * k + PageSize
    BY <1>1
  <2> QED
    BY <1>1, <1>2, <1>3, <2>2, <2>3
<1>5. k <= d
  <2>1. SUFFICES ASSUME d + 1 <= k PROVE FALSE
    BY <1>3
  <2>2. PageSize * (d + 1) <= PageSize * k
    BY <1>1, <1>3, <2>1
  <2> QED
    BY <1>1, <1>2, <1>3, <2>2
<1> QED
  BY <1>3, <1>4, <1>5 DEF DivCeil

(* More tokens take no fewer pages. *)
LEMMA CeilIsMonotone ==
    ASSUME NEW m \in Nat, NEW n \in Nat, m <= n
    PROVE  DivCeil(m) \in Nat /\ DivCeil(n) \in Nat /\ DivCeil(m) <= DivCeil(n)
<1>1. PageSize \in Nat \ {0}
  BY PageSizeAssumption
<1> DEFINE a == m + PageSize - 1
           b == n + PageSize - 1
           c == a \div PageSize
           d == b \div PageSize
<1>2. /\ a \in Nat /\ c \in Nat /\ PageSize * c <= a
      /\ b \in Nat /\ d \in Nat /\ b < PageSize * (d + 1) /\ a <= b
  BY <1>1
<1>3. c <= d
  <2>1. SUFFICES ASSUME c >= d + 1 PROVE FALSE
    BY <1>2
  <2>2. PageSize * c >= PageSize * (d + 1)
    BY <1>1, <1>2, <2>1
  <2>3. PageSize * (d + 1) \in Nat /\ PageSize * c \in Nat
    BY <1>1, <1>2
  <2> QED
    BY <1>2, <2>2, <2>3
<1> QED
  BY <1>2, <1>3 DEF DivCeil

(* Whole pages within a length. *)
LEMMA PagesWithin ==
    ASSUME NEW k \in Nat, NEW n \in Nat, PageSize * k <= n
    PROVE  (PageSize * k) \div PageSize = k /\ k <= DivCeil(n) /\ DivCeil(n) \in Nat
<1>1. PageSize * k \in Nat /\ (PageSize * k) \div PageSize = k
  BY PageArithmetic
<1> QED
  BY <1>1, CeilOfPages, CeilIsMonotone

-----------------------------------------------------------------------------
(* Positions *)

(* Stretches F[i]..G[i]-1 laid end to end fill the numbers from one on: entry k *)
(* of stretch i comes after all of the stretches before.                        *)
Stretches(n, F, G) == UNION {{i} \X (F[i]..(G[i] - 1)) : i \in 1..n}

Earlier(N, i) == {m \in N : m[1] < i}

PlaceOf(N, F, i, k) == Cardinality(Earlier(N, i)) + k - F[i] + 1

(* Stretches laid end to end number their members from 1 without a gap. *)
LEMMA StretchesFill ==
    ASSUME NEW n \in Nat, NEW F, NEW G,
           \A i \in 1..n : F[i] \in Nat /\ G[i] \in Nat /\ F[i] <= G[i],
           NEW N, N = Stretches(n, F, G)
    PROVE  /\ IsFiniteSet(N) /\ Cardinality(N) \in Nat
           /\ \A i \in 1..n : \A k \in F[i]..(G[i] - 1) : PlaceOf(N, F, i, k) \in 1..Cardinality(N)
           /\ \A x \in 1..Cardinality(N) : \E i \in 1..n : \E k \in F[i]..(G[i] - 1) :
                 x = PlaceOf(N, F, i, k)
<1>0. N = UNION {{i} \X (F[i]..(G[i] - 1)) : i \in 1..n}
  BY DEF Stretches
<1> USE <1>0
<1> PICK Before : Before = [i \in 1..n |-> {m \in N : m[1] < i}]
  OBVIOUS
<1> PICK c : c = [i \in 1..n |-> {i} \X (F[i]..(G[i] - 1))]
  OBVIOUS
<1>1. \A i \in 1..n : /\ IsFiniteSet(c[i]) /\ Cardinality(c[i]) = G[i] - F[i]
                      /\ F[i]..(G[i] - 1) \subseteq Nat
  <2> TAKE i \in 1..n
  <2>1. F[i] \in Nat /\ G[i] \in Nat /\ F[i] <= G[i] /\ c[i] = {i} \X (F[i]..(G[i] - 1))
    OBVIOUS
  <2>2. /\ IsFiniteSet(F[i]..(G[i] - 1)) /\ Cardinality(F[i]..(G[i] - 1)) = G[i] - F[i]
        /\ F[i]..(G[i] - 1) \subseteq Nat
    BY ONLY <2>1, IntervalCount
  <2> QED
    BY ONLY <2>1, <2>2, PairCount, ZenonT(60)
<1>2. IsFiniteSet(N) /\ Cardinality(N) \in Nat
  <2>1. IsFiniteSet(1..n)
    <3>1. 1 \in Int /\ n \in Int
      OBVIOUS
    <3> QED
      BY ONLY <3>1, FS_Interval
  <2>2. IsFiniteSet({c[i] : i \in 1..n})
    <3>1. c = [i \in 1..n |-> c[i]]
      OBVIOUS
    <3> QED
      BY ONLY <2>1, <3>1, ImageCount
  <2>3. N = UNION {c[i] : i \in 1..n}
    OBVIOUS
  <2> QED
    BY ONLY <1>1, <2>2, <2>3, FS_UNION, FS_CardinalityType
<1>3. \A m \in N : m[1] \in 1..n /\ m[2] \in F[m[1]]..(G[m[1]] - 1) /\ m = <<m[1], m[2]>>
  OBVIOUS
<1>4. \A i \in 1..n : \A k \in F[i]..(G[i] - 1) : <<i, k>> \in N
  OBVIOUS
<1> PICK e : e = [i \in 1..n |-> Cardinality(Before[i])]
  OBVIOUS
<1>5. ASSUME NEW i \in 1..n, NEW U, U \subseteq N, \A m \in N : m[1] <= i => m \in U
      PROVE  /\ e[i] \in Nat /\ IsFiniteSet(U) /\ Cardinality(U) \in Nat
             /\ e[i] + (G[i] - F[i]) <= Cardinality(U)
  <2>1. Before[i] \subseteq N /\ IsFiniteSet(Before[i])
    BY <1>2, FS_Subset
  <2>2. Before[i] \cap c[i] = {}
    <3>1. \A m \in Before[i] : m[1] < i
      OBVIOUS
    <3>2. \A m \in c[i] : m[1] = i
      OBVIOUS
    <3> QED
      BY ONLY <3>1, <3>2, i \in 1..n
  <2>3. Before[i] \cup c[i] \subseteq U
    <3>1. \A m \in Before[i] : m \in N /\ m[1] <= i
      BY <1>3
    <3>2. \A m \in c[i] : m \in N /\ m[1] = i
      BY <1>4
    <3> QED
      BY <1>5, <3>1, <3>2
  <2>4. /\ Cardinality(Before[i]) \in Nat /\ IsFiniteSet(Before[i] \cup c[i])
        /\ Cardinality(Before[i] \cup c[i]) = Cardinality(Before[i]) + Cardinality(c[i])
    BY ONLY <1>1, <2>1, <2>2, UnionCount, i \in 1..n
  <2>5. IsFiniteSet(U) /\ Cardinality(U) \in Nat
    BY <1>2, <1>5, FS_Subset, FS_CardinalityType
  <2>6. Cardinality(Before[i] \cup c[i]) <= Cardinality(U)
    BY <2>3, <2>5, FS_Subset
  <2>7. e[i] = Cardinality(Before[i]) /\ Cardinality(c[i]) = G[i] - F[i]
    BY <1>1
  <2> QED
    BY ONLY <2>4, <2>5, <2>6, <2>7
<1>6. \A i \in 1..n : e[i] \in Nat /\ e[i] + (G[i] - F[i]) <= Cardinality(N)
  BY <1>5
<1>7. \A i, j \in 1..n : i < j => e[i] + (G[i] - F[i]) <= e[j]
  <2> SUFFICES ASSUME NEW i \in 1..n, NEW j \in 1..n, i < j
               PROVE  e[i] + (G[i] - F[i]) <= e[j]
    OBVIOUS
  <2>1. Before[j] \subseteq N /\ \A m \in N : m[1] <= i => m \in Before[j]
    <3>1. \A m \in N : m[1] <= i => m[1] < j
      BY <1>3
    <3> QED
      BY <3>1
  <2>2. e[i] + (G[i] - F[i]) <= Cardinality(Before[j])
    BY ONLY <1>5, <2>1, i \in 1..n
  <2> QED
    BY <2>2
<1> PICK p : p = [m \in N |-> e[m[1]] + m[2] - F[m[1]] + 1]
  OBVIOUS
<1>8. p \in [N -> 1..Cardinality(N)]
  <2> SUFFICES ASSUME NEW m \in N
               PROVE  e[m[1]] + m[2] - F[m[1]] + 1 \in 1..Cardinality(N)
    OBVIOUS
  <2>1a. PICK i \in 1..n : \E k \in F[i]..(G[i] - 1) : m = <<i, k>>
    BY <1>3
  <2>1. PICK k \in F[i]..(G[i] - 1) : m = <<i, k>>
    BY <2>1a
  <2>2. e[i] \in Nat /\ e[i] + (G[i] - F[i]) <= Cardinality(N) /\ F[i] \in Nat /\ G[i] \in Nat
    BY <1>6
  <2>3. e[i] + k - F[i] + 1 \in 1..Cardinality(N)
    BY ONLY <1>2, <2>2, k \in F[i]..(G[i] - 1)
  <2> QED
    BY <2>1, <2>3
<1>9. \A l, m \in N : p[l] = p[m] => l = m
  <2> SUFFICES ASSUME NEW l \in N, NEW m \in N, p[l] = p[m]
               PROVE  l = m
    OBVIOUS
  <2>1a. PICK i \in 1..n : \E h \in F[i]..(G[i] - 1) : l = <<i, h>>
    BY <1>3
  <2>1. PICK h \in F[i]..(G[i] - 1) : l = <<i, h>>
    BY <2>1a
  <2>2a. PICK j \in 1..n : \E k \in F[j]..(G[j] - 1) : m = <<j, k>>
    BY <1>3
  <2>2. PICK k \in F[j]..(G[j] - 1) : m = <<j, k>>
    BY <2>2a
  <2>3. e[i] + h - F[i] + 1 = e[j] + k - F[j] + 1
    BY <2>1, <2>2
  <2>4. /\ e[i] \in Nat /\ F[i] \in Nat /\ G[i] \in Nat
        /\ e[j] \in Nat /\ F[j] \in Nat /\ G[j] \in Nat
    BY <1>6
  <2>5. ~(i < j)
    <3>1. i < j => e[i] + (G[i] - F[i]) <= e[j]
      BY <1>7
    <3> QED
      BY ONLY <2>3, <2>4, <3>1, h \in F[i]..(G[i] - 1), k \in F[j]..(G[j] - 1)
  <2>6. ~(j < i)
    <3>1. j < i => e[j] + (G[j] - F[j]) <= e[i]
      BY <1>7
    <3> QED
      BY ONLY <2>3, <2>4, <3>1, h \in F[i]..(G[i] - 1), k \in F[j]..(G[j] - 1)
  <2>7. i = j
    BY ONLY <2>5, <2>6, i \in 1..n, j \in 1..n
  <2>8. h = k
    BY ONLY <2>3, <2>4, <2>7, h \in F[i]..(G[i] - 1), k \in F[j]..(G[j] - 1)
  <2> QED
    BY <2>1, <2>2, <2>7, <2>8
<1>10. p \in Surjection(N, 1..Cardinality(N))
  <2> PICK d : d = Cardinality(N)
    OBVIOUS
  <2>1. d \in Nat /\ p \in [N -> 1..d]
    BY <1>2, <1>8
  <2>2. IsFiniteSet(1..d) /\ Cardinality(1..d) = d
    BY ONLY <2>1, FS_Interval
  <2>3. p \in Injection(N, 1..d)
    BY ONLY <1>9, <2>1, Fun_IsInj
  <2>4. p \in Surjection(N, 1..d)
    BY ONLY <2>2, <2>3, FS_Injection, d = Cardinality(N)
  <2> QED
    BY ONLY <2>4, d = Cardinality(N)
<1>11. ASSUME NEW i \in 1..n, NEW k \in F[i]..(G[i] - 1)
       PROVE  Cardinality(Before[i]) + k - F[i] + 1 \in 1..Cardinality(N)
  <2>1. <<i, k>> \in N /\ p[<<i, k>>] = e[i] + k - F[i] + 1 /\ e[i] = Cardinality(Before[i])
    BY <1>4
  <2>2. p[<<i, k>>] \in 1..Cardinality(N)
    BY <1>8, <2>1
  <2> QED
    BY <2>1, <2>2
<1>12. ASSUME NEW x \in 1..Cardinality(N)
       PROVE  \E i \in 1..n : \E k \in F[i]..(G[i] - 1) : x = Cardinality(Before[i]) + k - F[i] + 1
  <2>1. PICK m \in N : p[m] = x
    <3> PICK X : X = 1..Cardinality(N)
      OBVIOUS
    <3>1. p \in Surjection(N, X) /\ x \in X
      BY <1>10
    <3> QED
      BY ONLY <3>1, Fun_SurjectionProperties
  <2>2a. PICK i \in 1..n : \E k \in F[i]..(G[i] - 1) : m = <<i, k>>
    BY <1>3
  <2>2. PICK k \in F[i]..(G[i] - 1) : m = <<i, k>>
    BY <2>2a
  <2>3. x = Cardinality(Before[i]) + k - F[i] + 1
    BY <2>1, <2>2
  <2> QED
    BY <2>3
<1>13. \A i \in 1..n : Before[i] = Earlier(N, i)
  BY DEF Earlier
<1>14. \A i \in 1..n : \A k \in F[i]..(G[i] - 1) :
          PlaceOf(N, F, i, k) = Cardinality(Before[i]) + k - F[i] + 1
  BY ONLY <1>13 DEF PlaceOf
<1> QED
  BY ONLY <1>2, <1>11, <1>12, <1>14

-----------------------------------------------------------------------------
(* Places *)

(* PagesPartitioned, in the terms the lemmas about places use. *)
LEMMA PartitionIsNow ==
    /\ PagesPartitioned <=> PartitionNow
    /\ PagesPartitioned' <=> PartitionNow'
<1>1. /\ UNION {Own(r) : r \in live} = RowPages(live, Entries, Rows)
      /\ UNION {{r} \X OwnEntries(r) : r \in live} = Pairs(live, Entries)
  BY DEF Own, Rows, Entries, Pairs, RowPages
<1>2. /\ UNION {Own(r) : r \in live}' = RowPages(live, Entries, Rows)'
      /\ UNION {{r} \X OwnEntries(r) : r \in live}' = Pairs(live, Entries)'
  BY DEF Own, Rows, Entries, Pairs, RowPages
<1> QED
  BY <1>1, <1>2 DEF PagesPartitioned, PartitionNow, Partition, Places, PlaceCount

(* The pages of the rows are no more than their entries. *)
LEMMA RowPagesCount ==
    ASSUME NEW L, IsFiniteSet(L), NEW E, \A r \in L : IsFiniteSet(E[r]), NEW T,
           NEW hp, hp = RowPages(L, E, T),
           NEW P, P = Pairs(L, E)
    PROVE  /\ IsFiniteSet(hp) /\ Cardinality(hp) \in Nat /\ Cardinality(hp) <= Cardinality(P)
           /\ IsFiniteSet(P) /\ Cardinality(P) \in Nat
<1>1. IsFiniteSet(P) /\ Cardinality(P) \in Nat
  BY PairsCount
<1> PICK f : f = [n \in P |-> T[n[1]][n[2]]]
  OBVIOUS
<1>2. hp = {f[n] : n \in P}
  <2>1. \A n \in P : f[n] \in hp
    <3> TAKE n \in P
    <3>1. PICK r \in L : n \in {r} \X E[r]
      BY DEF Pairs
    <3>2. n[1] = r /\ n[2] \in E[r]
      BY <3>1
    <3> QED
      BY <3>2 DEF RowPages
  <2>2. \A r \in L : \A k \in E[r] : <<r, k>> \in P /\ f[<<r, k>>] = T[r][k]
    BY DEF Pairs
  <2>3. ASSUME NEW g \in hp PROVE g \in {f[n] : n \in P}
    <3>1. PICK r \in L : g \in {T[r][k] : k \in E[r]}
      BY <2>3 DEF RowPages
    <3>2. PICK k \in E[r] : g = T[r][k]
      BY <3>1
    <3> QED
      BY ONLY <2>2, <3>2
  <2> QED
    BY <2>1, <2>3
<1>3. f = [n \in P |-> f[n]]
  OBVIOUS
<1> QED
  BY ONLY <1>1, <1>2, <1>3, ImageCount

(* Places that hold every page, no more of them than pages, hold each once. *)
LEMMA PartitionFollows ==
    ASSUME NEW fr, NEW lz, NEW cc, NEW L, NEW E, NEW T, Countable(fr, lz, cc, L, E),
           Page = Places(fr, lz, cc, L, E, T), PlaceCount(fr, lz, cc, L, E) <= NumPages
    PROVE  Partition(fr, lz, cc, L, E, T)
<1> PICK cp : cp = {cc[p].page : p \in DOMAIN cc}
  OBVIOUS
<1> PICK hp : hp = RowPages(L, E, T)
  OBVIOUS
<1> PICK P : P = Pairs(L, E)
  OBVIOUS
<1>1. IsFiniteSet(P) /\ Cardinality(P) \in Nat
  BY PairsCount DEF Countable
<1>2. IsFiniteSet(cp) /\ Cardinality(cp) \in Nat /\ Cardinality(cp) <= Cardinality(DOMAIN cc)
  <2> PICK f : f = [p \in DOMAIN cc |-> cc[p].page]
    OBVIOUS
  <2> PICK D : D = DOMAIN cc
    OBVIOUS
  <2>1. IsFiniteSet(D) /\ f = [p \in D |-> f[p]] /\ cp = {f[p] : p \in D}
    BY DEF Countable
  <2> QED
    BY ONLY <2>1, ImageCount, D = DOMAIN cc
<1>3. IsFiniteSet(hp) /\ Cardinality(hp) \in Nat /\ Cardinality(hp) <= Cardinality(P)
  <2>1. IsFiniteSet(L) /\ \A r \in L : IsFiniteSet(E[r])
    BY DEF Countable
  <2> QED
    BY ONLY <2>1, RowPagesCount, hp = RowPages(L, E, T), P = Pairs(L, E)
<1>4. fr \in Seq(Page) /\ lz \in Seq(Page) /\ Page = ToSet(fr) \cup ToSet(lz) \cup cp \cup hp
  BY DEF Countable, Places
<1>5. NumPages <= Len(fr) + Len(lz) + Cardinality(cp) + Cardinality(hp)
  BY ONLY <1>2, <1>3, <1>4, PlacesForAll
<1>6. Cardinality(DOMAIN cc) \in Nat
  BY FS_CardinalityType DEF Countable
<1>7. Len(fr) \in Nat /\ Len(lz) \in Nat /\ NumPages \in Nat
  BY SchedulerAssumptions DEF Countable
<1>8. Len(fr) + Len(lz) + Cardinality(DOMAIN cc) + Cardinality(P) <= NumPages
  BY DEF PlaceCount
<1>9. NumPages = Len(fr) + Len(lz) + Cardinality(DOMAIN cc) + Cardinality(P)
  BY ONLY <1>1, <1>2, <1>3, <1>5, <1>6, <1>7, <1>8
<1> QED
  BY <1>9 DEF Partition, PlaceCount

(* Nothing moves but from one list to the other; a newcomer has nothing yet. *)
LEMMA PagesStay ==
    ASSUME NEW fr, NEW lz, NEW cc, NEW L, NEW E, NEW T, Partition(fr, lz, cc, L, E, T),
           NEW fr2, NEW lz2, NEW cc2, NEW M, NEW G, NEW U,
           Len(fr2) + Len(lz2) = Len(fr) + Len(lz),
           ToSet(fr2) \cup ToSet(lz2) = ToSet(fr) \cup ToSet(lz),
           DOMAIN cc2 = DOMAIN cc, \A p \in DOMAIN cc : cc2[p].page = cc[p].page,
           L \subseteq M, \A r \in L : G[r] = E[r] /\ \A k \in E[r] : U[r][k] = T[r][k],
           \A r \in M \ L : G[r] = {}
    PROVE  Partition(fr2, lz2, cc2, M, G, U)
<1>1. RowPages(M, G, U) = RowPages(L, E, T)
  <2> PICK old : old = [r \in L |-> {T[r][k] : k \in E[r]}]
    OBVIOUS
  <2> PICK new : new = [r \in M |-> {U[r][k] : k \in G[r]}]
    OBVIOUS
  <2>1. \A r \in L : new[r] = old[r]
    OBVIOUS
  <2>2. \A r \in M \ L : new[r] = {}
    OBVIOUS
  <2>3. UNION {new[r] : r \in M} = UNION {old[r] : r \in L}
    BY ONLY <2>1, <2>2, L \subseteq M
  <2> QED
    BY <2>3 DEF RowPages
<1>2. Pairs(M, G) = Pairs(L, E)
  <2> PICK old : old = [r \in L |-> {r} \X E[r]]
    OBVIOUS
  <2> PICK new : new = [r \in M |-> {r} \X G[r]]
    OBVIOUS
  <2>1. \A r \in L : new[r] = old[r]
    OBVIOUS
  <2>2. \A r \in M \ L : new[r] = {}
    OBVIOUS
  <2>3. UNION {new[r] : r \in M} = UNION {old[r] : r \in L}
    BY ONLY <2>1, <2>2, L \subseteq M
  <2> QED
    BY <2>3 DEF Pairs
<1>3. {cc2[p].page : p \in DOMAIN cc2} = {cc[p].page : p \in DOMAIN cc}
  OBVIOUS
<1> QED
  BY <1>1, <1>2, <1>3 DEF Partition, Places, PlaceCount

(* Request r keeps its entries from d on, or is over; the cache takes those from b *)
(* to d that it has not, and the rest are freed.                                   *)
LEMMA PagesReleased ==
    ASSUME NEW fr, NEW lz, NEW cc, NEW L, NEW E, NEW T, Partition(fr, lz, cc, L, E, T),
           Countable(fr, lz, cc, L, E),
           NEW r \in L, NEW a \in Nat, NEW b \in Nat, NEW d \in Nat, NEW e \in Nat,
           E[r] = a..(e - 1), NEW finished, NEW freed, NEW cc2, NEW N,
           Release(T[r], a, b, d, e, finished, freed, cc, cc2, N),
           NEW fr2 \in Seq(Page), NEW lz2 \in Seq(Page),
           Goes(freed, fr, lz, fr2, lz2),
           NEW M, NEW G, NEW U, Keeps(r, d, e, finished, L, E, T, M, G, U)
    PROVE  Partition(fr2, lz2, cc2, M, G, U)
<1>0. /\ a <= b /\ b <= d /\ d <= e
      /\ Len(freed) = (b - a) + (IF finished THEN e - d ELSE 0)
      /\ ToSet(freed) = PagesAt(T[r], (a..(b - 1)) \cup (IF finished THEN d..(e - 1) ELSE {}))
      /\ DOMAIN cc2 = DOMAIN cc \cup N /\ \A p \in DOMAIN cc : cc2[p].page = cc[p].page
      /\ IsFiniteSet(N) /\ Cardinality(N) <= d - b
      /\ PrefixPages(cc2, N) = PagesAt(T[r], b..(d - 1))
  BY DEF Release
<1>00. /\ finished => M = L \ {r}
       /\ ~finished => M = L /\ G[r] = d..(e - 1)
       /\ \A s \in L : s # r => G[s] = E[s]
       /\ \A s \in M : U[s] = T[s]
  BY DEF Keeps
<1>000. /\ Len(fr2) + Len(lz2) = Len(fr) + Len(lz) + Len(freed)
        /\ ToSet(fr2) \cup ToSet(lz2) = ToSet(fr) \cup ToSet(lz) \cup ToSet(freed)
  BY DEF Goes
<1> USE <1>0, <1>00, <1>000
<1> PICK t : t = T[r]
  OBVIOUS
<1> PICK given : given = {t[k] : k \in a..(b - 1)}
  OBVIOUS
<1> PICK kept : kept = {t[k] : k \in b..(d - 1)}
  OBVIOUS
<1> PICK left : left = {t[k] : k \in d..(e - 1)}
  OBVIOUS
<1> PICK others : others = UNION {{T[s][k] : k \in E[s]} : s \in L \ {r}}
  OBVIOUS
<1> PICK cached : cached = {cc[p].page : p \in DOMAIN cc}
  OBVIOUS
<1> PICK listed : listed = ToSet(fr) \cup ToSet(lz)
  OBVIOUS
<1>1. Page = listed \cup cached \cup others \cup given \cup kept \cup left
  <2>1. {t[k] : k \in E[r]} = given \cup kept \cup left
    <3>1. a..(e - 1) = (a..(b - 1)) \cup (b..(d - 1)) \cup (d..(e - 1))
      BY ONLY a \in Nat, b \in Nat, d \in Nat, e \in Nat, a <= b, b <= d, d <= e
    <3> QED
      BY ONLY <3>1, E[r] = a..(e - 1), given = {t[k] : k \in a..(b - 1)},
              kept = {t[k] : k \in b..(d - 1)}, left = {t[k] : k \in d..(e - 1)}
  <2>2. RowPages(L, E, T) = others \cup {t[k] : k \in E[r]}
    <3> PICK old : old = [s \in L |-> {T[s][k] : k \in E[s]}]
      OBVIOUS
    <3> PICK A : A = {old[s] : s \in L \ {r}}
      OBVIOUS
    <3> PICK B : B = old[r]
      OBVIOUS
    <3>1. others = UNION A /\ B = {t[k] : k \in E[r]}
      <4>1. B = {t[k] : k \in E[r]}
        BY ONLY B = old[r], old = [s \in L |-> {T[s][k] : k \in E[s]}], r \in L, t = T[r]
      <4>2. others = UNION A
        BY ONLY A = {old[s] : s \in L \ {r}}, old = [s \in L |-> {T[s][k] : k \in E[s]}],
                others = UNION {{T[s][k] : k \in E[s]} : s \in L \ {r}}
      <4> QED
        BY ONLY <4>1, <4>2
    <3>2. RowPages(L, E, T) = UNION {old[s] : s \in L}
      BY DEF RowPages
    <3>3. {old[s] : s \in L} = A \cup {B}
      BY ONLY r \in L, A = {old[s] : s \in L \ {r}}, B = old[r]
    <3>4. UNION (A \cup {B}) = (UNION A) \cup B
      BY ONLY TRUE
    <3> QED
      BY ONLY <3>1, <3>2, <3>3, <3>4
  <2> QED
    BY <2>1, <2>2 DEF Partition, Places
<1>2. ToSet(freed) = given \cup (IF finished THEN left ELSE {})
  BY DEF PagesAt
<1>3. {cc2[p].page : p \in DOMAIN cc2} = cached \cup kept
  <2>1. {cc2[p].page : p \in N} = kept
    BY DEF PagesAt, PrefixPages
  <2>2. {cc2[p].page : p \in DOMAIN cc} = cached
    OBVIOUS
  <2>3. {cc2[p].page : p \in DOMAIN cc2} = {cc2[p].page : p \in DOMAIN cc} \cup {cc2[p].page : p \in N}
    OBVIOUS
  <2> QED
    BY ONLY <2>1, <2>2, <2>3
<1>4. RowPages(M, G, U) = others \cup (IF finished THEN {} ELSE left)
  <2> PICK old : old = [s \in L |-> {T[s][k] : k \in E[s]}]
    OBVIOUS
  <2> PICK new : new = [s \in M |-> {U[s][k] : k \in G[s]}]
    OBVIOUS
  <2>1. \A s \in L \ {r} : s \in M /\ new[s] = old[s]
    OBVIOUS
  <2>a. RowPages(M, G, U) = UNION {new[s] : s \in M}
    BY ONLY new = [s \in M |-> {U[s][k] : k \in G[s]}] DEF RowPages
  <2>b. others = UNION {old[s] : s \in L \ {r}}
    BY ONLY others = UNION {{T[s][k] : k \in E[s]} : s \in L \ {r}},
            old = [s \in L |-> {T[s][k] : k \in E[s]}]
  <2>2. CASE finished
    <3>1. M = L \ {r}
      BY <2>2
    <3> QED
      BY ONLY <2>1, <2>a, <2>b, <2>2, <3>1
  <2>3. CASE ~finished
    <3>1. M = L /\ G[r] = d..(e - 1) /\ U[r] = t
      BY <2>3
    <3>2. new[r] = left
      BY ONLY <3>1, r \in L, new = [s \in M |-> {U[s][k] : k \in G[s]}],
              left = {t[k] : k \in d..(e - 1)}
    <3>3. UNION {new[s] : s \in L} = (UNION {new[s] : s \in L \ {r}}) \cup new[r]
      BY ONLY r \in L
    <3>4. UNION {new[s] : s \in L \ {r}} = UNION {old[s] : s \in L \ {r}}
      BY ONLY <2>1
    <3> QED
      BY ONLY <2>a, <2>b, <2>3, <3>1, <3>2, <3>3, <3>4
  <2> QED
    BY <2>2, <2>3
<1>5. Page = Places(fr2, lz2, cc2, M, G, U)
  <2>1. ToSet(fr2) \cup ToSet(lz2) = listed \cup given \cup (IF finished THEN left ELSE {})
    BY <1>2
  <2> QED
    BY ONLY <1>1, <1>3, <1>4, <2>1 DEF Places
<1>6. Countable(fr2, lz2, cc2, M, G)
  <2>1. IsFiniteSet(DOMAIN cc \cup N)
    BY UnionCount DEF Countable
  <2>2. IsFiniteSet(L \ {r}) /\ IsFiniteSet(M)
    BY FS_RemoveElement DEF Countable
  <2>3. IsFiniteSet(d..(e - 1))
    BY IntervalCount
  <2>4. \A s \in M : IsFiniteSet(G[s])
    BY <2>3 DEF Countable
  <2> QED
    BY <2>1, <2>2, <2>4 DEF Countable
<1>7. PlaceCount(fr2, lz2, cc2, M, G) <= NumPages
  <2> PICK H : H = Pairs(L, E)
    OBVIOUS
  <2> PICK I : I = Pairs(M, G)
    OBVIOUS
  <2> PICK x : x = IF finished THEN {} ELSE d..(e - 1)
    OBVIOUS
  <2>1. /\ Cardinality(E[r]) = e - a
        /\ Cardinality(x) = IF finished THEN 0 ELSE e - d
    BY IntervalCount, FS_EmptySet, SMTT(40)
  <2>2. /\ Cardinality(H) \in Nat /\ Cardinality(I) \in Nat
        /\ Cardinality(I) + Cardinality(E[r]) = Cardinality(H) + Cardinality(x)
    <3>1. /\ IsFiniteSet(L) /\ \A s \in L : IsFiniteSet(E[s])
          /\ IsFiniteSet(M) /\ \A s \in M : IsFiniteSet(G[s])
      BY <1>6 DEF Countable
    <3>2. L \ {r} = M \ {r} /\ \A s \in L \ {r} : G[s] = E[s]
      OBVIOUS
    <3>3. PartOf(r, L, E) = E[r] /\ PartOf(r, M, G) = x
      BY DEF PartOf
    <3>4. /\ Cardinality(Pairs(L, E)) \in Nat /\ Cardinality(Pairs(M, G)) \in Nat
          /\ Cardinality(Pairs(M, G)) + Cardinality(PartOf(r, L, E))
               = Cardinality(Pairs(L, E)) + Cardinality(PartOf(r, M, G))
      BY ONLY <3>1, <3>2, PairsOfOne
    <3> QED
      BY ONLY <3>3, <3>4, H = Pairs(L, E), I = Pairs(M, G)
  <2> PICK c : c = Cardinality(DOMAIN cc)
    OBVIOUS
  <2> PICK n : n = Cardinality(DOMAIN cc2)
    OBVIOUS
  <2>3. c \in Nat /\ n \in Nat /\ n <= c + (d - b)
    <3> PICK D : D = DOMAIN cc
      OBVIOUS
    <3>1. IsFiniteSet(D) /\ n = Cardinality(D \cup N)
      BY DEF Countable
    <3>2. /\ n \in Nat /\ c \in Nat /\ Cardinality(N) \in Nat
          /\ n <= c + Cardinality(N)
      BY ONLY <3>1, UnionCount, IsFiniteSet(N), c = Cardinality(DOMAIN cc), D = DOMAIN cc
    <3> QED
      BY ONLY <3>2, Cardinality(N) <= d - b, d \in Nat, b \in Nat
  <2>4. NumPages = Len(fr) + Len(lz) + c + Cardinality(H)
    BY DEF Partition, PlaceCount
  <2>5. /\ Len(fr) \in Nat /\ Len(lz) \in Nat /\ Len(fr2) \in Nat /\ Len(lz2) \in Nat
        /\ Len(fr2) + Len(lz2) = Len(fr) + Len(lz) + (b - a) + (IF finished THEN e - d ELSE 0)
    <3>1. Len(fr) \in Nat /\ Len(lz) \in Nat /\ Len(fr2) \in Nat /\ Len(lz2) \in Nat
      BY ONLY Countable(fr, lz, cc, L, E), fr2 \in Seq(Page), lz2 \in Seq(Page) DEF Countable
    <3> PICK n1 : n1 = Len(fr) + Len(lz)
      OBVIOUS
    <3> PICK n2 : n2 = IF finished THEN e - d ELSE 0
      OBVIOUS
    <3>2. Len(fr2) + Len(lz2) = n1 + ((b - a) + n2) /\ n1 \in Nat /\ n2 \in Int
      BY <3>1
    <3>3. n1 + ((b - a) + n2) = n1 + (b - a) + n2
      BY ONLY <3>2, a \in Nat, b \in Nat
    <3> QED
      BY ONLY <3>1, <3>2, <3>3, n1 = Len(fr) + Len(lz), n2 = IF finished THEN e - d ELSE 0
  <2>6. Len(fr2) + Len(lz2) + n + Cardinality(I) <= NumPages
    BY ONLY <2>1, <2>2, <2>3, <2>4, <2>5, a \in Nat, b \in Nat, d \in Nat, e \in Nat,
            a <= b, b <= d, d <= e, SMTT(40)
  <2> QED
    BY <2>6 DEF PlaceCount
<1> QED
  BY <1>5, <1>6, <1>7, PartitionFollows

(* Distinct prefixes have distinct pages, or a page would have no place. *)
LEMMA PagesOfPrefixes ==
    ASSUME NEW fr, NEW lz, NEW cc, NEW L, NEW E, NEW T, Partition(fr, lz, cc, L, E, T),
           Countable(fr, lz, cc, L, E), NEW V, V \subseteq DOMAIN cc,
           NEW pages, pages = PrefixPages(cc, V)
    PROVE  /\ IsFiniteSet(pages) /\ Cardinality(pages) = Cardinality(V)
           /\ IsFiniteSet(V) /\ Cardinality(V) \in Nat
           /\ pages \subseteq Page
<1>0. pages = {cc[p].page : p \in V}
  BY DEF PrefixPages
<1> USE <1>0
<1> PICK D : D = DOMAIN cc
  OBVIOUS
<1> PICK f : f = [p \in D |-> cc[p].page]
  OBVIOUS
<1> PICK W : W = D \ V
  OBVIOUS
<1> PICK rest : rest = {f[p] : p \in W}
  OBVIOUS
<1> PICK hp : hp = RowPages(L, E, T)
  OBVIOUS
<1> PICK P : P = Pairs(L, E)
  OBVIOUS
<1>1. IsFiniteSet(D) /\ IsFiniteSet(V) /\ IsFiniteSet(W) /\ V \cup W = D /\ V \cap W = {}
  <2>1. IsFiniteSet(D) /\ V \subseteq D
    BY DEF Countable
  <2> QED
    BY ONLY <2>1, FS_Subset, W = D \ V
<1>2. Cardinality(D) = Cardinality(V) + Cardinality(W) /\ Cardinality(V) \in Nat
      /\ Cardinality(W) \in Nat
  BY ONLY <1>1, UnionCount
<1>3. /\ IsFiniteSet(pages) /\ Cardinality(pages) \in Nat /\ Cardinality(pages) <= Cardinality(V)
  <2> PICK g : g = [p \in V |-> cc[p].page]
    OBVIOUS
  <2>1. g = [p \in V |-> g[p]] /\ pages = {g[p] : p \in V}
    OBVIOUS
  <2> QED
    BY ONLY <1>1, <2>1, ImageCount
<1>4. /\ IsFiniteSet(rest) /\ Cardinality(rest) \in Nat /\ Cardinality(rest) <= Cardinality(W)
  <2> PICK g : g = [p \in W |-> f[p]]
    OBVIOUS
  <2>1. g = [p \in W |-> g[p]] /\ rest = {g[p] : p \in W}
    OBVIOUS
  <2> QED
    BY ONLY <1>1, <2>1, ImageCount
<1>5. {cc[p].page : p \in DOMAIN cc} = pages \cup rest
  <2>1. {f[p] : p \in V \cup W} = {f[p] : p \in V} \cup {f[p] : p \in W}
    OBVIOUS
  <2> QED
    BY <1>1, <2>1
<1>6. /\ IsFiniteSet(pages \cup rest) /\ Cardinality(pages \cup rest) \in Nat
      /\ Cardinality(pages \cup rest) <= Cardinality(pages) + Cardinality(rest)
  BY ONLY <1>3, <1>4, UnionCount
<1>7. IsFiniteSet(hp) /\ Cardinality(hp) \in Nat /\ Cardinality(hp) <= Cardinality(P)
      /\ Cardinality(P) \in Nat
  <2>1. IsFiniteSet(L) /\ \A r \in L : IsFiniteSet(E[r])
    BY DEF Countable
  <2> QED
    BY ONLY <2>1, RowPagesCount, hp = RowPages(L, E, T), P = Pairs(L, E)
<1>8. Page = ToSet(fr) \cup ToSet(lz) \cup (pages \cup rest) \cup hp
  BY <1>5 DEF Partition, Places
<1>9. NumPages <= Len(fr) + Len(lz) + Cardinality(pages \cup rest) + Cardinality(hp)
  <2> PICK cp : cp = pages \cup rest
    OBVIOUS
  <2>1. fr \in Seq(Page) /\ lz \in Seq(Page) /\ IsFiniteSet(cp)
        /\ Page = ToSet(fr) \cup ToSet(lz) \cup cp \cup hp
    BY <1>6, <1>8 DEF Countable
  <2> QED
    BY ONLY <1>7, <2>1, PlacesForAll, cp = pages \cup rest
<1>10. /\ NumPages = Len(fr) + Len(lz) + Cardinality(D) + Cardinality(P)
       /\ Len(fr) \in Nat /\ Len(lz) \in Nat
  BY DEF Partition, PlaceCount, Countable
<1>11. Cardinality(pages) = Cardinality(V)
  <2> PICK v : v = Cardinality(V)
    OBVIOUS
  <2> PICK w : w = Cardinality(W)
    OBVIOUS
  <2> PICK x : x = Cardinality(pages)
    OBVIOUS
  <2> PICK y : y = Cardinality(pages \cup rest)
    OBVIOUS
  <2> PICK h : h = Cardinality(hp)
    OBVIOUS
  <2> PICK n : n = Cardinality(P)
    OBVIOUS
  <2> PICK l : l = Len(fr) + Len(lz)
    OBVIOUS
  <2>1. v \in Nat /\ w \in Nat /\ x \in Nat /\ y \in Nat /\ h \in Nat /\ n \in Nat /\ l \in Nat
    BY <1>2, <1>3, <1>6, <1>7, <1>10
  <2>2. x <= v /\ y <= x + w /\ h <= n
    <3>1. y <= x + Cardinality(rest) /\ Cardinality(rest) <= w /\ Cardinality(rest) \in Nat
      BY <1>4, <1>6
    <3> QED
      BY <1>3, <1>7, <2>1, <3>1, SMTT(40)
  <2>3. NumPages <= l + y + h
    BY <1>9
  <2>4. NumPages = l + Cardinality(D) + n
    BY <1>10
  <2>5. Cardinality(D) = v + w
    BY <1>2
  <2>6. x = v
    BY ONLY <2>1, <2>2, <2>3, <2>4, <2>5
  <2> QED
    BY <2>6
<1> QED
  BY <1>1, <1>2, <1>3, <1>8, <1>11

(* Pages in front of the free list, with those of evicted prefixes, become entries *)
(* of rows.                                                                        *)
LEMMA PagesAllocated ==
    ASSUME NEW fr, NEW lz, NEW cc, NEW L, NEW E, NEW T, Partition(fr, lz, cc, L, E, T),
           Countable(fr, lz, cc, L, E),
           NEW V, NEW slots \in Seq(Page), NEW m \in Nat, NEW fr2, NEW cc2,
           Taken(fr, cc, V, slots, m, fr2, cc2),
           NEW G, NEW U, Written(L, E, T, slots, m, G, U),
           NEW X, IsFiniteSet(X), Cardinality(X) <= m, Pairs(L, G) \subseteq Pairs(L, E) \cup X
    PROVE  Partition(fr2, lz, cc2, L, G, U)
<1>0. /\ V \subseteq DOMAIN cc /\ m <= Len(slots)
      /\ Len(slots) = Len(fr) + Cardinality(V)
      /\ ToSet(slots) = ToSet(fr) \cup {cc[p].page : p \in V}
      /\ fr2 = SubSeq(slots, m + 1, Len(slots))
      /\ DOMAIN cc2 = DOMAIN cc \ V /\ \A p \in DOMAIN cc2 : cc2[p].page = cc[p].page
  BY DEF Taken, PrefixPages
<1>00. /\ \A r \in L : IsFiniteSet(G[r]) /\ E[r] \subseteq G[r]
       /\ \A r \in L : \A k \in E[r] : U[r][k] = T[r][k]
       /\ \A r \in L : \A k \in G[r] : k \notin E[r] => \E x \in 1..m : U[r][k] = slots[x]
       /\ \A x \in 1..m : \E r \in L : \E k \in G[r] : U[r][k] = slots[x]
  BY DEF Written
<1> USE <1>0, <1>00
<1>1. /\ IsFiniteSet(V) /\ Cardinality(V) \in Nat
  BY PagesOfPrefixes
<1>2. /\ fr2 \in Seq(Page) /\ Len(fr2) = Len(slots) - m
      /\ \A i \in 1..Len(fr2) : fr2[i] = slots[i + m]
  BY TailOfSeq
<1>3. Countable(fr2, lz, cc2, L, G)
  <2>1. IsFiniteSet(DOMAIN cc \ V)
    BY FS_Subset DEF Countable
  <2> QED
    BY <1>2, <2>1 DEF Countable
<1>4. ToSet(slots) = {slots[x] : x \in 1..m} \cup ToSet(fr2)
  <2>1. DOMAIN slots = 1..Len(slots) /\ DOMAIN fr2 = 1..Len(fr2) /\ Len(slots) \in Nat
        /\ Len(fr2) \in Nat
    BY <1>2
  <2>2. \A x \in (m + 1)..Len(slots) : x - m \in 1..Len(fr2) /\ fr2[x - m] = slots[x]
    BY <1>2, <2>1
  <2>3. \A x \in 1..Len(fr2) : x + m \in 1..Len(slots)
    BY <1>2, <2>1
  <2>4. 1..m \subseteq 1..Len(slots)
    BY <2>1
  <2>5. ToSet(fr2) = {slots[x] : x \in (m + 1)..Len(slots)}
    <3>1. \A x \in 1..Len(fr2) : x + m \in (m + 1)..Len(slots) /\ fr2[x] = slots[x + m]
      BY <1>2, <2>1
    <3> PICK old : old = {slots[x] : x \in (m + 1)..Len(slots)}
      OBVIOUS
    <3> PICK new : new = {fr2[x] : x \in 1..Len(fr2)}
      OBVIOUS
    <3>a. \A x \in 1..Len(fr2) : fr2[x] \in old
      BY ONLY <3>1, old = {slots[x] : x \in (m + 1)..Len(slots)}
    <3>b. \A x \in (m + 1)..Len(slots) : slots[x] \in new
      BY ONLY <2>2, new = {fr2[x] : x \in 1..Len(fr2)}
    <3>c. \A y \in new : y \in old
      BY ONLY <3>a, new = {fr2[x] : x \in 1..Len(fr2)}
    <3>d. \A y \in old : y \in new
      BY ONLY <3>b, old = {slots[x] : x \in (m + 1)..Len(slots)}
    <3>2. {fr2[x] : x \in 1..Len(fr2)} = {slots[x] : x \in (m + 1)..Len(slots)}
      <4>1. new = old
        BY ONLY <3>c, <3>d
      <4> QED
        BY ONLY <4>1, old = {slots[x] : x \in (m + 1)..Len(slots)}, new = {fr2[x] : x \in 1..Len(fr2)}
    <3> QED
      BY <2>1, <3>2 DEF ToSet
  <2>6. 1..Len(slots) = (1..m) \cup ((m + 1)..Len(slots))
    BY <2>1
  <2>7. {slots[x] : x \in (1..m) \cup ((m + 1)..Len(slots))}
          = {slots[x] : x \in 1..m} \cup {slots[x] : x \in (m + 1)..Len(slots)}
    OBVIOUS
  <2> QED
    BY <2>1, <2>5, <2>6, <2>7 DEF ToSet
<1> PICK front : front = {slots[x] : x \in 1..m}
  OBVIOUS
<1>5. RowPages(L, G, U) = RowPages(L, E, T) \cup front
  <2>1. \A r \in L : \A k \in G[r] : U[r][k] \in RowPages(L, E, T) \cup front
    <3> TAKE r \in L
    <3> TAKE k \in G[r]
    <3>1. CASE k \in E[r]
      <4>1. T[r][k] \in RowPages(L, E, T)
        BY ONLY r \in L, <3>1 DEF RowPages
      <4> QED
        BY <3>1, <4>1
    <3>2. CASE k \notin E[r]
      BY <3>2
    <3> QED
      BY <3>1, <3>2
  <2>2. \A r \in L : \A k \in E[r] : T[r][k] \in RowPages(L, G, U)
    <3> TAKE r \in L
    <3> TAKE k \in E[r]
    <3>1. k \in G[r] /\ T[r][k] = U[r][k]
      OBVIOUS
    <3> QED
      BY <3>1 DEF RowPages
  <2>3. \A x \in 1..m : slots[x] \in RowPages(L, G, U)
    <3> TAKE x \in 1..m
    <3>1. PICK r \in L : \E k \in G[r] : U[r][k] = slots[x]
      OBVIOUS
    <3> QED
      BY <3>1 DEF RowPages
  <2>4. front \subseteq RowPages(L, G, U)
    BY <2>3
  <2>5. RowPages(L, G, U) \subseteq RowPages(L, E, T) \cup front
    <3> PICK R : R = RowPages(L, E, T) \cup front
      OBVIOUS
    <3> QED
      BY <2>1 DEF RowPages
  <2>6. RowPages(L, E, T) \subseteq RowPages(L, G, U)
    <3> PICK R : R = RowPages(L, G, U)
      OBVIOUS
    <3>1. \A r \in L : \A k \in E[r] : T[r][k] \in R
      BY <2>2
    <3>2. RowPages(L, E, T) \subseteq R
      BY ONLY <3>1 DEF RowPages
    <3> QED
      BY <3>2
  <2> QED
    BY <2>4, <2>5, <2>6
<1>6. {cc[p].page : p \in DOMAIN cc} = {cc2[p].page : p \in DOMAIN cc2} \cup {cc[p].page : p \in V}
  OBVIOUS
<1>7. Page = Places(fr2, lz, cc2, L, G, U)
  BY <1>4, <1>5, <1>6 DEF Partition, Places
<1>8. PlaceCount(fr2, lz, cc2, L, G) <= NumPages
  <2> PICK H : H = Pairs(L, E)
    OBVIOUS
  <2> PICK I : I = Pairs(L, G)
    OBVIOUS
  <2> PICK D : D = DOMAIN cc
    OBVIOUS
  <2> PICK W : W = DOMAIN cc2
    OBVIOUS
  <2>1. IsFiniteSet(H) /\ IsFiniteSet(I) /\ Cardinality(H) \in Nat /\ Cardinality(I) \in Nat
    BY <1>3, PairsCount DEF Countable
  <2>2. Cardinality(I) <= Cardinality(H) + m
    <3>1. IsFiniteSet(H \cup X) /\ Cardinality(H \cup X) <= Cardinality(H) + Cardinality(X)
          /\ Cardinality(H \cup X) \in Nat /\ Cardinality(X) \in Nat
      BY ONLY <2>1, UnionCount, IsFiniteSet(X)
    <3>2. Cardinality(I) <= Cardinality(H \cup X)
      BY <3>1, FS_Subset
    <3> QED
      BY ONLY <2>1, <3>1, <3>2, Cardinality(X) <= m, m \in Nat
  <2>3. Cardinality(D) = Cardinality(V) + Cardinality(W) /\ Cardinality(W) \in Nat
    <3>1. IsFiniteSet(W) /\ V \cup W = D /\ V \cap W = {}
      BY <1>3 DEF Countable
    <3> QED
      BY ONLY <1>1, <3>1, UnionCount
  <2>4. /\ NumPages = Len(fr) + Len(lz) + Cardinality(D) + Cardinality(H)
        /\ Len(fr) \in Nat /\ Len(lz) \in Nat
    BY DEF Partition, PlaceCount, Countable
  <2>5. Len(fr2) + Len(lz) + Cardinality(W) + Cardinality(I) <= NumPages
    <3> PICK v : v = Cardinality(V)
      OBVIOUS
    <3> PICK w : w = Cardinality(W)
      OBVIOUS
    <3> PICK h : h = Cardinality(H)
      OBVIOUS
    <3> PICK i : i = Cardinality(I)
      OBVIOUS
    <3> PICK f : f = Len(fr)
      OBVIOUS
    <3> PICK l : l = Len(lz)
      OBVIOUS
    <3> PICK g : g = Len(fr2)
      OBVIOUS
    <3>1. /\ v \in Nat /\ w \in Nat /\ h \in Nat /\ i \in Nat /\ f \in Nat /\ l \in Nat
          /\ i <= h + m
      BY <1>1, <2>1, <2>2, <2>3, <2>4
    <3>2. g = f + v - m
      <4>1. g = Len(slots) - m
        BY <1>2
      <4>2. Len(slots) = f + v
        OBVIOUS
      <4> QED
        BY ONLY <3>1, <4>1, <4>2, m \in Nat
    <3>3. NumPages = f + l + (v + w) + h
      BY <2>3, <2>4
    <3>4. g + l + w + i <= NumPages
      BY ONLY <3>1, <3>2, <3>3, m \in Nat
    <3> QED
      BY <3>4
  <2> QED
    BY <2>5 DEF PlaceCount
<1> QED
  BY <1>3, <1>7, <1>8, PartitionFollows

-----------------------------------------------------------------------------
(* Steps that leave every page where it is *)

(* Entries, rows and pages stay; who is admitted has no entry yet. *)
LEMMA StayStep ==
    ASSUME PagesPartitioned, live \subseteq live',
           Len(free_slots') + Len(lazy_free_list') = Len(free_slots) + Len(lazy_free_list),
           ToSet(free_slots') \cup ToSet(lazy_free_list')
              = ToSet(free_slots) \cup ToSet(lazy_free_list),
           DOMAIN cache' = DOMAIN cache, \A p \in DOMAIN cache : cache'[p].page = cache[p].page,
           \A s \in live : /\ OwnEntries(s)' = OwnEntries(s)
                           /\ req'[s].table_idx = req[s].table_idx
                           /\ page_table'[req[s].table_idx] = page_table[req[s].table_idx],
           \A s \in live' \ live : OwnEntries(s)' = {}
    PROVE  PagesPartitioned'
<1> PICK E : E = Entries
  OBVIOUS
<1> PICK G : G = Entries'
  OBVIOUS
<1> PICK T : T = Rows
  OBVIOUS
<1> PICK U : U = Rows'
  OBVIOUS
<1> PICK M : M = live'
  OBVIOUS
<1>1. \A s \in live : G[s] = E[s] /\ U[s] = T[s]
  BY DEF Entries, Rows
<1>2. \A s \in M \ live : G[s] = {}
  BY DEF Entries
<1>3. Partition(free_slots, lazy_free_list, cache, live, E, T)
  BY PartitionIsNow DEF PartitionNow
<1>4. Partition(free_slots', lazy_free_list', cache', M, G, U)
  BY <1>1, <1>2, <1>3, PagesStay
<1> QED
  BY <1>4, PartitionIsNow DEF PartitionNow

(* In most steps no object changes and none runs. *)
LEMMA QuietPages ==
    ASSUME PagesPartitioned, UNCHANGED <<live, req, page_table, cache>>,
           phase # "forward", phase' # "forward",
           Len(free_slots') + Len(lazy_free_list') = Len(free_slots) + Len(lazy_free_list),
           ToSet(free_slots') \cup ToSet(lazy_free_list')
              = ToSet(free_slots) \cup ToSet(lazy_free_list)
    PROVE  PagesPartitioned'
<1>1. \A s \in live : OwnEntries(s)' = OwnEntries(s)
  BY DEF OwnEntries, Allocated
<1> QED
  BY <1>1, StayStep

(* The pages that were to be freed are free. *)
LEMMA EndPages ==
    ASSUME PagesPartitioned, TableInv, EndIteration
    PROVE  PagesPartitioned'
<1>1. /\ UNCHANGED <<live, req, page_table, cache>>
      /\ phase = "process" /\ phase' = "receive"
      /\ free_slots' = free_slots \o lazy_free_list /\ lazy_free_list' = <<>>
  BY DEF EndIteration, ghost_vars
<1>2. free_slots \in Seq(Page) /\ lazy_free_list \in Seq(Page)
  BY DEF TableInv
<1> PICK f : f = free_slots
  OBVIOUS
<1> PICK l : l = lazy_free_list
  OBVIOUS
<1>3. Len(f \o l) + Len(<<>>) = Len(f) + Len(l) /\ ToSet(f \o l) \cup ToSet(<<>>) = ToSet(f) \cup ToSet(l)
  BY <1>2, JoinedElements
<1> QED
  BY <1>1, <1>3, QuietPages

(* The engine computes what was allocated. *)
LEMMA ForwardPages ==
    ASSUME Inv, PagesPartitioned, Forward
    PROVE  PagesPartitioned'
<1>1. PICK token :
         req' = [s \in Req |->
                   IF s \notin BatchUids THEN req[s]
                   ELSE Completed(req[s], IF req[s].chunked THEN Eos ELSE token[s])]
  BY DEF Forward
<1>2. /\ phase = "forward" /\ phase' = "process"
      /\ UNCHANGED <<live, page_table, cache, free_slots, lazy_free_list>>
  BY DEF Forward, pool_vars
<1>3. \A s \in live : OwnEntries(s)' = OwnEntries(s) /\ req'[s].table_idx = req[s].table_idx
  <2> TAKE s \in live
  <2>1. s \in Req /\ DOMAIN req[s] = Fields
    BY DEF Inv, QueueTypes, ObjectTypes
  <2>2. CASE s \in BatchUids
    <3>1. /\ req'[s].cached_len = req[s].device_len
          /\ req'[s].handle_len = req[s].handle_len
          /\ req'[s].table_idx = req[s].table_idx
      BY <1>1, <2>1, <2>2 DEF Completed, Fields
    <3> QED
      BY <1>2, <2>2, <3>1 DEF OwnEntries, Allocated
  <2>3. CASE s \notin BatchUids
    <3>1. req'[s] = req[s]
      BY <1>1, <2>1, <2>3
    <3> QED
      BY <1>2, <2>3, <3>1 DEF OwnEntries, Allocated
  <2> QED
    BY <2>2, <2>3
<1> QED
  BY <1>2, <1>3, StayStep

-----------------------------------------------------------------------------
(* Admissions *)

(* The longest match is some pages of the sequence: all of them cached, and none *)
(* after them.                                                                    *)
LEMMA LongestMatch ==
    ASSUME NEW cc, PrefixClosed(DOMAIN cc), NEW ids \in Seq(Nat), NEW h, h = Longest(cc, ids)
    PROVE  \E k \in Nat :
              /\ k <= Len(ids) \div PageSize /\ Len(h) = PageSize * k /\ Len(h) \div PageSize = k
              /\ \A m \in 1..(Len(ids) \div PageSize) :
                    SubSeq(ids, 1, PageSize * m) \in DOMAIN cc <=> m <= k
<1> DEFINE d == Len(ids) \div PageSize
<1>1. d \in Nat /\ Len(ids) \in Nat
  BY PageArithmetic
<1>2. IsMatch(DOMAIN cc, ids, h)
  <2>1. \E x \in PagePrefixes(ids) \cup {<<>>} : IsMatch(DOMAIN cc, ids, x)
    BY MatchExists
  <2> QED
    BY <2>1 DEF Longest
<1>3. \A m \in 1..d : /\ SubSeq(ids, 1, PageSize * m) \in PagePrefixes(ids)
                      /\ Len(SubSeq(ids, 1, PageSize * m)) = PageSize * m
                      /\ m \in Nat /\ PageSize * m \in Nat /\ PageSize * m >= 1
  <2> TAKE m \in 1..d
  <2>1. SubSeq(ids, 1, PageSize * m) \in PagePrefixes(ids)
    BY DEF PagePrefixes
  <2>2. Len(SubSeq(ids, 1, PageSize * m)) = PageSize * m
    BY PagePrefixOfPages
  <2> QED
    BY <1>1, <2>1, <2>2, PageArithmetic
<1>4. CASE h = <<>>
  <2>1. \A m \in 1..d : SubSeq(ids, 1, PageSize * m) \notin DOMAIN cc
    <3> SUFFICES ASSUME NEW m \in 1..d, SubSeq(ids, 1, PageSize * m) \in DOMAIN cc PROVE FALSE
      OBVIOUS
    <3>1. Len(SubSeq(ids, 1, PageSize * m)) <= Len(h) /\ Len(h) = 0
      BY <1>2, <1>3, <1>4 DEF IsMatch
    <3> QED
      BY <1>3, <3>1
  <2>2. Len(h) = PageSize * 0 /\ 0 \div PageSize = 0 /\ Len(h) = 0
    BY <1>4, PageSizeAssumption
  <2>3. \A m \in 1..d : ~(m <= 0)
    OBVIOUS
  <2> WITNESS 0 \in Nat
  <2> QED
    BY <1>1, <2>1, <2>2, <2>3
<1>5. CASE h # <<>>
  <2>1. h \in PagePrefixes(ids) /\ h \in DOMAIN cc
    BY <1>2, <1>5 DEF IsMatch
  <2>2. PICK k \in 1..d : h = SubSeq(ids, 1, PageSize * k)
    BY <2>1 DEF PagePrefixes
  <2>3. /\ Len(h) = PageSize * k /\ k \in Nat /\ Len(h) \div PageSize = k
        /\ PageSize * k \in Nat /\ PageSize * k <= Len(ids)
    <3>1. k \in Nat /\ k <= d
      BY <1>1
    <3> QED
      BY <1>1, <1>3, <2>2, <3>1, PageArithmetic
  <2>4. PagePrefixes(h) \subseteq DOMAIN cc
    BY <2>1 DEF PrefixClosed
  <2>5. \A m \in 1..d : m <= k => SubSeq(ids, 1, PageSize * m) \in DOMAIN cc
    <3> SUFFICES ASSUME NEW m \in 1..d, m <= k PROVE SubSeq(ids, 1, PageSize * m) \in DOMAIN cc
      OBVIOUS
    <3>1. m \in 1..k /\ m \in Nat
      BY <1>1, <2>3
    <3>2. SubSeq(h, 1, PageSize * m) \in PagePrefixes(h)
      BY <2>3, <3>1 DEF PagePrefixes
    <3>3. PageSize * m \in Nat /\ PageSize * m <= PageSize * k
      BY <2>3, <3>1, PageArithmetic
    <3>4. SubSeq(h, 1, PageSize * m) = SubSeq(ids, 1, PageSize * m)
      BY <2>2, <2>3, <3>3, FirstOfFirst
    <3> QED
      BY <2>4, <3>2, <3>4
  <2>6. \A m \in 1..d : SubSeq(ids, 1, PageSize * m) \in DOMAIN cc => m <= k
    <3> SUFFICES ASSUME NEW m \in 1..d, SubSeq(ids, 1, PageSize * m) \in DOMAIN cc, m >= k + 1
                 PROVE FALSE
      BY <2>3
    <3>1. PageSize * m <= PageSize * k
      BY <1>2, <1>3, <2>3 DEF IsMatch
    <3>2. m <= (PageSize * k) \div PageSize /\ (PageSize * k) \div PageSize = k
      BY <1>3, <2>3, <3>1, PageArithmetic
    <3> QED
      BY <2>3, <3>2
  <2> QED
    BY <1>1, <2>3, <2>5, <2>6
<1> QED
  BY <1>4, <1>5

(* What _add_one_req writes. *)
LEMMA AddedFields ==
    ASSUME ObjectTypes, NEW r \in Req, NEW row, NEW n, NEW h, AddOneReq(r, row, n, h)
    PROVE  /\ req'[r].table_idx = row /\ req'[r].cached_len = n /\ req'[r].handle_len = h
           /\ req'[r].host_len = n + ChunkSize(Len(Prompt[r]) - n)
           /\ req'[r].device_len = n + ChunkSize(Len(Prompt[r]) - n)
           /\ req'[r].max_device_len = n + ChunkSize(Len(Prompt[r]) - n) + OutputLen(r)
           /\ \A s \in Req : s # r => req'[s] = req[s]
BY DEF AddOneReq, ObjectTypes

(* What is matched of a prompt is some pages. *)
LEMMA MatchedPages ==
    ASSUME RefInv, NEW r \in Req
    PROVE  \E k \in Nat : Len(MatchReq(cache, r)) = PageSize * k
<1>1. Prompt[r] \in Seq(Nat) /\ Len(Prompt[r]) \in Nat /\ Prompt[r] # <<>>
  BY SchedulerAssumptions
<1>2. SubSeq(Prompt[r], 1, Len(Prompt[r]) - 1) \in Seq(Nat)
  BY <1>1, FirstTokens
<1> PICK ids : ids = SubSeq(Prompt[r], 1, Len(Prompt[r]) - 1)
  OBVIOUS
<1> PICK x : x = MatchReq(cache, r)
  OBVIOUS
<1>3. x = Longest(cache, ids) /\ PrefixClosed(DOMAIN cache) /\ ids \in Seq(Nat)
  BY <1>2 DEF MatchReq, RefInv
<1>4. \E k \in Nat : Len(x) = PageSize * k
  BY ONLY <1>3, LongestMatch
<1> QED
  BY <1>4

(* A request partly prefilled goes on with what it has; a new one gets a row that *)
(* nobody reads and shares what its handle covers.                                *)
LEMMA AdmitPages ==
    ASSUME Inv, RowsOwned, RefInv, TableInv, PagesPartitioned, AdmitChunk \/ AdmitNew
    PROVE  PagesPartitioned'
<1> PICK r : r = Candidate
  OBVIOUS
<1>1. /\ phase = "admit" /\ phase' = "admit" /\ r \in Req
      /\ UNCHANGED <<free_slots, lazy_free_list>>
      /\ \A s \in live : s \in Req
  <2>1. Len(adder.reqs) + 1 \in DOMAIN pending_list /\ phase = "admit" /\ phase' = phase
    BY AdmittedRequest
  <2> QED
    BY <2>1 DEF AdmitChunk, AdmitNew, Candidate, pool_vars, Inv, QueueTypes
<1>2. ASSUME NEW s \in live, req'[s] = req[s]
      PROVE  OwnEntries(s)' = OwnEntries(s)
  BY <1>1, <1>2 DEF OwnEntries, Allocated
<1>3. CASE AdmitChunk
  <2>1. /\ AddOneReq(r, req[r].table_idx, req[r].cached_len, req[r].handle_len)
        /\ UNCHANGED <<live, page_table, cache>>
    BY <1>3 DEF AdmitChunk, pool_vars, ghost_vars
  <2>2. /\ req'[r].table_idx = req[r].table_idx /\ req'[r].cached_len = req[r].cached_len
        /\ req'[r].handle_len = req[r].handle_len
        /\ \A s \in Req : s # r => req'[s] = req[s]
    BY <1>1, <2>1, AddedFields DEF Inv
  <2>3. OwnEntries(r)' = OwnEntries(r)
    BY <1>1, <2>2 DEF OwnEntries, Allocated
  <2> QED
    BY <1>1, <1>2, <2>1, <2>2, <2>3, StayStep
<1>4. CASE AdmitNew
  <2> DEFINE h == MatchReq(cache, r)
             n == Len(h)
             row == Last(row_slots)
  <2>1. /\ AddOneReq(r, row, n, n) /\ row_slots # <<>>
        /\ cache' = LockHandle(cache, h) /\ live' = live \cup {r}
        /\ page_table' = [page_table EXCEPT ![row] = page_table'[row]]
    <3>1. \E x : page_table' = [page_table EXCEPT ![row] = x]
      BY <1>4 DEF AdmitNew
    <3>2. PICK x : page_table' = [page_table EXCEPT ![row] = x]
      BY <3>1
    <3>3. page_table' = [page_table EXCEPT ![row] = page_table'[row]]
      BY <3>2
    <3> QED
      BY <1>4, <3>3 DEF AdmitNew, CanAllocate
  <2>2. row \in ToSet(row_slots)
    BY <2>1 DEF Last, Inv, QueueTypes, ToSet
  <2>3. \E k \in Nat : n = PageSize * k
    BY <1>1, MatchedPages
  <2>4. DOMAIN cache' = DOMAIN cache /\ \A p \in DOMAIN cache : cache'[p].page = cache[p].page
    BY <2>1 DEF LockHandle, RefInv, CacheEntries
  <2> HIDE DEF h, n, row
  <2>5. /\ req'[r].cached_len = n /\ req'[r].handle_len = n
        /\ \A s \in Req : s # r => req'[s] = req[s]
    BY <1>1, <2>1, AddedFields DEF Inv
  <2>6. r \notin live
    <3>1. ~Continuing(r) /\ Len(adder.reqs) + 1 \in DOMAIN pending_list
          /\ r = pending_list[Len(adder.reqs) + 1]
      BY <1>4, AdmittedRequest DEF AdmitNew, Candidate
    <3> QED
      BY <1>1, <3>1 DEF Inv, HeadIsChunked, Admitted, QueueTypes
  <2>7. OwnEntries(r)' = {}
    <3>1. PICK k \in Nat : n = PageSize * k
      BY <2>3
    <3>2. DivCeil(n) = k /\ n \div PageSize = k
      BY <3>1, CeilOfPages, PageArithmetic
    <3>3. Allocated(r)' = n
      BY <1>1, <2>5 DEF Allocated
    <3>4. OwnEntries(r)' = k..(k - 1)
      BY <2>5, <3>2, <3>3 DEF OwnEntries
    <3> QED
      BY <3>4
  <2>8. \A s \in live : /\ req'[s] = req[s]
                        /\ page_table'[req[s].table_idx] = page_table[req[s].table_idx]
    <3> TAKE s \in live
    <3>1. s \in Req /\ s # r /\ req[s].table_idx \in Row /\ req[s].table_idx # row
      BY <1>1, <2>2, <2>6 DEF RowsOwned, Inv, ObjectTypes
    <3>2. \A w \in Row : w # row => page_table'[w] = page_table[w]
      BY <2>1 DEF TableInv
    <3> QED
      BY <2>5, <3>1, <3>2
  <2> QED
    BY <1>1, <1>2, <2>1, <2>4, <2>7, <2>8, StayStep
<1> QED
  BY <1>3, <1>4

=============================================================================
