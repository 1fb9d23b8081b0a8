------------------------------ MODULE Serving ------------------------------
(***************************************************************************)
(* The serving pipeline (python/minisgl/server/api_server.py and           *)
(* python/minisgl/tokenizer): the asyncio tasks of the API server, the     *)
(* tokenizer and detokenizer workers and the queues between them.  Of the  *)
(* scheduler only the messages it takes and sends are kept: it accepts or  *)
(* drops a request, sends one token at a time and forgets what is aborted. *)
(*                                                                         *)
(* The API server is one thread: a task runs from one await to the next,   *)
(* and an action here is such a stretch.  A queue keeps the order of each  *)
(* sender; a PUSH socket with several readers serves them in turn.         *)
(***************************************************************************)
EXTENDS Detokenizer, FiniteSets, FiniteSetsExt

CONSTANTS
    NumUsers,       \* bound: requests
    TokenizerCounts, \* num_tokenizer as configured; 0: the detokenizer also tokenizes
    Streaming,      \* uids answered with a stream that a client may drop
    TooLong,        \* uids whose prompt the scheduler does not accept
    Script,         \* uid -> the tokens it generates
    FinishAt        \* uid -> which of them is first sent as finished

Uid == 0..(NumUsers - 1)
Worker == {0} \cup UNION {1..n : n \in TokenizerCounts}   \* 0: the detokenizer

ASSUME ServingAssumptions ==
    /\ NumUsers \in Nat \ {0} /\ TokenizerCounts \subseteq Nat /\ IsFiniteSet(TokenizerCounts)
    /\ Streaming \subseteq Uid /\ TooLong \subseteq Uid
    /\ DOMAIN Script = Uid
    /\ \A u \in Uid : Script[u] \in BoundedSeq(DOMAIN Bytes, MaxIds) /\ FinishAt[u] \in 1..Len(Script[u])

VARIABLES
    num_tokenizer,
    uid_counter,
    ack_map,        \* uid -> replies not taken yet
    event_map,      \* uid -> whether its asyncio.Event is set
    task,           \* uid -> where the coroutine that answers it is
    pending,        \* uid -> replies wait_for_ack has taken and not yielded
    got,            \* uid -> the text its client was given
    gone,           \* clients known to have disconnected
    aborting,       \* uids whose abort_user sleeps
    inbox,          \* worker -> messages for it
    next_tokenizer, \* the tokenizer the next message of the API server goes to
    to_backend,     \* worker -> its messages for the scheduler
    backend,        \* uid -> unknown, running, dropped, done or aborted, and the tokens sent
    to_frontend,    \* replies of the detokenizer, a batch at a time
    decode_map      \* uid -> DecodeStatus, in the detokenizer

api_vars == <<uid_counter, ack_map, event_map, task, pending, got, gone, aborting>>
pipe_vars == <<num_tokenizer, inbox, next_tokenizer, to_backend, backend, to_frontend, decode_map>>
serving_vars == <<api_vars, pipe_vars>>

NoEntries == [u \in {} |-> {}]

(* Who reads what the API server sends (zmq_tokenizer_addr, launch_server). *)
Tokenizers == IF num_tokenizer = 0 THEN {0} ELSE 1..num_tokenizer

ServingInit ==
    /\ num_tokenizer \in TokenizerCounts
    /\ uid_counter = 0 /\ ack_map = NoEntries /\ event_map = NoEntries
    /\ task = [u \in Uid |-> "none"]
    /\ pending = [u \in Uid |-> <<>>] /\ got = [u \in Uid |-> <<>>]
    /\ gone = {} /\ aborting = {}
    /\ inbox = [w \in Worker |-> <<>>] /\ to_backend = [w \in Worker |-> <<>>]
    /\ next_tokenizer \in Tokenizers
    /\ backend = [u \in Uid |-> [state |-> "unknown", sent |-> 0]]
    /\ to_frontend = <<>> /\ decode_map = NoEntries

Update(f, u, x) == [v \in DOMAIN f \cup {u} |-> IF v = u THEN x ELSE f[v]]

-----------------------------------------------------------------------------
(* Messages, and the queues that carry them in lists *)

TokenizeMsg(u) == [kind |-> "tokenize", uid |-> u]
AbortMsg(u) == [kind |-> "abort", uid |-> u]
DetokenizeMsg(u, id, finished) ==
    [kind |-> "detokenize", uid |-> u, next_token |-> id, finished |-> finished]
UserReply(u, text, finished) ==
    [uid |-> u, incremental_output |-> text, finished |-> finished]

Put(queues, w, m) == [queues EXCEPT ![w] = Append(@, m)]
Rest(queues, w) == [queues EXCEPT ![w] = Tail(@)]

-----------------------------------------------------------------------------
(* FrontendManager and the request handlers *)

(* send_one: the next worker that tokenizes gets the message. *)
ToTokenizer(m) ==
    /\ inbox' = Put(inbox, next_tokenizer, <<m>>)
    /\ next_tokenizer' = IF next_tokenizer + 1 \in Tokenizers THEN next_tokenizer + 1
                         ELSE Min(Tokenizers)
    /\ UNCHANGED num_tokenizer

(* Seeded faults, here and below, used by no specification. *)
NewUser_NoEvent ==
    /\ uid_counter < NumUsers
    /\ uid_counter' = uid_counter + 1
    /\ ack_map' = Update(ack_map, uid_counter, <<>>)
    /\ task' = [task EXCEPT ![uid_counter] = "sending"]
    /\ UNCHANGED <<event_map, pending, got, gone, aborting, pipe_vars>>

NewUser ==
    /\ uid_counter < NumUsers
    /\ uid_counter' = uid_counter + 1
    /\ ack_map' = Update(ack_map, uid_counter, <<>>)
    /\ event_map' = Update(event_map, uid_counter, FALSE)
    /\ task' = [task EXCEPT ![uid_counter] = "sending"]
    /\ UNCHANGED <<pending, got, gone, aborting, pipe_vars>>

Send(u) ==
    /\ task[u] = "sending"
    /\ ToTokenizer(TokenizeMsg(u))
    /\ task' = [task EXCEPT ![u] = "waiting"]
    /\ UNCHANGED <<uid_counter, ack_map, event_map, pending, got, gone, aborting,
                   to_backend, backend, to_frontend, decode_map>>

RepliesOf(u, replies) == SelectSeq(replies, LAMBDA a : a.uid = u)

Queued_Replaces(u, replies) ==
    IF RepliesOf(u, replies) = <<>> THEN ack_map[u] ELSE RepliesOf(u, replies)

Queued(u, replies) == ack_map[u] \o RepliesOf(u, replies)

(* listen: a reply to a uid that has no entry is skipped. *)
Listen ==
    /\ to_frontend # <<>>
    /\ LET replies == Head(to_frontend)
           told == {u \in DOMAIN ack_map : RepliesOf(u, replies) # <<>>}
       IN  /\ ack_map' = [u \in DOMAIN ack_map |-> Queued(u, replies)]
           /\ event_map' = [u \in DOMAIN event_map |-> event_map[u] \/ u \in told]
    /\ to_frontend' = Tail(to_frontend)
    /\ UNCHANGED <<uid_counter, task, pending, got, gone, aborting,
                   num_tokenizer, inbox, next_tokenizer, to_backend, backend, decode_map>>

Wake_TakesOne(u) ==
    /\ task[u] = "waiting" /\ event_map[u] /\ ack_map[u] # <<>>
    /\ event_map' = [event_map EXCEPT ![u] = FALSE]
    /\ pending' = [pending EXCEPT ![u] = <<Head(ack_map[u])>>]
    /\ ack_map' = [ack_map EXCEPT ![u] = Tail(@)]
    /\ task' = [task EXCEPT ![u] = "yielding"]
    /\ UNCHANGED <<uid_counter, got, gone, aborting, pipe_vars>>

(* wait_for_ack, from event.wait() to the first yield. *)
Wake(u) ==
    /\ task[u] = "waiting" /\ event_map[u]
    /\ event_map' = [event_map EXCEPT ![u] = FALSE]
    /\ pending' = [pending EXCEPT ![u] = ack_map[u]]
    /\ ack_map' = [ack_map EXCEPT ![u] = <<>>]
    /\ task' = [task EXCEPT ![u] = IF ack_map[u] = <<>> THEN "waiting" ELSE "yielding"]
    /\ UNCHANGED <<uid_counter, got, gone, aborting, pipe_vars>>

Disconnected(u) == u \in Streaming \cap gone

(* One ack is yielded and, unless the client is known to have left, written *)
(* to it.  Whoever consumes wait_for_ack leaves its loop at the finished    *)
(* ack, so what follows it in pending is never looked at and the entries    *)
(* are not deleted.                                                         *)
Deliver(u) ==
    /\ task[u] = "yielding" /\ ~Disconnected(u)
    /\ got' = [got EXCEPT ![u] = @ \o Head(pending[u]).incremental_output]
    /\ pending' = [pending EXCEPT ![u] = Tail(@)]
    /\ task' = [task EXCEPT ![u] = IF Head(pending[u]).finished THEN "ending"
                                   ELSE IF Tail(pending[u]) # <<>> THEN "yielding" ELSE "waiting"]
    /\ UNCHANGED <<uid_counter, ack_map, event_map, gone, aborting, pipe_vars>>

(* The closing chunks, or the single JSON answer. *)
End(u) ==
    /\ task[u] = "ending" /\ ~Disconnected(u)
    /\ task' = [task EXCEPT ![u] = "done"]
    /\ UNCHANGED <<uid_counter, ack_map, event_map, pending, got, gone, aborting, pipe_vars>>

Disconnect(u) ==
    /\ task[u] \in {"waiting", "yielding", "ending"} /\ u \notin gone
    /\ gone' = gone \cup {u}
    /\ UNCHANGED <<uid_counter, ack_map, event_map, task, pending, got, aborting, pipe_vars>>

(* stream_with_cancellation: the task ends, another is left to abort it. *)
Cancel(u) ==
    /\ Disconnected(u) /\ task[u] \in {"waiting", "yielding", "ending"}
    /\ task' = [task EXCEPT ![u] = "cancelled"]
    /\ aborting' = aborting \cup {u}
    /\ UNCHANGED <<uid_counter, ack_map, event_map, pending, got, gone, pipe_vars>>

(* abort_user after its sleep. *)
AbortUser(u) ==
    /\ u \in aborting
    /\ aborting' = aborting \ {u}
    /\ ack_map' = [v \in DOMAIN ack_map \ {u} |-> ack_map[v]]
    /\ event_map' = [v \in DOMAIN event_map \ {u} |-> event_map[v]]
    /\ ToTokenizer(AbortMsg(u))
    /\ UNCHANGED <<uid_counter, task, pending, got, gone,
                   to_backend, backend, to_frontend, decode_map>>

-----------------------------------------------------------------------------
(* tokenize_worker: with local_bs = 1 it takes one message at a time *)

Sent(m) ==
    LET status == IF m.uid \in DOMAIN decode_map THEN decode_map[m.uid] ELSE NewStatus
    IN  Detokenized(status, m.next_token, m.finished)

Ended_AtEos(msgs) ==
    {m.uid : m \in {x \in ToSet(msgs) : x.finished /\ x.next_token = eos_token_id}}

Ended(msgs) == {m.uid : m \in {x \in ToSet(msgs) : x.finished}}

Detokenize(w) ==
    /\ inbox[w] # <<>> /\ Head(inbox[w])[1].kind = "detokenize"
    /\ LET msgs == Head(inbox[w])
           of(u) == CHOOSE m \in ToSet(msgs) : m.uid = u
           told == {m.uid : m \in ToSet(msgs)}
       IN  /\ to_frontend' = Append(to_frontend, [i \in DOMAIN msgs |->
                  UserReply(msgs[i].uid, Sent(msgs[i]).text, msgs[i].finished)])
           /\ decode_map' = [u \in (DOMAIN decode_map \cup told) \ Ended(msgs) |->
                  IF u \in told THEN Sent(of(u)).status ELSE decode_map[u]]
    /\ inbox' = Rest(inbox, w)
    /\ UNCHANGED <<api_vars, num_tokenizer, next_tokenizer, to_backend, backend>>

(* A prompt or an abort is passed on to the scheduler. *)
Tokenize(w) ==
    /\ inbox[w] # <<>> /\ Head(inbox[w])[1].kind # "detokenize"
    /\ to_backend' = Put(to_backend, w, Head(inbox[w])[1])
    /\ inbox' = Rest(inbox, w)
    /\ UNCHANGED <<api_vars, num_tokenizer, next_tokenizer, backend, to_frontend, decode_map>>

-----------------------------------------------------------------------------
(* What the pipeline sees of the scheduler *)

Aborted_Ignored(s) == s

Aborted(s) == IF s = "running" THEN "aborted" ELSE s

Receive(w) ==
    /\ to_backend[w] # <<>>
    /\ LET m == Head(to_backend[w])
       IN  backend' = [backend EXCEPT ![m.uid].state =
               IF m.kind = "abort" THEN Aborted(@)
               ELSE IF m.uid \in TooLong THEN "dropped" ELSE "running"]
    /\ to_backend' = Rest(to_backend, w)
    /\ UNCHANGED <<api_vars, num_tokenizer, inbox, next_tokenizer, to_frontend, decode_map>>

(* A batch yields one token of each of its requests. *)
Generate(S) ==
    LET at(u) == backend[u].sent + 1
        msg(u) == DetokenizeMsg(u, Script[u][at(u)], at(u) >= FinishAt[u])
    IN  /\ S # {} /\ \A u \in S : backend[u].state = "running"
        /\ backend' = [u \in Uid |->
               IF u \notin S THEN backend[u]
               ELSE [state |-> IF at(u) = Len(Script[u]) THEN "done" ELSE "running",
                     sent |-> at(u)]]
        /\ inbox' = Put(inbox, 0, [i \in 1..Cardinality(S) |-> msg(SetToSeq(S)[i])])
        /\ UNCHANGED <<api_vars, num_tokenizer, next_tokenizer, to_backend, to_frontend, decode_map>>

Step(u) == Send(u) \/ Wake(u) \/ Deliver(u) \/ End(u) \/ Cancel(u) \/ AbortUser(u)

Progress ==
    \/ Listen
    \/ \E u \in Uid : Step(u)
    \/ \E w \in Worker : Tokenize(w) \/ Receive(w)
    \/ \E S \in SUBSET Uid : Generate(S)
    \/ \E w \in Worker : Detokenize(w)

ServingNext == Progress \/ NewUser \/ \E u \in Uid : Disconnect(u)

(* The event loop runs a task that is ready, a worker takes what is in its  *)
(* queue, the scheduler goes on with what it runs: the pipeline as a whole  *)
(* does not stop while it can go on.  No client need come or leave.         *)
ServingFairness == WF_serving_vars(Progress)

ServingSpec == ServingInit /\ [][ServingNext]_serving_vars /\ ServingFairness

-----------------------------------------------------------------------------
(* Properties *)

Messages(w) == FlattenSeq(inbox[w])
InTransit(w) == UNION {ToSet(ms) : ms \in ToSet(inbox[w])}     \* the same, as a set

(* Types; the two maps of the API server have the same uids, and a uid that *)
(* is waited for has its entries: listen and wait_for_ack raise no KeyError.*)
ServingTypeOK ==
    /\ uid_counter \in 0..NumUsers
    /\ DOMAIN ack_map = DOMAIN event_map /\ DOMAIN ack_map \subseteq 0..(uid_counter - 1)
    /\ \A u \in Uid : task[u] \in {"sending", "waiting", "yielding"} => u \in DOMAIN ack_map
    /\ aborting \subseteq {u \in Uid : task[u] = "cancelled"}
    /\ \A u \in Uid : task[u] = "none" <=> u >= uid_counter
    /\ \A u \in Uid : task[u] = "yielding" => pending[u] # <<>>

(* wait_for_ack sleeps only while it has nothing to yield: however listen   *)
(* and the consumer of the stream interleave, a reply that was queued has   *)
(* its event set until it is taken.                                         *)
NoLostWakeup ==
    \A u \in DOMAIN ack_map : task[u] = "waiting" /\ ack_map[u] # <<>> => event_map[u]

Replies(u) ==
    IF task[u] \in {"ending", "done"} THEN <<>>
    ELSE pending[u] \o ack_map[u] \o RepliesOf(u, FlattenSeq(to_frontend))

UpToFinished(replies) ==
    LET ends == {i \in DOMAIN replies : replies[i].finished}
    IN  IF ends = {} THEN replies ELSE SubSeq(replies, 1, Min(ends))

(* The text a client was given, with the replies still on their way to it,   *)
(* is the text of the tokens the detokenizer has handled, in order, nothing  *)
(* lost or repeated; when its stream ends it has the text of every token up *)
(* to the one that was first said to be the last, and of none after it.     *)
ClientTextExact ==
    \A u \in Uid : task[u] \notin {"none", "cancelled"} =>
        LET handled == Min({FinishAt[u], backend[u].sent
                           - Cardinality({i \in DOMAIN Messages(0) : Messages(0)[i].uid = u
                                             /\ Messages(0)[i].kind = "detokenize"})})
            coming == UpToFinished(Replies(u))
            text == got[u] \o FlattenSeq([i \in DOMAIN coming |-> coming[i].incremental_output])
        IN  /\ IsPrefix(text, Decode[SubSeq(Script[u], 1, handled)])
            /\ task[u] \in {"ending", "done"} =>
                   got[u] = Decode[SubSeq(Script[u], 1, FinishAt[u])]

(* When the abort of a dropped stream has passed through the queues, the    *)
(* scheduler does not run the request and will not: an abort never gets     *)
(* there before the request it aborts.                                      *)
AbortsTakeEffect ==
    \A u \in Uid :
        /\ task[u] = "cancelled" /\ u \notin aborting
        /\ \A w \in Worker : /\ \A m \in InTransit(w) : m.uid = u => m.kind = "detokenize"
                             /\ \A m \in ToSet(to_backend[w]) : m.uid # u
        => backend[u].state \notin {"unknown", "running"}

(* A finished request leaves nothing in the detokenizer, even when one more *)
(* reply follows the finished one and its status is created again.          *)
FinishedStatusDropped ==
    \A u \in DOMAIN decode_map :
        backend[u].state = "done" =>
            \E m \in InTransit(0) : m.uid = u /\ m.kind = "detokenize"

(* A client whose request the scheduler accepts is answered to the end, or  *)
(* has left.                                                                *)
EveryRequestAnswered ==
    \A u \in Uid \ TooLong : task[u] = "sending" ~> task[u] \in {"done", "cancelled"}

=============================================================================
