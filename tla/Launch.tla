------------------------------- MODULE Launch -------------------------------
(***************************************************************************)
(* How a server starts, runs and stops (python/minisgl/server/launch.py):  *)
(* scheduler ranks, tokenizer workers and a launcher that serves requests  *)
(* once it has counted their acknowledgements; then the loop of the        *)
(* scheduler, which waits for messages or runs what it has                 *)
(* (scheduler/io.py, scheduler/scheduler.py), until it is told to exit.    *)
(*                                                                         *)
(* A rank raises in its constructor unless it is the only one, so the loop *)
(* is that of rank 0.  Of scheduling only what decides whether the loop    *)
(* waits is kept: the forward passes each request still needs.             *)
(***************************************************************************)
EXTENDS Integers, Sequences, FiniteSets

CONSTANTS
    NumTokenizers,  \* tokenizer workers beside the detokenizer
    MaxTpSize,      \* bound: ranks that may be asked for
    Uids,
    Forwards        \* uid -> forward passes its request takes

ASSUME LaunchAssumptions ==
    /\ NumTokenizers \in Nat /\ MaxTpSize \in Nat \ {0}
    /\ Forwards \in [Uids -> Nat \ {0}]

Worker == 0..NumTokenizers      \* the last one is the detokenizer

Message == [kind : {"user", "abort"}, uid : Uids] \cup {[kind |-> "exit"]}

VARIABLES
    tp_size, supported,     \* the configuration: ranks, and all else _adjust_config checks
    overlap,                \* overlap_loop rather than normal_loop
    at,                     \* rank -> where its process is
    ready,                  \* workers that have acknowledged
    ack_queue, got,         \* acknowledgements in the queue and taken by the launcher
    sent,                   \* messages sent so far
    from_tokenizer,         \* the pull queue of the scheduler
    pending_msgs,           \* messages of this iteration
    work,                   \* uid -> forward passes to go
    ongoing, last_data,     \* requests of this iteration's batch, and of the one before
    results,                \* uid -> results processed
    accepted, aborted       \* ghost: requests taken in, and taken out again

config_vars == <<tp_size, supported, overlap>>
start_vars == <<ready, ack_queue, got>>
queue_vars == <<sent, from_tokenizer, pending_msgs>>
batch_vars == <<work, ongoing, last_data, results, accepted, aborted>>
launch_vars == <<config_vars, at, start_vars, queue_vars, batch_vars>>

Rank == 0..(tp_size - 1)

LaunchInit ==
    /\ tp_size \in 1..MaxTpSize /\ supported \in BOOLEAN /\ overlap \in BOOLEAN
    /\ at = [r \in Rank |-> "init"]
    /\ ready = {} /\ ack_queue = 0 /\ got = 0
    /\ sent = {} /\ from_tokenizer = <<>> /\ pending_msgs = <<>>
    /\ work = [u \in Uids |-> 0] /\ results = [u \in Uids |-> 0]
    /\ ongoing = {} /\ last_data = {} /\ accepted = {} /\ aborted = {}

Go(r, place) == at' = [at EXCEPT ![r] = place]

AllAt(place) == \A r \in Rank : at[r] = place

-----------------------------------------------------------------------------
(* Starting *)

(* _adjust_config raises ValueError.                                        *)
Refused == tp_size # 1 \/ ~supported

(* Scheduler.__init__; the exception ends the process.                      *)
Construct(r) ==
    /\ at[r] = "init"
    /\ Go(r, IF Refused THEN "dead" ELSE "sync")
    /\ UNCHANGED <<config_vars, start_vars, queue_vars, batch_vars>>

(* sync_all_ranks, after which the primary rank acknowledges.               *)
SyncAllRanks ==
    /\ AllAt("sync")
    /\ at' = [r \in Rank |-> "loop"]
    /\ ack_queue' = ack_queue + 1
    /\ UNCHANGED <<config_vars, ready, got, queue_vars, batch_vars>>

(* tokenize_worker has loaded its tokenizer.                                *)
TokenizerReady(w) ==
    /\ w \notin ready
    /\ ready' = ready \cup {w}
    /\ ack_queue' = ack_queue + 1
    /\ UNCHANGED <<config_vars, at, got, queue_vars, batch_vars>>

(* Seeded faults, here and below, used by no specification.                 *)
NumAcks_OneLess == NumTokenizers + 1
NumAcks_OneMore == NumTokenizers + 3

NumAcks == NumTokenizers + 2

TakeAck ==
    /\ got < NumAcks /\ ack_queue > 0
    /\ ack_queue' = ack_queue - 1 /\ got' = got + 1
    /\ UNCHANGED <<config_vars, at, ready, queue_vars, batch_vars>>

serving == got = NumAcks

(* What reaches the scheduler once the server takes requests: each prompt   *)
(* once, an abort after it, and an ExitMsg.                                 *)
Send(msg) ==
    /\ serving /\ msg \notin sent
    /\ msg.kind = "abort" => [kind |-> "user", uid |-> msg.uid] \in sent
    /\ sent' = sent \cup {msg}
    /\ from_tokenizer' = Append(from_tokenizer, msg)
    /\ UNCHANGED <<config_vars, at, start_vars, pending_msgs, batch_vars>>

-----------------------------------------------------------------------------
(* One iteration of the loop *)

runnable == {u \in Uids : work[u] > 0}

Blocking_NoLastData == runnable = {}

Blocking == runnable = {} /\ last_data = {}

BeginLoop ==
    /\ at[0] = "loop"
    /\ Go(0, IF Blocking THEN "first" ELSE "drain")
    /\ UNCHANGED <<config_vars, start_vars, queue_vars, batch_vars>>

(* _recv_msg_single_rank: the message an idle loop waits for, and then all  *)
(* that the queue holds.                                                    *)
Get ==
    /\ at[0] \in {"first", "drain"} /\ from_tokenizer # <<>>
    /\ pending_msgs' = Append(pending_msgs, Head(from_tokenizer))
    /\ from_tokenizer' = Tail(from_tokenizer)
    /\ Go(0, "drain")
    /\ UNCHANGED <<config_vars, start_vars, sent, batch_vars>>

Empty ==
    /\ at[0] = "drain" /\ from_tokenizer = <<>>
    /\ Go(0, "process")
    /\ UNCHANGED <<config_vars, start_vars, queue_vars, batch_vars>>

Exits_NotWhileRunning(msg) == msg.kind = "exit" /\ runnable = {}

Exits(msg) == msg.kind = "exit"

(* _process_one_msg, as far as it changes what there is to run; an ExitMsg  *)
(* leaves the loop.                                                         *)
ProcessOneMsg ==
    /\ at[0] = "process" /\ pending_msgs # <<>>
    /\ LET msg == Head(pending_msgs)
       IN  /\ Go(0, IF Exits(msg) THEN "shutdown" ELSE "process")
           /\ IF msg.kind = "user"
              THEN /\ work' = [work EXCEPT ![msg.uid] = Forwards[msg.uid]]
                   /\ accepted' = accepted \cup {msg.uid}
                   /\ UNCHANGED aborted
              ELSE IF msg.kind = "abort"
              THEN /\ work' = [work EXCEPT ![msg.uid] = 0]
                   /\ aborted' = IF work[msg.uid] > 0 THEN aborted \cup {msg.uid} ELSE aborted
                   /\ UNCHANGED accepted
              ELSE UNCHANGED <<work, accepted, aborted>>
    /\ pending_msgs' = Tail(pending_msgs)
    /\ UNCHANGED <<config_vars, start_vars, sent, from_tokenizer, ongoing, last_data, results>>

(* _schedule_next_batch and _forward.  There is a batch of what is runnable *)
(* unless it has to wait for what the last one still holds.                 *)
Schedule(batch) ==
    /\ at[0] = "process" /\ pending_msgs = <<>>
    /\ batch \subseteq runnable
    /\ batch = {} => runnable = {} \/ last_data # {}
    /\ ongoing' = batch
    /\ work' = [u \in Uids |-> IF u \in batch THEN work[u] - 1 ELSE work[u]]
    /\ Go(0, "result")
    /\ UNCHANGED <<config_vars, start_vars, queue_vars, last_data, results, accepted, aborted>>

(* _process_last_data: of the batch before with overlap_loop, else of this  *)
(* iteration's.                                                             *)
ProcessLastData ==
    /\ at[0] = "result" /\ Go(0, "loop")
    /\ results' = [u \in Uids |->
           IF u \in (IF overlap THEN last_data ELSE ongoing) THEN results[u] + 1 ELSE results[u]]
    /\ last_data' = IF overlap THEN ongoing ELSE {}
    /\ ongoing' = {}
    /\ UNCHANGED <<config_vars, start_vars, queue_vars, work, accepted, aborted>>

Loop == BeginLoop \/ Get \/ Empty \/ ProcessOneMsg \/ ProcessLastData
        \/ \E batch \in SUBSET Uids : Schedule(batch)

(* A KeyboardInterrupt of the terminal, anywhere in run_forever.            *)
Interrupt ==
    /\ at[0] \in {"loop", "first", "drain", "process", "result"}
    /\ Go(0, "shutdown")
    /\ UNCHANGED <<config_vars, start_vars, queue_vars, batch_vars>>

(* shutdown: the ranks wait for each other.                                 *)
Shutdown ==
    /\ AllAt("shutdown")
    /\ at' = [r \in Rank |-> "stopped"]
    /\ UNCHANGED <<config_vars, start_vars, queue_vars, batch_vars>>

LaunchNext ==
    \/ SyncAllRanks \/ TakeAck \/ Loop \/ Interrupt \/ Shutdown
    \/ \E r \in Rank : Construct(r)
    \/ \E w \in Worker : TokenizerReady(w)
    \/ \E msg \in Message : Send(msg)

(* Every process goes on when it can; nobody has to send anything.          *)
LaunchFairness ==
    /\ WF_launch_vars(SyncAllRanks \/ Loop \/ Shutdown)
    /\ WF_launch_vars(TakeAck)
    /\ WF_launch_vars(\E r \in Rank : Construct(r))
    /\ \A w \in Worker : WF_launch_vars(TokenizerReady(w))

LaunchSpec == LaunchInit /\ [][LaunchNext]_launch_vars /\ LaunchFairness

-----------------------------------------------------------------------------
(* Properties *)

(* launch.py: the acknowledgements "guarantee all subprocesses are ready"   *)
(* though they carry no name and one stands for all ranks: no request is    *)
(* served before every worker and every rank is, and never with a dead one. *)
ServesOnlyWhenReady ==
    serving => /\ ready = Worker
               /\ \A r \in Rank : at[r] \notin {"init", "sync", "dead"}

(* A configuration that is not refused comes up: the acknowledgements that  *)
(* the launcher waits for are as many as there are.                         *)
ServerComesUp == ~Refused ~> serving

(* The loop waits for a message only when all it took in is answered: no    *)
(* result of a launched batch is held back until the next request comes.    *)
IdleMeansAnswered ==
    at[0] = "first" => \A u \in accepted \ aborted : results[u] = Forwards[u]

(* An ExitMsg stops the scheduler whatever it is running.                   *)
ExitStops ==
    (\E i \in DOMAIN from_tokenizer : from_tokenizer[i].kind = "exit") ~> AllAt("stopped")

=============================================================================
