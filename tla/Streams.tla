------------------------------ MODULE Streams ------------------------------
(* The scheduler's loop on the GPU: Python issues work to two CUDA streams  *)
(* and runs ahead of it (scheduler/scheduler.py, engine/engine.py,          *)
(* attention/fi.py, attention/fi_mla.py).                                   *)
(*                                                                          *)
(* In the overlap loop prompts are copied and a batch is prepared on the    *)
(* scheduler's stream and the batch runs on the engine's; in the normal     *)
(* loop everything is on the engine's stream. Each stream executes its own  *)
(* work in order. What the cache and the page table hold is the subject of  *)
(* module Scheduler: here a token is <<uid, position>>, a prefill batch has *)
(* one request, and the end-of-sequence token comes when it pleases.        *)
EXTENDS Naturals, Sequences, FiniteSets, SequencesExt, FiniteSetsExt

CONSTANTS
  Prompts,        \* the prompt length of each uid, in the order of arrival
  MaxNew,         \* tokens a request may generate
  PrefillBudget,  \* tokens of a prompt in one batch
  NumRows,        \* rows of the token pool, without the dummy's
  MaxBatches      \* bound: batches scheduled

ASSUME StreamsAssumptions ==
  /\ Prompts \in Seq(Nat \ {0}) /\ MaxNew \in Nat \ {0}
  /\ PrefillBudget \in Nat \ {0} /\ NumRows \in Nat

VARIABLES
  overlap,     \* which loop runs
  phase,       \* of a uid: "waiting", "chunked", "prefilled", "running", "last", "finished"
  row, cached, \* the row of a uid and the tokens of it already processed
  free,        \* TableManager._free_slots
  cpu,         \* where Python is: "schedule", "plan" or "process"
  last,        \* the batch whose results are processed next, NoBatch for None
  current,     \* the batch just issued
  made,        \* batches made
  sched, engine,  \* the work issued to a stream and not executed
  copies,      \* operations of the scheduler's stream executed and issued
  pool,        \* TableManager.token_pool: the tokens of each row
  staging,     \* the pinned buffer attention plans are written in
  workspace,   \* the plan on the GPU
  recorded,    \* the events that have happened
  input,       \* the tokens the last batch to start took from the pool
  attended,    \* the batch of the last attention and the plan it ran by
  exposed      \* requests given a row the engine's stream has yet to write

stream_vars == <<overlap, phase, row, cached, free, cpu, last, current, made, sched, engine, copies,
                 pool, staging, workspace, recorded, input, attended, exposed>>

Uids == DOMAIN Prompts
MaxLen(u) == Prompts[u] + MaxNew
Width == Max({MaxLen(u) : u \in Uids})
NoBatch == [id |-> 0, prefill |-> FALSE, reqs |-> {}]
Token(u, at) == <<u, at>>

StreamsInit ==
  /\ overlap \in BOOLEAN
  /\ phase = [u \in Uids |-> "waiting"]
  /\ row = [u \in Uids |-> 0] /\ cached = [u \in Uids |-> 0]
  /\ free = [i \in 1..NumRows |-> i]
  /\ cpu = "schedule" /\ last = NoBatch /\ current = NoBatch /\ made = 0
  /\ sched = <<>> /\ engine = <<>> /\ copies = [done |-> 0, issued |-> 0]
  /\ pool = [r \in 1..NumRows |-> [c \in 0..Width - 1 |-> <<>>]]
  /\ staging = 0 /\ workspace = 0 /\ recorded = {} /\ exposed = {}
  /\ input = {} /\ attended = [batch |-> 0, plan |-> 0]

Op(op, arg) == [op |-> op, arg |-> arg]

(* A request's share of a batch: it extends from its cached tokens to its   *)
(* device length, where its sampled token goes; that of a chunk, which is   *)
(* no token of the request, goes to the last column.                        *)
Share(u, to, decodes) ==
  [uid |-> u, row |-> row'[u], from |-> cached[u], to |-> to,
   out |-> IF decodes THEN to ELSE Width - 1, token |-> Token(u, IF decodes THEN to ELSE Width)]

(* The engine's stream waits for what the scheduler's was given so far.     *)
WaitsFor(issued) == << Op("wait", issued) >>

(* Issue the prompt copy, if any, and the gathering of a batch's input.     *)
Issue(prefill, reqs, prompt) ==
  LET batch == [id |-> made + 1, prefill |-> prefill, reqs |-> reqs]
      n == copies.issued + Len(prompt)
      gather == << Op("gather", batch) >>
  IN  /\ made < MaxBatches
      /\ made' = made + 1 /\ current' = batch /\ cpu' = "plan"
      /\ IF overlap
         THEN /\ sched' = sched \o prompt
              /\ engine' = engine \o WaitsFor(n) \o gather
              /\ copies' = [copies EXCEPT !.issued = n]
         ELSE /\ engine' = engine \o prompt \o gather
              /\ UNCHANGED <<sched, copies>>

Pending == {u \in Uids : phase[u] \in {"waiting", "chunked"}}
Chunked == {u \in Uids : phase[u] = "chunked"}
Decoding == {u \in Uids : phase[u] = "running"}

WriteQueued(r) ==
  \E op \in ToSet(engine) : op.op = "write" /\ \E q \in op.arg.reqs : q.row = r

(* The first pending request, if it has arrived and there is a row for it.  *)
Prefill ==
  /\ cpu = "schedule" /\ Pending # {}
  /\ LET u == CHOOSE v \in Pending : \A w \in Pending : v <= w
         fresh == phase[u] = "waiting"
         whole == Prompts[u] - cached[u] <= PrefillBudget
         to == IF whole THEN Prompts[u] ELSE cached[u] + PrefillBudget
     IN  /\ fresh => free # <<>>
         /\ row' = IF fresh THEN [row EXCEPT ![u] = Last(free)] ELSE row
         /\ free' = IF fresh THEN Front(free) ELSE free
         /\ exposed' = exposed \union
              {v \in {u} : overlap /\ fresh /\ WriteQueued(row'[u])}
         /\ phase' = [phase EXCEPT ![u] = IF whole THEN "prefilled" ELSE "chunked"]
         /\ cached' = [cached EXCEPT ![u] = to]
         /\ Issue(TRUE, {Share(u, to, whole)},
                  << Op("copy", [uid |-> u, row |-> row'[u], from |-> cached[u], to |-> to]) >>)
  /\ UNCHANGED <<overlap, last, pool, staging, workspace, recorded, input, attended>>

(* Every running request, when there is nothing to prefill.                 *)
Decode ==
  /\ cpu = "schedule" /\ Chunked = {} /\ Decoding # {}
  /\ cached' = [u \in Uids |-> IF u \in Decoding THEN cached[u] + 1 ELSE cached[u]]
  /\ UNCHANGED row
  /\ Issue(FALSE, {Share(u, cached[u] + 1, TRUE) : u \in Decoding}, <<>>)
  /\ UNCHANGED <<overlap, phase, free, last, pool, staging, workspace, recorded, input, attended,
                 exposed>>

NoBatchNow ==
  /\ cpu = "schedule" /\ last # NoBatch /\ Chunked = {}
  /\ current' = NoBatch /\ cpu' = "process"
  /\ UNCHANGED <<overlap, phase, row, cached, free, last, made, sched, engine, copies, pool, staging,
                 workspace, recorded, input, attended, exposed>>

(* A seeded fault, used by no specification: it does not wait.              *)
LastPlanCopied_Always == TRUE

(* _initialize_metadata_once waits for the copy of the plan before.         *)
LastPlanCopied == made = 1 \/ <<"plan", made - 1>> \in recorded

(* The rest of _forward: the plan is written and copied, the model runs,    *)
(* the tokens are sampled, copied to the host and written to the pool.      *)
ForwardBatch ==
  /\ cpu = "plan" /\ LastPlanCopied
  /\ staging' = current.id
  /\ engine' = engine \o [i \in 1..4 |-> Op(<<"h2d", "run", "sample", "write">>[i], current)]
  /\ phase' = [u \in Uids |->
       IF \E r \in current.reqs : r.uid = u /\ r.out = r.to /\ phase[u] # "finished"
       THEN IF cached[u] + 1 < MaxLen(u) THEN "running" ELSE "last" ELSE phase[u]]
  /\ cpu' = "process"
  /\ UNCHANGED <<overlap, row, cached, free, last, current, made, sched, copies, pool, workspace,
                 recorded, input, attended, exposed>>

(* _process_last_data: a request that has no token left, or sampled the end *)
(* of sequence, gives its row back, though it may be in the batch issued.   *)
Process ==
  LET batch == IF overlap THEN last ELSE current
      sampled == {r.uid : r \in {s \in batch.reqs : s.token # Token(s.uid, Width)}}
      ending == {u \in sampled : phase[u] # "finished"}
  IN  /\ cpu = "process"
      /\ batch # NoBatch => <<"copied", batch.id>> \in recorded
      /\ \E eos \in SUBSET ending :
           LET done == eos \union {u \in ending : cached[u] + 1 >= MaxLen(u)}
           IN  /\ phase' = [u \in Uids |-> IF u \in done THEN "finished" ELSE phase[u]]
               /\ free' = free \o SetToSeq({row[u] : u \in done})
      /\ last' = IF overlap THEN current ELSE NoBatch
      /\ cpu' = "schedule"
      /\ UNCHANGED <<overlap, row, cached, current, made, sched, engine, copies, pool, staging,
                     workspace, recorded, input, attended, exposed>>

CopyTo(c) == [pool EXCEPT ![c.row] =
                [at \in DOMAIN @ |-> IF at \in c.from..c.to - 1 THEN Token(c.uid, at) ELSE @[at]]]

(* The scheduler's stream executes its next operation, a prompt copy.       *)
RunScheduler ==
  /\ sched # <<>>
  /\ pool' = CopyTo(Head(sched).arg)
  /\ sched' = Tail(sched) /\ copies' = [copies EXCEPT !.done = @ + 1]
  /\ UNCHANGED <<overlap, phase, row, cached, free, cpu, last, current, made, engine, staging,
                 workspace, recorded, input, attended, exposed>>

(* So does the engine's.                                                    *)
Executes(op) == engine # <<>> /\ Head(engine).op = op /\ engine' = Tail(engine)
Now == Head(engine).arg
RunEngine ==
  /\ \/ /\ Executes("wait") /\ copies.done >= Now
        /\ UNCHANGED <<pool, workspace, recorded, input, attended>>
     \/ /\ Executes("copy")
        /\ pool' = CopyTo(Now)
        /\ UNCHANGED <<workspace, recorded, input, attended>>
     \/ /\ Executes("gather")
        /\ input' = {[req |-> r, got |-> [c \in r.from..r.to - 1 |-> pool[r.row][c]]] :
                       r \in {s \in Now.reqs : phase[s.uid] # "finished" /\ s.uid \notin exposed}}
        /\ UNCHANGED <<pool, workspace, recorded, attended>>
     \/ /\ Executes("h2d")
        /\ workspace' = staging /\ recorded' = recorded \union {<<"plan", Now.id>>}
        /\ UNCHANGED <<pool, input, attended>>
     \/ /\ Executes("run")
        /\ attended' = [batch |-> Now.id, plan |-> workspace]
        /\ UNCHANGED <<pool, workspace, recorded, input>>
     \/ /\ Executes("sample")
        /\ recorded' = recorded \union {<<"copied", Now.id>>}
        /\ UNCHANGED <<pool, workspace, input, attended>>
     \/ /\ Executes("write")
        /\ pool' = [r \in DOMAIN pool |-> [c \in DOMAIN pool[r] |->
             LET to == {q \in Now.reqs : q.row = r /\ q.out = c}
             IN  IF to = {} THEN pool[r][c] ELSE (CHOOSE q \in to : TRUE).token]]
        /\ UNCHANGED <<workspace, recorded, input, attended>>
  /\ UNCHANGED <<overlap, phase, row, cached, free, cpu, last, current, made, sched, copies, staging,
                 exposed>>

StreamsNext ==
  \/ Prefill \/ Decode \/ NoBatchNow \/ ForwardBatch \/ Process
  \/ RunScheduler \/ RunEngine

StreamsSpec == StreamsInit /\ [][StreamsNext]_stream_vars

(* However far Python and the streams run apart, every attention runs by    *)
(* the plan made for its own batch, and every batch starts from the prompt  *)
(* and the tokens its requests have at its positions. Excepted: a request   *)
(* given, in the overlap loop, the row of one whose last token the engine's *)
(* stream has not written yet: it may be written over its prompt.           *)
StreamsExact ==
  /\ attended.batch = attended.plan
  /\ \A i \in input : \A c \in DOMAIN i.got : i.got[c] = Token(i.req.uid, c)
============================================================================
