--------------------------- MODULE StreamsProofs ---------------------------
(* Proofs about Streams, for any prompts, budgets and numbers of rows: an   *)
(* attention runs by the plan of its own batch, and a batch takes from the  *)
(* pool the tokens its requests have at its positions.                      *)
(*                                                                          *)
(* What a batch will find when its gathering runs is decided by the work    *)
(* issued before it. So the invariant speaks of the two queues: whatever in *)
(* them would put another token where a batch will look is followed, before *)
(* the batch, by what puts the right one there (Settled), and if the token  *)
(* is not there yet, some work before the batch puts it there (Provided,    *)
(* OnItsWay).                                                               *)
EXTENDS Streams, SequenceTheorems, FiniteSetTheorems, FunctionTheorems, WellFoundedInduction, TLAPS

(* What the variables hold: rows, batches and their shares, prompt copies,  *)
(* and the operations of the two streams.                                   *)
Rows == 1..NumRows
Phases == {"waiting", "chunked", "prefilled", "running", "last", "finished"}
Shares == [uid : Uids, row : Rows, from : Nat, to : Nat, out : Nat, token : Uids \X Nat]
Batches == [id : Nat, prefill : BOOLEAN, reqs : SUBSET Shares]
Copies == [uid : Uids, row : Rows, from : Nat, to : Nat]
BatchOps == {"gather", "h2d", "run", "sample", "write"}
CopyOps == [op : {"copy"}, arg : Copies]
Operations == [op : {"wait"}, arg : Nat] \union CopyOps \union [op : BatchOps, arg : Batches]

(* Every variable holds what it is meant to.                                *)
TypeInv ==
  /\ overlap \in BOOLEAN
  /\ phase \in [Uids -> Phases] /\ row \in [Uids -> Nat] /\ cached \in [Uids -> Nat]
  /\ free \in Seq(Rows)
  /\ cpu \in {"schedule", "plan", "process"}
  /\ last \in Batches /\ current \in Batches /\ made \in Nat
  /\ sched \in Seq(CopyOps) /\ engine \in Seq(Operations)
  /\ copies \in [done : Nat, issued : Nat]
  /\ staging \in Nat
  /\ DOMAIN pool = Rows /\ \A r \in Rows : DOMAIN pool[r] = 0..Width - 1

(* Who has a row.                                                           *)
Holders == {u \in Uids : phase[u] \notin {"waiting", "finished"}}

(* Every row is free or held, and by one request.                           *)
RowInv ==
  /\ \A i, j \in DOMAIN free : free[i] = free[j] => i = j
  /\ \A u \in Holders : row[u] \in Rows /\ \A i \in DOMAIN free : free[i] # row[u]
  /\ \A u, v \in Holders : row[u] = row[v] => u = v

(* The batch Python is planning has u.                                      *)
Planned(u) == cpu = "plan" /\ \E r \in current.reqs : r.uid = u

(* How far a request is, and that a running one has a token to go.          *)
LengthInv ==
  \A u \in Uids :
    /\ phase[u] = "waiting" => cached[u] = 0
    /\ phase[u] = "chunked" => cached[u] < Prompts[u]
    /\ phase[u] = "running" =>
         cached[u] >= Prompts[u] /\ (Planned(u) \/ cached[u] + 1 < MaxLen(u))

(* A share of a batch that was issued, once its request had a row.          *)
IsShare(r) ==
  /\ phase[r.uid] # "waiting" /\ r.row = row[r.uid] /\ r.to <= cached[r.uid]
  /\ \/ /\ r.to < Prompts[r.uid]
        /\ r.out = Width - 1 /\ r.token = Token(r.uid, Width)
     \/ /\ Prompts[r.uid] <= r.to /\ r.to < MaxLen(r.uid) /\ phase[r.uid] # "chunked"
        /\ r.out = r.to /\ r.token = Token(r.uid, r.to)

(* A batch whose shares are, each in a row of its own.                      *)
IsBatch(b) ==
  /\ b.id <= made
  /\ \A r \in b.reqs : IsShare(r)
  /\ \A q, r \in b.reqs : q.row = r.row => q = r

(* So are the batches Python holds and those of the queue; batches with one *)
(* number are one; and results reach the host of batches that were made.    *)
BatchInv ==
  /\ IsBatch(last) /\ IsBatch(current)
  /\ \A b \in {last, current} : b.id = 0 => b = NoBatch
  /\ last.id = current.id => last = current
  /\ \A i \in DOMAIN engine : engine[i].op \in BatchOps =>
       LET b == engine[i].arg
       IN  /\ IsBatch(b) /\ b.id > 0
           /\ b.id = last.id => b = last
           /\ b.id = current.id => b = current
  /\ cpu = "plan" =>
       /\ current.id = made /\ made > 0
       /\ \A r \in current.reqs : r.uid \in Holders /\ r.to = cached[r.uid]
  /\ \A n : <<"copied", n>> \in recorded => n \in 0..made

(* Plans: the buffer holds the last plan that was written, and is written   *)
(* again only when that one is on the GPU.                                  *)
PlanInv ==
  /\ attended.batch = attended.plan
  /\ staging = IF cpu = "plan" THEN made - 1 ELSE made
  /\ \A n : <<"plan", n>> \in recorded => n \in 0..staging
  /\ \A i \in DOMAIN engine : engine[i].op = "h2d" =>
       /\ engine[i].arg.id = staging /\ <<"plan", staging>> \notin recorded
       /\ \A j \in DOMAIN engine : engine[j].op = "h2d" => j = i
  /\ \A i \in DOMAIN engine : engine[i].op = "run" =>
       \/ engine[i].arg.id = staging /\ \E j \in DOMAIN engine : j < i /\ engine[j].op = "h2d"
       \/ /\ workspace = engine[i].arg.id
          /\ \A j \in DOMAIN engine : j < i => engine[j].op # "h2d"

(* Before its i-th operation the stream e waits for the k-th copy.          *)
WaitsBefore(e, i, k) ==
  \E j \in DOMAIN e : j < i /\ e[j].op = "wait" /\ e[j].arg >= k

(* Prompt copies: whoever has one queued has a row, and what the batches    *)
(* are issued for waits for the copies its share needs.                     *)
CopyInv ==
  /\ ~overlap => sched = <<>>
  /\ copies.issued = copies.done + Len(sched)
  /\ \A k \in DOMAIN sched :
       LET c == sched[k].arg
       IN  c.uid \in Holders /\ c.row = row[c.uid] /\ c.to <= Prompts[c.uid] /\ c.to <= cached[c.uid]
  /\ \A i \in DOMAIN engine : engine[i].op \in BatchOps =>
       \A r \in engine[i].arg.reqs : \A k \in DOMAIN sched :
         sched[k].arg.uid = r.uid /\ sched[k].arg.to <= r.to =>
           WaitsBefore(engine, i, copies.done + k)
  /\ cpu = "plan" =>
       \A r \in current.reqs : \A k \in DOMAIN sched :
         sched[k].arg.uid = r.uid => WaitsBefore(engine, Len(engine) + 1, copies.done + k)
  /\ \A b \in {last, current} : <<"copied", b.id>> \in recorded =>
       \A r \in b.reqs : \A k \in DOMAIN sched :
         ~ (sched[k].arg.uid = r.uid /\ sched[k].arg.to <= r.to)

(* An operation writes column c of row r, and with the token of u.          *)
Touches(op, r, c) ==
  \/ op.op = "copy" /\ op.arg.row = r /\ c \in op.arg.from..op.arg.to - 1
  \/ op.op = "write" /\ \E q \in op.arg.reqs : q.row = r /\ q.out = c

(* It writes the token of u there.                                          *)
Gives(op, u, r, c) ==
  \/ op.op = "copy" /\ op.arg.row = r /\ c \in op.arg.from..op.arg.to - 1 /\ op.arg.uid = u
  \/ op.op = "write" /\ \E q \in op.arg.reqs : q.row = r /\ q.out = c /\ q.token = Token(u, c)

(* Before its i-th operation, e leaves no other token there than u's;       *)
Settled(e, i, u, r, c) ==
  \A j \in DOMAIN e : j < i /\ Touches(e[j], r, c) =>
    \/ Gives(e[j], u, r, c)
    \/ \E k \in DOMAIN e : j < k /\ k < i /\ Gives(e[k], u, r, c)

(* it is there in p or e puts it there.                                     *)
Provided(p, e, i, u, r, c) ==
  \/ p[r][c] = Token(u, c)
  \/ \E j \in DOMAIN e : j < i /\ Gives(e[j], u, r, c)

(* The other stream s, done operations of which are over, puts it there and *)
(* e waits for that.                                                        *)
OnItsWay(s, e, done, i, u, r, c) ==
  \E k \in DOMAIN s : Gives(s[k], u, r, c) /\ WaitsBefore(e, i, done + k)

(* In the overlap loop nobody writes the row of a request that is not       *)
(* excepted but itself.                                                     *)
OwnInv ==
  overlap => \A i \in DOMAIN engine :
    /\ engine[i].op # "copy"
    /\ engine[i].op = "write" =>
         \A u \in Holders \ exposed : \A q \in engine[i].arg.reqs : q.row = row[u] => q.uid = u

(* The next token of such a request is written before what is issued next.  *)
NextInv ==
  \A u \in Holders \ exposed : phase[u] = "running" /\ ~Planned(u) =>
    /\ Settled(engine, Len(engine) + 1, u, row[u], cached[u])
    /\ Provided(pool, engine, Len(engine) + 1, u, row[u], cached[u])

(* What a batch looks for will be there when its input is gathered.         *)
GatherInv ==
  \A i \in DOMAIN engine : engine[i].op = "gather" =>
    \A r \in engine[i].arg.reqs : phase[r.uid] # "finished" /\ r.uid \notin exposed =>
      \A c \in r.from..r.to - 1 :
        /\ Settled(engine, i, r.uid, r.row, c)
        /\ \/ Provided(pool, engine, i, r.uid, r.row, c)
           \/ OnItsWay(sched, engine, copies.done, i, r.uid, r.row, c)

(* What the last one took was what it looked for.                           *)
InputInv ==
  \A i \in input : \A c \in DOMAIN i.got : i.got[c] = Token(i.req.uid, c)

(* The inductive invariant.                                                 *)
StreamsInv ==
  /\ TypeInv /\ RowInv /\ LengthInv /\ BatchInv /\ PlanInv /\ CopyInv
  /\ OwnInv /\ NextInv /\ GatherInv /\ InputInv

-----------------------------------------------------------------------------
(* Lengths, sequences and sets                                              *)

(* Natural numbers have a least one.                                        *)
LEMMA LeastNatural ==
  ASSUME NEW S, S \subseteq Nat, S # {}
  PROVE  \E n \in S : \A m \in S : n <= m
<1> DEFINE R == {ss \in Nat \X Nat : ss[1] < ss[2]}
<1>1. IsWellFoundedOn(R, Nat)
  <2>1. R = OpToRel(<, Nat)
    BY Zenon DEF OpToRel
  <2> QED
    BY <2>1, NatLessThanWellFounded, Zenon
<1>2. PICK n \in S : \A m \in S : <<m, n>> \notin R
  <2> HIDE DEF R
  <2> QED
    BY <1>1, WFMin
<1>3. ASSUME NEW m \in S PROVE n <= m
  <2>1. n \in Nat /\ m \in Nat /\ <<m, n>> \notin R
    BY <1>2
  <2> QED
    BY ONLY <2>1
<1> QED
  BY <1>3

(* The lengths of the prompts, and of what they become.                     *)
LEMMA Lengths ==
  /\ Uids = 1..Len(Prompts) /\ Len(Prompts) \in Nat
  /\ \A u \in Uids : /\ Prompts[u] \in Nat /\ Prompts[u] > 0
                     /\ MaxLen(u) \in Nat /\ MaxLen(u) > Prompts[u]
BY StreamsAssumptions DEF Uids, MaxLen

(* Together they are no longer than some number.                            *)
LEMMA LengthsBounded == \E b \in Nat : \A u \in Uids : MaxLen(u) <= b
<1> DEFINE Bounds(n) == {b \in Nat : \A u \in 1..n : MaxLen(u) <= b}
           Unbounded == {n \in 0..Len(Prompts) : Bounds(n) = {}}
<1>1. SUFFICES Unbounded = {}
  <2>1. Len(Prompts) \in 0..Len(Prompts)
    BY Lengths
  <2>2. Bounds(Len(Prompts)) # {}
    BY <1>1, <2>1
  <2>3. PICK b \in Bounds(Len(Prompts)) : TRUE
    BY <2>2
  <2> QED
    BY <2>3, Lengths
<1>2. SUFFICES ASSUME Unbounded # {} PROVE FALSE
  OBVIOUS
<1>3. PICK n \in Unbounded : \A m \in Unbounded : n <= m
  <2>1. Unbounded \subseteq Nat
    BY Lengths
  <2> HIDE DEF Unbounded
  <2> QED
    BY <1>2, <2>1, LeastNatural
<1>4. n \in Nat /\ n <= Len(Prompts) /\ n > 0
  <2>1. 0 \in Bounds(0)
    OBVIOUS
  <2> QED
    BY <2>1, Lengths
<1>5. PICK b \in Nat : \A u \in 1..(n - 1) : MaxLen(u) <= b
  <2>1. n - 1 \in 0..Len(Prompts) /\ n - 1 \notin Unbounded
    <3> HIDE DEF Unbounded
    <3> QED
      BY <1>3, <1>4, Lengths
  <2> QED
    BY <2>1
<1>6. MaxLen(n) \in Nat
  BY <1>4, Lengths
<1>7. PICK m \in Nat : b <= m /\ MaxLen(n) <= m
  BY <1>5, <1>6
<1>8. \A u \in 1..n : MaxLen(u) <= m
  <2> TAKE u \in 1..n
  <2>1. CASE u = n
    BY <1>7, <2>1
  <2>2. CASE u # n
    <3>1. MaxLen(u) \in Nat /\ MaxLen(u) <= b
      BY <1>4, <1>5, <2>2, Lengths
    <3> QED
      BY <1>7, <3>1
  <2> QED
    BY <2>1, <2>2
<1> QED
  BY <1>3, <1>8

(* A row of the pool has room for every length.                             *)
LEMMA WidthIsEnough ==
  ASSUME NEW u \in Uids
  PROVE  Width \in Nat /\ MaxLen(u) <= Width
<1> DEFINE S == {MaxLen(v) : v \in Uids}
<1>1. S \subseteq Nat /\ MaxLen(u) \in S
  BY Lengths
<1>2. PICK b \in Nat : \A n \in S : n <= b
  BY LengthsBounded
<1>3. \E m \in S : \A n \in S : m >= n
  <2> DEFINE T == {b - n : n \in S}
  <2>1. T \subseteq Nat /\ T # {}
    BY <1>1, <1>2
  <2>2. PICK x \in T : \A y \in T : x <= y
    <3> HIDE DEF T
    <3> QED
      BY <2>1, LeastNatural
  <2>3. PICK m \in S : x = b - m
    OBVIOUS
  <2>4. \A n \in S : b - m <= b - n
    BY <2>2, <2>3
  <2>5. \A n \in S : n \in Nat /\ m \in Nat
    BY <1>1
  <2> HIDE DEF S, T
  <2> QED
    BY <2>4, <2>5
<1>4. Width \in S /\ \A n \in S : Width >= n
  <2> HIDE DEF S
  <2>1. Max(S) \in S /\ \A n \in S : Max(S) >= n
    BY <1>3 DEF Max
  <2> QED
    BY <2>1 DEF Width, S
<1> QED
  BY <1>1, <1>4

(* What is issued comes after what was.                                     *)
LEMMA Issued ==
  ASSUME NEW S, NEW e \in Seq(S), NEW s \in Seq(S)
  PROVE  /\ e \o s \in Seq(S) /\ Len(e) \in Nat /\ Len(s) \in Nat
         /\ Len(e \o s) = Len(e) + Len(s) /\ DOMAIN (e \o s) = 1..(Len(e) + Len(s))
         /\ DOMAIN e = 1..Len(e)
         /\ \A i \in 1..Len(e) : (e \o s)[i] = e[i]
         /\ \A i \in 1..Len(s) : (e \o s)[Len(e) + i] = s[i]
OBVIOUS

(* What is executed leaves the front.                                       *)
LEMMA Executed ==
  ASSUME NEW S, NEW e \in Seq(S), e # <<>>
  PROVE  /\ Tail(e) \in Seq(S) /\ Len(e) \in Nat /\ Len(e) > 0 /\ Len(Tail(e)) = Len(e) - 1
         /\ DOMAIN e = 1..Len(e) /\ DOMAIN Tail(e) = 1..(Len(e) - 1)
         /\ Head(e) = e[1] /\ e[1] \in S
         /\ \A i \in 1..(Len(e) - 1) : Tail(e)[i] = e[i + 1]
OBVIOUS

(* The elements of a finite set in a sequence, each once.                   *)
LEMMA SeqOfSet ==
  ASSUME NEW S, IsFiniteSet(S)
  PROVE  /\ SetToSeq(S) \in Seq(S)
         /\ \A i, j \in DOMAIN SetToSeq(S) : SetToSeq(S)[i] = SetToSeq(S)[j] => i = j
<1> PICK n : n = Cardinality(S)
  OBVIOUS
<1> PICK f : f = SetToSeq(S)
  OBVIOUS
<1>1. n \in Nat /\ ExistsBijection(1..n, S)
  BY FS_CardinalityType
<1>2. f \in [1..n -> S] /\ IsInjective(f)
  <2>1. \E g \in [1..n -> S] : IsInjective(g)
    BY <1>1 DEF ExistsBijection, Bijection, Injection
  <2> QED
    BY <2>1 DEF SetToSeq
<1> QED
  BY <1>1, <1>2 DEF IsInjective

-----------------------------------------------------------------------------
(* The steps of Python, with what they choose named                         *)

(* The share of a batch that computes the prompt of c.uid up to c.to.       *)
PromptShare(c) ==
  [uid |-> c.uid, row |-> c.row, from |-> c.from, to |-> c.to,
   out |-> IF c.to = Prompts[c.uid] THEN c.to ELSE Width - 1,
   token |-> Token(c.uid, IF c.to = Prompts[c.uid] THEN c.to ELSE Width)]

(* The share that computes the next token of u.                             *)
NextShare(u) ==
  [uid |-> u, row |-> row[u], from |-> cached[u], to |-> cached[u] + 1,
   out |-> cached[u] + 1, token |-> Token(u, cached[u] + 1)]

(* Batch b is issued, its input gathered after the operations in before.    *)
Issues(b, before) ==
  /\ cpu = "schedule" /\ cpu' = "plan"
  /\ b \in Batches /\ b.id = made + 1 /\ made' = made + 1 /\ current' = b
  /\ before \in Seq(Operations) /\ engine' = (engine \o before) \o << Op("gather", b) >>
  /\ \A i \in DOMAIN before : before[i].op \in {"wait", "copy"}
  /\ UNCHANGED <<overlap, last, pool, staging, workspace, recorded, input, attended>>

(* The row is the one u has, or the last one that is free.                  *)
GetsRow(u, r) ==
  \/ phase[u] = "chunked" /\ r = row[u] /\ free' = free /\ exposed' = exposed
  \/ /\ phase[u] = "waiting" /\ free # <<>> /\ r = free[Len(free)]
     /\ free' = SubSeq(free, 1, Len(free) - 1)
     /\ exposed' = exposed \union {v \in {u} : overlap /\ WriteQueued(r)}

(* Prefill issues b, after the copy c of the stretch of a prompt it needs.  *)
Prefills(b, c) ==
  /\ c \in Copies /\ phase[c.uid] \in {"waiting", "chunked"}
  /\ c.from = cached[c.uid] /\ cached[c.uid] < c.to /\ c.to <= Prompts[c.uid]
  /\ GetsRow(c.uid, c.row)
  /\ row' = [row EXCEPT ![c.uid] = c.row]
  /\ phase' = [phase EXCEPT ![c.uid] = IF c.to = Prompts[c.uid] THEN "prefilled" ELSE "chunked"]
  /\ cached' = [cached EXCEPT ![c.uid] = c.to]
  /\ b.reqs = {PromptShare(c)}
  /\ \/ /\ overlap
        /\ Issues(b, << Op("wait", copies.issued + 1) >>)
        /\ sched' = sched \o << Op("copy", c) >>
        /\ copies' = [copies EXCEPT !.issued = copies.issued + 1]
     \/ /\ ~overlap
        /\ Issues(b, << Op("copy", c) >>)
        /\ UNCHANGED <<sched, copies>>

(* The first pending request is one of them.                                *)
LEMMA FirstPending ==
  ASSUME Pending # {}
  PROVE  (CHOOSE v \in Pending : \A w \in Pending : v <= w) \in Pending
<1>1. Pending \subseteq Nat
  BY Lengths DEF Pending
<1>2. \E v \in Pending : \A w \in Pending : v <= w
  <2> PICK P : P = Pending
    OBVIOUS
  <2> QED
    BY <1>1, LeastNatural
<1> QED
  BY <1>2

(* The lengths a prefill leaves, as the code computes them.                 *)
LEMMA PrefillIs ==
  ASSUME TypeInv, RowInv, LengthInv, Prefill
  PROVE  \E c \in Copies, b \in Batches : Prefills(b, c)
<1> DEFINE u == CHOOSE v \in Pending : \A w \in Pending : v <= w
           whole == Prompts[u] - cached[u] <= PrefillBudget
           to == IF whole THEN Prompts[u] ELSE cached[u] + PrefillBudget
           c == [uid |-> u, row |-> row'[u], from |-> cached[u], to |-> to]
           share == Share(u, to, whole)
           b == [id |-> made + 1, prefill |-> TRUE, reqs |-> {share}]
<1>1. u \in Uids /\ phase[u] \in {"waiting", "chunked"} /\ cpu = "schedule"
  BY FirstPending DEF Prefill, Pending
<1>2. /\ phase[u] = "waiting" => free # <<>>
      /\ row' = IF phase[u] = "waiting" THEN [row EXCEPT ![u] = Last(free)] ELSE row
      /\ free' = IF phase[u] = "waiting" THEN Front(free) ELSE free
      /\ exposed' = exposed \union
           {v \in {u} : overlap /\ phase[u] = "waiting" /\ WriteQueued(row'[u])}
      /\ phase' = [phase EXCEPT ![u] = IF whole THEN "prefilled" ELSE "chunked"]
      /\ cached' = [cached EXCEPT ![u] = to]
      /\ Issue(TRUE, {share}, << Op("copy", c) >>)
      /\ UNCHANGED <<overlap, last, pool, staging, workspace, recorded, input, attended>>
  BY DEF Prefill
<1> HIDE DEF u
<1>3. /\ cached[u] \in Nat /\ Prompts[u] \in Nat /\ cached[u] < Prompts[u]
      /\ Prompts[u] < MaxLen(u) /\ MaxLen(u) <= Width /\ Width \in Nat
      /\ PrefillBudget \in Nat /\ PrefillBudget > 0 /\ MaxLen(u) \in Nat
  <2>1. cached[u] \in Nat
    BY <1>1 DEF TypeInv
  <2>2. Prompts[u] \in Nat /\ Prompts[u] > 0 /\ MaxLen(u) \in Nat /\ MaxLen(u) > Prompts[u]
    BY <1>1, Lengths
  <2>3. cached[u] = 0 \/ cached[u] < Prompts[u]
    BY <1>1 DEF LengthInv
  <2>4. Width \in Nat /\ MaxLen(u) <= Width
    BY <1>1, WidthIsEnough
  <2>5. PrefillBudget \in Nat /\ PrefillBudget > 0
    BY StreamsAssumptions
  <2>6. cached[u] < Prompts[u] /\ Prompts[u] < MaxLen(u)
    BY <2>1, <2>2, <2>3
  <2> QED
    BY <2>1, <2>2, <2>4, <2>5, <2>6
<1>4. /\ to \in Nat /\ cached[u] < to /\ to <= Prompts[u]
      /\ whole <=> to = Prompts[u]
  BY <1>3
<1> HIDE DEF whole, to
<1>5. row'[u] \in Rows /\ row' = [row EXCEPT ![u] = row'[u]] /\ GetsRow(u, row'[u])
  <2>1. CASE phase[u] = "chunked"
    <3>1. row' = row /\ free' = free /\ exposed' = exposed
      BY <1>2, <2>1
    <3>2. row[u] \in Rows
      BY <1>1, <2>1 DEF RowInv, Holders
    <3> QED
      BY <1>1, <2>1, <3>1, <3>2 DEF GetsRow, TypeInv
  <2>2. CASE phase[u] = "waiting"
    <3>1. /\ free # <<>> /\ row' = [row EXCEPT ![u] = Last(free)] /\ free' = Front(free)
          /\ exposed' = exposed \union {v \in {u} : overlap /\ WriteQueued(row'[u])}
      BY <1>2, <2>2
    <3>2. Last(free) = free[Len(free)] /\ Front(free) = SubSeq(free, 1, Len(free) - 1)
      BY DEF Last, Front
    <3>3. free[Len(free)] \in Rows
      BY <3>1 DEF TypeInv
    <3>4. row'[u] = Last(free)
      BY <1>1, <3>1 DEF TypeInv
    <3> QED
      BY <2>2, <3>1, <3>2, <3>3, <3>4 DEF GetsRow
  <2> QED
    BY <1>1, <2>1, <2>2
<1>6. c \in Copies
  BY <1>1, <1>3, <1>4, <1>5 DEF Copies
<1>7. share = PromptShare(c) /\ share \in Shares
  <2>1. share = PromptShare(c)
    BY <1>4 DEF Share, PromptShare
  <2>2. PromptShare(c) \in Shares
    BY <1>1, <1>3, <1>4, <1>5 DEF PromptShare, Shares, Token
  <2> QED
    BY <2>1, <2>2
<1> HIDE DEF share
<1>8. b \in Batches /\ b.reqs = {PromptShare(c)} /\ b.id = made + 1
  BY <1>7 DEF Batches, TypeInv
<1>9. /\ copies.issued \in Nat /\ copies.done \in Nat
      /\ Op("copy", c) \in Operations /\ Op("wait", copies.issued + 1) \in Operations
      /\ Op("copy", c).op = "copy" /\ Op("wait", copies.issued + 1).op = "wait"
  BY <1>6 DEF TypeInv, Operations, CopyOps, Op
<1>10. /\ made' = made + 1 /\ current' = b /\ cpu' = "plan"
       /\ IF overlap
          THEN /\ sched' = sched \o << Op("copy", c) >>
               /\ engine' = (engine \o << Op("wait", copies.issued + 1) >>) \o << Op("gather", b) >>
               /\ copies' = [copies EXCEPT !.issued = copies.issued + 1]
          ELSE /\ engine' = (engine \o << Op("copy", c) >>) \o << Op("gather", b) >>
               /\ UNCHANGED <<sched, copies>>
  <2>1. Len(<< Op("copy", c) >>) = 1
    OBVIOUS
  <2> HIDE DEF c
  <2> QED
    BY <1>2, <2>1 DEF Issue, WaitsFor
<1> HIDE DEF b, c
<1>11. overlap => Issues(b, << Op("wait", copies.issued + 1) >>)
  BY ONLY <1>1, <1>2, <1>8, <1>9, <1>10, SMTT(40) DEF Issues
<1>12. ~overlap => Issues(b, << Op("copy", c) >>)
  BY <1>1, <1>2, <1>8, <1>9, <1>10 DEF Issues
<1>13. c.uid = u /\ c.row = row'[u] /\ c.from = cached[u] /\ c.to = to
  BY DEF c
<1>14. Prefills(b, c)
  BY <1>1, <1>2, <1>4, <1>5, <1>6, <1>8, <1>10, <1>11, <1>12, <1>13 DEF Prefills
<1> QED
  BY <1>6, <1>8, <1>14

(* Decode issues b, after the wait in before when there is one.             *)
Decodes(b, before) ==
  /\ Issues(b, before)
  /\ IF overlap THEN before = << Op("wait", copies.issued) >> ELSE before = <<>>
  /\ b.reqs = {NextShare(u) : u \in Decoding}
  /\ cached' = [u \in Uids |-> IF u \in Decoding THEN cached[u] + 1 ELSE cached[u]]
  /\ UNCHANGED <<phase, row, free, exposed, sched, copies>>

(* What a decode issues.                                                    *)
LEMMA DecodeIs ==
  ASSUME TypeInv, RowInv, LengthInv, Decode
  PROVE  \E b \in Batches, before \in Seq(Operations) : Decodes(b, before)
<1> DEFINE reqs == {Share(u, cached[u] + 1, TRUE) : u \in Decoding}
           b == [id |-> made + 1, prefill |-> FALSE, reqs |-> reqs]
           before == IF overlap THEN << Op("wait", copies.issued) >> ELSE <<>>
<1>1. /\ cpu = "schedule" /\ row' = row /\ Issue(FALSE, reqs, <<>>)
      /\ cached' = [u \in Uids |-> IF u \in Decoding THEN cached[u] + 1 ELSE cached[u]]
      /\ UNCHANGED <<overlap, phase, free, last, pool, staging, workspace, recorded, input,
                     attended, exposed>>
  BY DEF Decode
<1>2. \A u \in Decoding : Share(u, cached[u] + 1, TRUE) = NextShare(u)
  BY <1>1 DEF Share, NextShare
<1>3. reqs = {NextShare(u) : u \in Decoding}
  BY <1>2
<1>4. \A u \in Decoding : NextShare(u) \in Shares
  <2> TAKE u \in Decoding
  <2>1. u \in Uids /\ u \in Holders
    BY DEF Decoding, Holders
  <2>2. row[u] \in Rows /\ cached[u] \in Nat /\ cached[u] + 1 \in Nat
    BY <2>1 DEF TypeInv, RowInv
  <2> QED
    BY <2>1, <2>2 DEF NextShare, Shares, Token
<1> HIDE DEF reqs
<1>5. b \in Batches /\ b.reqs = {NextShare(u) : u \in Decoding} /\ b.id = made + 1
  BY <1>3, <1>4 DEF Batches, TypeInv
<1>6. before \in Seq(Operations) /\ \A i \in DOMAIN before : before[i].op \in {"wait", "copy"}
  <2> PICK w : w = Op("wait", copies.issued)
    OBVIOUS
  <2>1. w \in Operations /\ w.op = "wait"
    BY DEF TypeInv, Operations, Op
  <2>2. before = IF overlap THEN <<w>> ELSE <<>>
    OBVIOUS
  <2> QED
    BY <2>1, <2>2
<1>7. copies.issued + 0 = copies.issued /\ [copies EXCEPT !.issued = copies.issued] = copies
  BY DEF TypeInv
<1>8. /\ made' = made + 1 /\ current' = b /\ cpu' = "plan" /\ sched' = sched /\ copies' = copies
      /\ engine' = (engine \o before) \o << Op("gather", b) >>
  <2>1. Len(<<>>) = 0 /\ sched \o <<>> = sched
    BY DEF TypeInv
  <2> HIDE DEF b
  <2> QED
    BY <1>1, <1>7, <2>1 DEF Issue, WaitsFor, b
<1> HIDE DEF b
<1>9. Issues(b, before)
  BY <1>1, <1>5, <1>6, <1>8 DEF Issues
<1>10. Decodes(b, before)
  BY <1>1, <1>5, <1>8, <1>9 DEF Decodes
<1> QED
  BY <1>5, <1>6, <1>10

(* Process finishes the requests in done.                                   *)
Finishes(done) ==
  LET batch == IF overlap THEN last ELSE current
  IN  /\ cpu = "process" /\ cpu' = "schedule" /\ done \subseteq Uids
      /\ \A u \in done : /\ phase[u] # "finished" /\ <<"copied", batch.id>> \in recorded
                         /\ \E r \in batch.reqs : r.uid = u /\ r.token # Token(u, Width)
      /\ phase' = [u \in Uids |-> IF u \in done THEN "finished" ELSE phase[u]]
      /\ free' = free \o SetToSeq({row[u] : u \in done})
      /\ last' = IF overlap THEN current ELSE NoBatch
      /\ UNCHANGED <<overlap, row, cached, current, made, sched, engine, copies, pool, staging,
                     workspace, recorded, input, attended, exposed>>

(* Process finishes some requests whose tokens have reached the host.       *)
LEMMA ProcessIs ==
  ASSUME TypeInv, Process
  PROVE  \E done \in SUBSET Uids : Finishes(done)
<1> DEFINE batch == IF overlap THEN last ELSE current
           sampled == {r.uid : r \in {s \in batch.reqs : s.token # Token(s.uid, Width)}}
           ending == {u \in sampled : phase[u] # "finished"}
<1>1. /\ cpu = "process" /\ cpu' = "schedule"
      /\ batch # NoBatch => <<"copied", batch.id>> \in recorded
      /\ last' = IF overlap THEN current ELSE NoBatch
      /\ UNCHANGED <<overlap, row, cached, current, made, sched, engine, copies, pool, staging,
                     workspace, recorded, input, attended, exposed>>
  BY DEF Process
<1>2. PICK eos \in SUBSET ending :
        LET done == eos \union {u \in ending : cached[u] + 1 >= MaxLen(u)}
        IN  /\ phase' = [u \in Uids |-> IF u \in done THEN "finished" ELSE phase[u]]
            /\ free' = free \o SetToSeq({row[u] : u \in done})
  BY DEF Process
<1> DEFINE done == eos \union {u \in ending : cached[u] + 1 >= MaxLen(u)}
<1>3. done \subseteq ending
  BY <1>2
<1>4. batch \in Batches
  BY DEF TypeInv
<1>5. \A r \in batch.reqs : r.uid \in Uids
  BY <1>4 DEF Batches, Shares
<1>6. \A u \in done : /\ u \in Uids /\ phase[u] # "finished"
                      /\ \E r \in batch.reqs : r.uid = u /\ r.token # Token(u, Width)
  BY <1>3, <1>5
<1>7. \A u \in done : batch # NoBatch
  BY <1>6 DEF NoBatch
<1>8. /\ phase' = [u \in Uids |-> IF u \in done THEN "finished" ELSE phase[u]]
      /\ free' = free \o SetToSeq({row[u] : u \in done})
  BY <1>2
<1> HIDE DEF done
<1>9. Finishes(done)
  BY <1>1, <1>6, <1>7, <1>8 DEF Finishes
<1> QED
  BY <1>6, <1>9

(* Every step is one of these.                                              *)
LEMMA StepIs ==
  ASSUME TypeInv, RowInv, LengthInv, StreamsNext
  PROVE  \/ \E c \in Copies, b \in Batches : Prefills(b, c)
         \/ \E b \in Batches, before \in Seq(Operations) : Decodes(b, before)
         \/ NoBatchNow \/ ForwardBatch \/ RunScheduler \/ RunEngine
         \/ \E done \in SUBSET Uids : Finishes(done)
BY PrefillIs, DecodeIs, ProcessIs DEF StreamsNext

-----------------------------------------------------------------------------
(* What a step does to the queues                                           *)

(* A batch that is issued leaves its gathering at the end of the engine's.  *)
LEMMA IssuesAppends ==
  ASSUME TypeInv, NEW b, NEW before, Issues(b, before)
  PROVE  /\ engine' \in Seq(Operations) /\ Len(engine) \in Nat /\ Len(before) \in Nat
         /\ Len(engine') = Len(engine) + Len(before) + 1
         /\ DOMAIN engine = 1..Len(engine) /\ DOMAIN engine' = 1..Len(engine')
         /\ DOMAIN before = 1..Len(before)
         /\ \A i \in DOMAIN engine : engine'[i] = engine[i]
         /\ \A i \in DOMAIN before : engine'[Len(engine) + i] = before[i]
         /\ engine'[Len(engine')] = Op("gather", b)
         /\ \A i \in DOMAIN engine' : i > Len(engine) /\ engine'[i].op \in BatchOps =>
              i = Len(engine') /\ engine'[i].op = "gather" /\ engine'[i].arg = b
<1> DEFINE g == << Op("gather", b) >>
           e == engine \o before
<1>1. /\ before \in Seq(Operations) /\ engine' = e \o g /\ engine \in Seq(Operations)
      /\ b \in Batches /\ \A i \in DOMAIN before : before[i].op \in {"wait", "copy"}
  BY DEF Issues, TypeInv
<1>2. Op("gather", b) \in Operations /\ Op("gather", b).op = "gather" /\ Op("gather", b).arg = b
  BY <1>1 DEF Op, Operations, BatchOps
<1>3. g \in Seq(Operations) /\ Len(g) = 1 /\ g[1] = Op("gather", b)
  BY <1>2
<1> HIDE DEF g, e
<1>4. /\ e \in Seq(Operations) /\ Len(engine) \in Nat /\ Len(before) \in Nat
      /\ Len(e) = Len(engine) + Len(before)
      /\ DOMAIN engine = 1..Len(engine) /\ DOMAIN before = 1..Len(before)
      /\ DOMAIN e = 1..(Len(engine) + Len(before))
      /\ \A i \in 1..Len(engine) : e[i] = engine[i]
      /\ \A i \in 1..Len(before) : e[Len(engine) + i] = before[i]
  BY <1>1, Issued DEF e
<1>5. /\ e \o g \in Seq(Operations) /\ Len(e \o g) = Len(e) + 1
      /\ DOMAIN (e \o g) = 1..(Len(e) + 1)
      /\ \A i \in 1..Len(e) : (e \o g)[i] = e[i]
      /\ (e \o g)[Len(e) + 1] = Op("gather", b)
  <2>1. /\ e \o g \in Seq(Operations) /\ Len(e) \in Nat /\ Len(e \o g) = Len(e) + Len(g)
        /\ DOMAIN (e \o g) = 1..(Len(e) + Len(g))
        /\ \A i \in 1..Len(e) : (e \o g)[i] = e[i]
        /\ \A i \in 1..Len(g) : (e \o g)[Len(e) + i] = g[i]
    <3>1. e \in Seq(Operations) /\ g \in Seq(Operations)
      BY <1>3, <1>4
    <3> QED
      BY ONLY <3>1
  <2>2. 1 \in 1..Len(g)
    BY <1>3
  <2> QED
    BY <1>3, <2>1, <2>2
<1>6. \A i \in DOMAIN engine : engine'[i] = engine[i]
  BY <1>1, <1>4, <1>5
<1>7. \A i \in DOMAIN before : engine'[Len(engine) + i] = before[i]
  BY <1>1, <1>4, <1>5
<1>8. ASSUME NEW i \in DOMAIN engine', i > Len(engine), engine'[i].op \in BatchOps
      PROVE  i = Len(engine')
  <2>1. SUFFICES ASSUME i # Len(engine') PROVE FALSE
    OBVIOUS
  <2>2. i - Len(engine) \in DOMAIN before /\ i = Len(engine) + (i - Len(engine))
    BY <1>1, <1>4, <1>5, <1>8, <2>1
  <2>3. engine'[i] = before[i - Len(engine)]
    BY <1>7, <2>2
  <2> QED
    BY <1>1, <1>8, <2>2, <2>3 DEF BatchOps
<1> QED
  BY <1>1, <1>2, <1>4, <1>5, <1>6, <1>7, <1>8

(* The rest of the forward is four operations of the batch.                 *)
LEMMA ForwardAppends ==
  ASSUME TypeInv, ForwardBatch
  PROVE  /\ engine' \in Seq(Operations) /\ Len(engine) \in Nat
         /\ Len(engine') = Len(engine) + 4
         /\ DOMAIN engine = 1..Len(engine) /\ DOMAIN engine' = 1..Len(engine')
         /\ \A i \in DOMAIN engine : engine'[i] = engine[i]
         /\ engine'[Len(engine) + 1] = Op("h2d", current)
         /\ engine'[Len(engine) + 2] = Op("run", current)
         /\ engine'[Len(engine) + 3] = Op("sample", current)
         /\ engine'[Len(engine) + 4] = Op("write", current)
<1> DEFINE s == [i \in 1..4 |-> Op(<<"h2d", "run", "sample", "write">>[i], current)]
<1>1. \A op \in BatchOps : Op(op, current) \in Operations
  BY DEF TypeInv, Operations, Op
<1>2. s \in [1..4 -> Operations] /\ s[1] = Op("h2d", current) /\ s[2] = Op("run", current)
      /\ s[3] = Op("sample", current) /\ s[4] = Op("write", current)
  <2>1. /\ Op("h2d", current) \in Operations /\ Op("run", current) \in Operations
        /\ Op("sample", current) \in Operations /\ Op("write", current) \in Operations
    BY <1>1 DEF BatchOps
  <2>2. /\ s[1] = Op("h2d", current) /\ s[2] = Op("run", current)
        /\ s[3] = Op("sample", current) /\ s[4] = Op("write", current)
    OBVIOUS
  <2>3. \A i \in 1..4 : i = 1 \/ i = 2 \/ i = 3 \/ i = 4
    OBVIOUS
  <2>4. s = [i \in 1..4 |-> s[i]]
    OBVIOUS
  <2> HIDE DEF s
  <2> QED
    BY <2>1, <2>2, <2>3, <2>4
<1>3. s \in Seq(Operations) /\ Len(s) = 4
  <2> HIDE DEF s
  <2>1. DOMAIN s = 1..4 /\ \A i \in 1..4 : s[i] \in Operations
    BY <1>2
  <2>2. s \in Seq(Operations)
    BY <1>2, SeqDef
  <2> QED
    BY <2>1, <2>2
<1>4. engine' = engine \o s /\ engine \in Seq(Operations)
  BY DEF ForwardBatch, TypeInv
<1> HIDE DEF s
<1>5. /\ engine \o s \in Seq(Operations) /\ Len(engine) \in Nat
      /\ Len(engine \o s) = Len(engine) + Len(s)
      /\ DOMAIN engine = 1..Len(engine) /\ DOMAIN (engine \o s) = 1..(Len(engine) + Len(s))
      /\ \A i \in 1..Len(engine) : (engine \o s)[i] = engine[i]
      /\ \A i \in 1..Len(s) : (engine \o s)[Len(engine) + i] = s[i]
  <2>1. engine \in Seq(Operations) /\ s \in Seq(Operations)
    BY <1>3, <1>4
  <2> QED
    BY ONLY <2>1
<1> QED
  BY <1>2, <1>3, <1>4, <1>5

(* The queue e grows to f.                                                  *)
Grows(e, f) ==
  /\ e \in Seq(Operations) /\ f \in Seq(Operations) /\ Len(e) <= Len(f)
  /\ \A i \in DOMAIN e : f[i] = e[i]

(* A batch issued after one other operation.                                *)
LEMMA IssuesTwo ==
  ASSUME TypeInv, NEW b, NEW before, Issues(b, before)
  PROVE  Len(before) = 1 =>
           /\ Grows(engine, engine') /\ Len(engine') = Len(engine) + 2
           /\ DOMAIN engine' = 1..(Len(engine) + 2)
           /\ engine'[Len(engine) + 1] = before[1]
           /\ engine'[Len(engine) + 2] = Op("gather", b)
<1>1. /\ engine' \in Seq(Operations) /\ Len(engine) \in Nat
      /\ Len(engine') = Len(engine) + Len(before) + 1
      /\ DOMAIN engine' = 1..Len(engine') /\ DOMAIN before = 1..Len(before)
      /\ \A i \in DOMAIN engine : engine'[i] = engine[i]
      /\ \A i \in DOMAIN before : engine'[Len(engine) + i] = before[i]
      /\ engine'[Len(engine')] = Op("gather", b)
  BY IssuesAppends
<1>2. SUFFICES ASSUME Len(before) = 1
               PROVE  /\ Grows(engine, engine') /\ Len(engine') = Len(engine) + 2
                      /\ DOMAIN engine' = 1..(Len(engine) + 2)
                      /\ engine'[Len(engine) + 1] = before[1]
                      /\ engine'[Len(engine) + 2] = Op("gather", b)
  OBVIOUS
<1>3. Len(engine') = Len(engine) + 2 /\ 1 \in DOMAIN before /\ Len(engine) <= Len(engine')
  BY <1>1, <1>2
<1>4. engine \in Seq(Operations)
  BY DEF TypeInv
<1> QED
  BY <1>1, <1>2, <1>3, <1>4 DEF Grows

(* What holds before an operation holds when others are issued after.       *)
LEMMA Extended ==
  ASSUME NEW e, NEW f, Grows(e, f), NEW i \in 1..(Len(e) + 1)
  PROVE  /\ \A u, r, c : Settled(e, i, u, r, c) => Settled(f, i, u, r, c)
         /\ \A p, u, r, c : Provided(p, e, i, u, r, c) => Provided(p, f, i, u, r, c)
         /\ \A k : WaitsBefore(e, i, k) => WaitsBefore(f, i, k)
         /\ \A s, done, u, r, c : OnItsWay(s, e, done, i, u, r, c) => OnItsWay(s, f, done, i, u, r, c)
<1>1. /\ DOMAIN e = 1..Len(e) /\ DOMAIN f = 1..Len(f) /\ Len(e) \in Nat /\ Len(f) \in Nat
      /\ Len(e) <= Len(f)
  BY DEF Grows
<1>2. DOMAIN e \subseteq DOMAIN f /\ \A j \in DOMAIN f : j < i => j \in DOMAIN e
  BY <1>1
<1>3. \A j \in DOMAIN e : f[j] = e[j]
  BY DEF Grows
<1>4. ASSUME NEW u, NEW r, NEW c, Settled(e, i, u, r, c)
      PROVE  Settled(f, i, u, r, c)
  <2>1. SUFFICES ASSUME NEW j \in DOMAIN f, j < i, Touches(f[j], r, c)
                 PROVE  \/ Gives(f[j], u, r, c)
                        \/ \E k \in DOMAIN f : j < k /\ k < i /\ Gives(f[k], u, r, c)
    BY DEF Settled
  <2>2. j \in DOMAIN e /\ f[j] = e[j]
    BY <1>2, <1>3, <2>1
  <2>3. \/ Gives(e[j], u, r, c)
        \/ \E k \in DOMAIN e : j < k /\ k < i /\ Gives(e[k], u, r, c)
    BY <1>4, <2>1, <2>2 DEF Settled
  <2> QED
    BY <1>2, <1>3, <2>2, <2>3
<1>5. \A p, u, r, c : Provided(p, e, i, u, r, c) => Provided(p, f, i, u, r, c)
  BY <1>2, <1>3 DEF Provided
<1>6. \A k : WaitsBefore(e, i, k) => WaitsBefore(f, i, k)
  BY <1>2, <1>3 DEF WaitsBefore
<1> QED
  BY <1>4, <1>5, <1>6 DEF OnItsWay

(* Operations that do not touch a token leave it as it was settled.         *)
LEMMA Untouched ==
  ASSUME NEW e, NEW f, Grows(e, f), NEW i \in (Len(e) + 1)..(Len(f) + 1), NEW u, NEW r, NEW c,
         \A j \in DOMAIN f : j > Len(e) => ~ Touches(f[j], r, c),
         Settled(e, Len(e) + 1, u, r, c)
  PROVE  /\ Settled(f, i, u, r, c)
         /\ \A p : Provided(p, e, Len(e) + 1, u, r, c) => Provided(p, f, i, u, r, c)
<1>1. /\ DOMAIN e = 1..Len(e) /\ DOMAIN f = 1..Len(f) /\ Len(e) \in Nat /\ Len(f) \in Nat
      /\ Len(e) <= Len(f) /\ i \in Nat /\ i > Len(e)
  BY DEF Grows
<1>2. DOMAIN e \subseteq DOMAIN f /\ \A j \in DOMAIN e : j < i /\ j < Len(e) + 1
  BY <1>1
<1>3. \A j \in DOMAIN e : f[j] = e[j]
  BY DEF Grows
<1>4. \A j \in DOMAIN f : j \in DOMAIN e \/ j > Len(e)
  BY <1>1
<1>5. Settled(f, i, u, r, c)
  <2>1. SUFFICES ASSUME NEW j \in DOMAIN f, j < i, Touches(f[j], r, c)
                 PROVE  \/ Gives(f[j], u, r, c)
                        \/ \E k \in DOMAIN f : j < k /\ k < i /\ Gives(f[k], u, r, c)
    BY DEF Settled
  <2>2. j \in DOMAIN e /\ f[j] = e[j]
    BY <1>3, <1>4, <2>1
  <2>3. \/ Gives(e[j], u, r, c)
        \/ \E k \in DOMAIN e : j < k /\ k < Len(e) + 1 /\ Gives(e[k], u, r, c)
    BY <1>2, <2>1, <2>2 DEF Settled
  <2> QED
    BY <1>2, <1>3, <2>2, <2>3
<1>6. \A p : Provided(p, e, Len(e) + 1, u, r, c) => Provided(p, f, i, u, r, c)
  BY <1>2, <1>3 DEF Provided
<1> QED
  BY <1>5, <1>6

(* What gives a token touches it.                                           *)
LEMMA GivesTouches ==
  \A op, u, r, c : Gives(op, u, r, c) => Touches(op, r, c)
BY DEF Gives, Touches

(* When the first operation is executed the others come one place nearer.   *)
LEMMA Nearer ==
  ASSUME NEW e \in Seq(Operations), e # <<>>, NEW i \in Nat \ {0}
  PROVE  /\ \A u, r, c : Settled(e, i + 1, u, r, c) => Settled(Tail(e), i, u, r, c)
         /\ \A k \in Nat : WaitsBefore(e, i + 1, k) =>
              \/ WaitsBefore(Tail(e), i, k)
              \/ Head(e).op = "wait" /\ Head(e).arg >= k
         /\ \A p, u, r, c : Provided(p, e, i + 1, u, r, c) =>
              \/ Provided(p, Tail(e), i, u, r, c)
              \/ Gives(Head(e), u, r, c)
         /\ \A u, r, c : Settled(e, i + 1, u, r, c) /\ Touches(Head(e), r, c) =>
              \/ Gives(Head(e), u, r, c)
              \/ \A p : Provided(p, Tail(e), i, u, r, c)
<1> PICK f : f = Tail(e)
  OBVIOUS
<1>1. /\ Len(e) \in Nat /\ Len(e) > 0 /\ DOMAIN e = 1..Len(e) /\ DOMAIN f = 1..(Len(e) - 1)
      /\ Head(e) = e[1] /\ \A j \in 1..(Len(e) - 1) : f[j] = e[j + 1]
  BY Executed
<1>2. \A j \in DOMAIN f : j \in Nat /\ j + 1 \in DOMAIN e /\ f[j] = e[j + 1]
  BY <1>1
<1>3. \A j \in DOMAIN e : j \in Nat /\ (j = 1 \/ (j - 1 \in DOMAIN f /\ f[j - 1] = e[j]))
  BY <1>1
<1>4. ASSUME NEW u, NEW r, NEW c, Settled(e, i + 1, u, r, c)
      PROVE  Settled(f, i, u, r, c)
  <2>1. SUFFICES ASSUME NEW j \in DOMAIN f, j < i, Touches(f[j], r, c)
                 PROVE  \/ Gives(f[j], u, r, c)
                        \/ \E k \in DOMAIN f : j < k /\ k < i /\ Gives(f[k], u, r, c)
    BY DEF Settled
  <2>2. j + 1 \in DOMAIN e /\ f[j] = e[j + 1] /\ j \in Nat /\ j + 1 < i + 1
    BY <1>2, <2>1
  <2>3. \/ Gives(e[j + 1], u, r, c)
        \/ \E k \in DOMAIN e : j + 1 < k /\ k < i + 1 /\ Gives(e[k], u, r, c)
    BY <1>4, <2>1, <2>2 DEF Settled
  <2>4. SUFFICES ASSUME NEW k \in DOMAIN e, j + 1 < k, k < i + 1, Gives(e[k], u, r, c)
                 PROVE  \E l \in DOMAIN f : j < l /\ l < i /\ Gives(f[l], u, r, c)
    BY <2>2, <2>3
  <2>5. k \in Nat /\ k - 1 \in DOMAIN f /\ f[k - 1] = e[k]
    BY <1>3, <2>2, <2>4
  <2>6. j < k - 1 /\ k - 1 < i
    <3>1. j \in Nat /\ k \in Nat /\ i \in Nat /\ j + 1 < k /\ k < i + 1
      BY <2>2, <2>4, <2>5
    <3> QED
      BY ONLY <3>1
  <2> QED
    BY <2>4, <2>5, <2>6
<1>5. ASSUME NEW k \in Nat, WaitsBefore(e, i + 1, k)
      PROVE  WaitsBefore(f, i, k) \/ (Head(e).op = "wait" /\ Head(e).arg >= k)
  <2>1. PICK j \in DOMAIN e : j < i + 1 /\ e[j].op = "wait" /\ e[j].arg >= k
    BY <1>5 DEF WaitsBefore
  <2>2. CASE j = 1
    BY <1>1, <2>1, <2>2
  <2>3. CASE j # 1
    <3>1. j - 1 \in DOMAIN f /\ f[j - 1] = e[j] /\ j - 1 < i
      BY <1>3, <2>1, <2>3
    <3> QED
      BY <2>1, <3>1 DEF WaitsBefore
  <2> QED
    BY <2>2, <2>3
<1>6. ASSUME NEW p, NEW u, NEW r, NEW c, Provided(p, e, i + 1, u, r, c)
      PROVE  Provided(p, f, i, u, r, c) \/ Gives(Head(e), u, r, c)
  <2>1. CASE p[r][c] = Token(u, c)
    BY <2>1 DEF Provided
  <2>2. CASE \E j \in DOMAIN e : j < i + 1 /\ Gives(e[j], u, r, c)
    <3>1. PICK j \in DOMAIN e : j < i + 1 /\ Gives(e[j], u, r, c)
      BY <2>2
    <3>2. CASE j = 1
      BY <1>1, <3>1, <3>2
    <3>3. CASE j # 1
      <4>1. j - 1 \in DOMAIN f /\ f[j - 1] = e[j] /\ j - 1 < i
        BY <1>3, <3>1, <3>3
      <4> QED
        BY <3>1, <4>1 DEF Provided
    <3> QED
      BY <3>2, <3>3
  <2> QED
    BY <1>6, <2>1, <2>2 DEF Provided
<1>7. ASSUME NEW u, NEW r, NEW c, Settled(e, i + 1, u, r, c), Touches(Head(e), r, c),
             ~ Gives(Head(e), u, r, c), NEW p
      PROVE  Provided(p, f, i, u, r, c)
  <2>1. 1 \in DOMAIN e /\ 1 < i + 1
    BY <1>1
  <2>2. PICK k \in DOMAIN e : 1 < k /\ k < i + 1 /\ Gives(e[k], u, r, c)
    BY <1>1, <1>7, <2>1 DEF Settled
  <2>3. k - 1 \in DOMAIN f /\ f[k - 1] = e[k] /\ k - 1 < i
    BY <1>3, <2>2
  <2> QED
    BY <2>2, <2>3 DEF Provided
<1> QED
  BY <1>4, <1>5, <1>6, <1>7

(* A prompt copy writes the tokens of its positions.                        *)
LEMMA CopyEffect ==
  ASSUME TypeInv, NEW k \in Copies, pool' = CopyTo(k)
  PROVE  /\ DOMAIN pool' = Rows /\ \A r \in Rows : DOMAIN pool'[r] = 0..Width - 1
         /\ \A r \in Rows, c \in 0..Width - 1 :
              pool'[r][c] = IF r = k.row /\ c \in k.from..k.to - 1 THEN Token(k.uid, c)
                            ELSE pool[r][c]
<1>1. DOMAIN pool = Rows /\ (\A r \in Rows : DOMAIN pool[r] = 0..Width - 1) /\ k.row \in Rows
  BY DEF TypeInv, Copies
<1> DEFINE new == [at \in DOMAIN pool[k.row] |->
                     IF at \in k.from..k.to - 1 THEN Token(k.uid, at) ELSE pool[k.row][at]]
<1>2. pool' = [pool EXCEPT ![k.row] = new]
  BY DEF CopyTo
<1>3. DOMAIN new = 0..Width - 1
  BY <1>1
<1>4. \A c \in 0..Width - 1 :
        new[c] = IF c \in k.from..k.to - 1 THEN Token(k.uid, c) ELSE pool[k.row][c]
  BY <1>1
<1> HIDE DEF new
<1>5. DOMAIN pool' = Rows /\ \A r \in Rows : pool'[r] = IF r = k.row THEN new ELSE pool[r]
  BY <1>1, <1>2
<1> QED
  BY <1>1, <1>3, <1>4, <1>5

(* The pool once the sampled tokens of b are written.                       *)
Written(b) ==
  [r \in DOMAIN pool |-> [c \in DOMAIN pool[r] |->
     LET to == {q \in b.reqs : q.row = r /\ q.out = c}
     IN  IF to = {} THEN pool[r][c] ELSE (CHOOSE q \in to : TRUE).token]]

(* Each is in its row.                                                      *)
LEMMA WriteEffect ==
  ASSUME TypeInv, NEW b \in Batches, \A p, q \in b.reqs : p.row = q.row => p = q,
         pool' = Written(b)
  PROVE  /\ DOMAIN pool' = Rows /\ \A r \in Rows : DOMAIN pool'[r] = 0..Width - 1
         /\ \A r \in Rows, c \in 0..Width - 1 :
              /\ \A q \in b.reqs : q.row = r /\ q.out = c => pool'[r][c] = q.token
              /\ (~ \E q \in b.reqs : q.row = r /\ q.out = c) => pool'[r][c] = pool[r][c]
<1>1. DOMAIN pool = Rows /\ (\A r \in Rows : DOMAIN pool[r] = 0..Width - 1)
  BY DEF TypeInv
<1> DEFINE to(r, c) == {q \in b.reqs : q.row = r /\ q.out = c}
<1>2. DOMAIN pool' = Rows /\ \A r \in Rows : DOMAIN pool'[r] = 0..Width - 1
  BY <1>1 DEF Written
<1>3. \A r \in Rows, c \in 0..Width - 1 :
        pool'[r][c] = IF to(r, c) = {} THEN pool[r][c] ELSE (CHOOSE q \in to(r, c) : TRUE).token
  BY <1>1 DEF Written
<1>4. ASSUME NEW r \in Rows, NEW c \in 0..Width - 1
      PROVE  /\ \A q \in b.reqs : q.row = r /\ q.out = c => pool'[r][c] = q.token
             /\ (~ \E q \in b.reqs : q.row = r /\ q.out = c) => pool'[r][c] = pool[r][c]
  <2>1. \A q : q \in to(r, c) <=> q \in b.reqs /\ q.row = r /\ q.out = c
    OBVIOUS
  <2> HIDE DEF to
  <2>2. pool'[r][c] = IF to(r, c) = {} THEN pool[r][c] ELSE (CHOOSE q \in to(r, c) : TRUE).token
    BY <1>3, <1>4
  <2>3. to(r, c) # {} => (CHOOSE q \in to(r, c) : TRUE) \in to(r, c)
    OBVIOUS
  <2> QED
    BY <2>1, <2>2, <2>3
<1> QED
  BY <1>2, <1>4

(* The operations of the queues, and that what they write is in the pool.   *)
LEMMA OperationTypes ==
  ASSUME NEW op \in Operations
  PROVE  /\ op.op = "copy" => op.arg \in Copies
         /\ op.op \in BatchOps => op.arg \in Batches
         /\ op.op = "wait" => op.arg \in Nat
         /\ op.op \in {"wait", "copy"} \union BatchOps
BY DEF Operations, CopyOps, BatchOps

(* What executing the first operation does to the pool.                     *)
LEMMA EngineEffect ==
  ASSUME TypeInv, BatchInv, RunEngine
  PROVE  /\ engine # <<>> /\ engine' = Tail(engine) /\ Head(engine) \in Operations
         /\ UNCHANGED <<overlap, phase, row, cached, free, cpu, last, current, made, sched, copies,
                        staging, exposed>>
         /\ DOMAIN pool' = Rows /\ \A r \in Rows : DOMAIN pool'[r] = 0..Width - 1
         /\ \A u, r, c : r \in Rows /\ c \in 0..Width - 1 =>
              /\ Gives(Head(engine), u, r, c) => pool'[r][c] = Token(u, c)
              /\ ~ Touches(Head(engine), r, c) => pool'[r][c] = pool[r][c]
         /\ Head(engine).op = "wait" => Head(engine).arg <= copies.done
<1>1. /\ engine # <<>> /\ engine' = Tail(engine)
      /\ UNCHANGED <<overlap, phase, row, cached, free, cpu, last, current, made, sched, copies,
                     staging, exposed>>
      /\ Head(engine).op = "wait" => Head(engine).arg <= copies.done
      /\ \/ pool' = pool /\ Head(engine).op \notin {"copy", "write"}
         \/ Head(engine).op = "copy" /\ pool' = CopyTo(Head(engine).arg)
         \/ /\ Head(engine).op = "write"
            /\ pool' = Written(Head(engine).arg)
  BY DEF RunEngine, Executes, Now, Written
<1> PICK h : h = Head(engine)
  OBVIOUS
<1>2. h \in Operations /\ engine[1] = h /\ 1 \in DOMAIN engine
  BY <1>1, Executed DEF TypeInv
<1>3. CASE pool' = pool /\ h.op \notin {"copy", "write"}
  BY <1>1, <1>2, <1>3 DEF TypeInv, Gives
<1>4. CASE h.op = "copy" /\ pool' = CopyTo(h.arg)
  <2> PICK k : k = h.arg
    OBVIOUS
  <2>1. k \in Copies
    BY <1>2, <1>4, OperationTypes
  <2>2. /\ DOMAIN pool' = Rows /\ \A r \in Rows : DOMAIN pool'[r] = 0..Width - 1
        /\ \A r \in Rows, c \in 0..Width - 1 :
             pool'[r][c] = IF r = k.row /\ c \in k.from..k.to - 1 THEN Token(k.uid, c)
                           ELSE pool[r][c]
    BY <1>4, <2>1, CopyEffect
  <2> QED
    BY <1>1, <1>2, <1>4, <2>2 DEF Gives, Touches
<1>5. CASE /\ h.op = "write"
           /\ pool' = Written(h.arg)
  <2> PICK b : b = h.arg
    OBVIOUS
  <2>1. b \in Batches /\ \A p, q \in b.reqs : p.row = q.row => p = q
    BY <1>2, <1>5, OperationTypes DEF BatchInv, IsBatch, BatchOps
  <2>2. /\ DOMAIN pool' = Rows /\ \A r \in Rows : DOMAIN pool'[r] = 0..Width - 1
        /\ \A r \in Rows, c \in 0..Width - 1 :
             /\ \A q \in b.reqs : q.row = r /\ q.out = c => pool'[r][c] = q.token
             /\ (~ \E q \in b.reqs : q.row = r /\ q.out = c) => pool'[r][c] = pool[r][c]
    BY <1>5, <2>1, WriteEffect
  <2>3. ASSUME NEW u, NEW r \in Rows, NEW c \in 0..Width - 1
        PROVE  /\ Gives(h, u, r, c) => pool'[r][c] = Token(u, c)
               /\ ~ Touches(h, r, c) => pool'[r][c] = pool[r][c]
    <3>1. Gives(h, u, r, c) => \E q \in b.reqs : q.row = r /\ q.out = c /\ q.token = Token(u, c)
      BY <1>5 DEF Gives
    <3>2. ~ Touches(h, r, c) => ~ \E q \in b.reqs : q.row = r /\ q.out = c
      BY <1>5 DEF Touches
    <3> QED
      BY <2>2, <3>1, <3>2
  <2> QED
    BY <1>1, <1>2, <2>2, <2>3
<1> QED
  BY <1>1, <1>3, <1>4, <1>5

(* What executing a prompt copy does.                                       *)
LEMMA SchedulerEffect ==
  ASSUME TypeInv, RunScheduler
  PROVE  /\ sched # <<>> /\ sched' = Tail(sched) /\ Head(sched) \in CopyOps
         /\ copies' = [copies EXCEPT !.done = copies.done + 1]
         /\ UNCHANGED <<overlap, phase, row, cached, free, cpu, last, current, made, engine, staging,
                        workspace, recorded, input, attended, exposed>>
         /\ DOMAIN pool' = Rows /\ \A r \in Rows : DOMAIN pool'[r] = 0..Width - 1
         /\ \A u, r, c : r \in Rows /\ c \in 0..Width - 1 =>
              /\ Gives(Head(sched), u, r, c) => pool'[r][c] = Token(u, c)
              /\ ~ Touches(Head(sched), r, c) => pool'[r][c] = pool[r][c]
<1>1. /\ sched # <<>> /\ sched' = Tail(sched) /\ pool' = CopyTo(Head(sched).arg)
      /\ copies' = [copies EXCEPT !.done = copies.done + 1]
      /\ UNCHANGED <<overlap, phase, row, cached, free, cpu, last, current, made, engine, staging,
                     workspace, recorded, input, attended, exposed>>
  BY DEF RunScheduler
<1> PICK h : h = Head(sched)
  OBVIOUS
<1>2. h \in CopyOps
  BY <1>1, Executed DEF TypeInv
<1> PICK k : k = h.arg
  OBVIOUS
<1>3. k \in Copies /\ h.op = "copy"
  BY <1>2 DEF CopyOps
<1>4. /\ DOMAIN pool' = Rows /\ \A r \in Rows : DOMAIN pool'[r] = 0..Width - 1
      /\ \A r \in Rows, c \in 0..Width - 1 :
           pool'[r][c] = IF r = k.row /\ c \in k.from..k.to - 1 THEN Token(k.uid, c)
                         ELSE pool[r][c]
  BY <1>1, <1>3, CopyEffect
<1> QED
  BY <1>1, <1>2, <1>3, <1>4 DEF Gives, Touches

-----------------------------------------------------------------------------
(* The invariant, step by step                                              *)

(* It holds at the start.                                                   *)
LEMMA StreamsInitInv ==
  ASSUME StreamsInit
  PROVE  StreamsInv
<1>1. /\ overlap \in BOOLEAN
      /\ phase = [u \in Uids |-> "waiting"]
      /\ row = [u \in Uids |-> 0] /\ cached = [u \in Uids |-> 0]
      /\ free = [i \in 1..NumRows |-> i]
      /\ cpu = "schedule" /\ last = NoBatch /\ current = NoBatch /\ made = 0
      /\ sched = <<>> /\ engine = <<>> /\ copies = [done |-> 0, issued |-> 0]
      /\ pool = [r \in 1..NumRows |-> [c \in 0..Width - 1 |-> <<>>]]
      /\ staging = 0 /\ recorded = {} /\ input = {} /\ attended = [batch |-> 0, plan |-> 0]
  BY DEF StreamsInit
<1>2. DOMAIN engine = {} /\ DOMAIN sched = {} /\ Len(sched) = 0
  BY <1>1
<1>3. \A u \in Uids : phase[u] = "waiting" /\ cached[u] = 0
  BY <1>1
<1>4. NoBatch \in Batches /\ NoBatch.id = 0 /\ NoBatch.reqs = {}
  BY DEF NoBatch, Batches
<1>5. Holders = {}
  BY <1>3 DEF Holders
<1>6. free \in Seq(Rows) /\ \A i, j \in DOMAIN free : free[i] = free[j] => i = j
  <2>1. free \in [1..NumRows -> Rows] /\ \A i \in DOMAIN free : free[i] = i
    BY <1>1 DEF Rows
  <2> QED
    BY <2>1, SeqDef, StreamsAssumptions
<1>7. TypeInv
  <2>1. /\ phase \in [Uids -> Phases] /\ row \in [Uids -> Nat] /\ cached \in [Uids -> Nat]
    BY <1>1 DEF Phases
  <2>2. sched \in Seq(CopyOps) /\ engine \in Seq(Operations)
    BY <1>1
  <2>3. copies \in [done : Nat, issued : Nat]
    BY <1>1
  <2>4. DOMAIN pool = Rows /\ \A r \in Rows : DOMAIN pool[r] = 0..Width - 1
    BY <1>1 DEF Rows
  <2> QED
    BY <1>1, <1>4, <1>6, <2>1, <2>2, <2>3, <2>4 DEF TypeInv
<1>8. RowInv
  BY <1>5, <1>6 DEF RowInv
<1>9. LengthInv
  BY <1>3 DEF LengthInv
<1>10. BatchInv
  BY <1>1, <1>2, <1>4 DEF BatchInv, IsBatch
<1>11. PlanInv
  BY <1>1, <1>2 DEF PlanInv
<1>12. CopyInv
  BY <1>1, <1>2 DEF CopyInv
<1>13. OwnInv
  BY <1>2 DEF OwnInv
<1>14. NextInv
  BY <1>5 DEF NextInv
<1>15. GatherInv
  BY <1>2 DEF GatherInv
<1>16. InputInv
  BY <1>1 DEF InputInv
<1> QED
  BY <1>7, <1>8, <1>9, <1>10, <1>11, <1>12, <1>13, <1>14, <1>15, <1>16 DEF StreamsInv

(* Whom Process finishes had a row, and its last prompt token in a batch.   *)
LEMMA FinishedIs ==
  ASSUME TypeInv, BatchInv, NEW done, Finishes(done), NEW u \in done
  PROVE  /\ u \in Holders /\ phase[u] # "chunked"
         /\ \E b \in {last, current} : /\ <<"copied", b.id>> \in recorded
                                       /\ \E r \in b.reqs : r.uid = u /\ Prompts[u] <= r.to
<1> DEFINE batch == IF overlap THEN last ELSE current
<1>1. /\ u \in Uids /\ phase[u] # "finished" /\ <<"copied", batch.id>> \in recorded
      /\ \E r \in batch.reqs : r.uid = u /\ r.token # Token(u, Width)
  BY DEF Finishes
<1>2. PICK r \in batch.reqs : r.uid = u /\ r.token # Token(u, Width)
  BY <1>1
<1>3. batch \in {last, current} /\ IsShare(r)
  BY <1>2 DEF BatchInv, IsBatch
<1>4. phase[u] # "waiting" /\ phase[u] # "chunked" /\ Prompts[u] <= r.to
  BY <1>2, <1>3 DEF IsShare
<1> QED
  BY <1>1, <1>2, <1>3, <1>4 DEF Holders

(* The types hold on.                                                       *)
LEMMA TypeStep ==
  ASSUME StreamsInv, [StreamsNext]_stream_vars
  PROVE  TypeInv'
<1> USE DEF StreamsInv
<1>1. CASE UNCHANGED stream_vars
  BY <1>1 DEF TypeInv, stream_vars
<1>2. ASSUME NEW c \in Copies, NEW b \in Batches, Prefills(b, c)
      PROVE  TypeInv'
  <2>1. PICK before : Issues(b, before)
    BY <1>2 DEF Prefills
  <2>2. /\ overlap' \in BOOLEAN /\ cpu' = "plan" /\ last' \in Batches /\ current' \in Batches
        /\ made' \in Nat /\ staging' \in Nat /\ pool' = pool
    BY <2>1 DEF Issues, TypeInv
  <2>3. engine' \in Seq(Operations)
    BY <2>1, IssuesAppends
  <2>4. /\ phase' \in [Uids -> Phases] /\ row' \in [Uids -> Nat] /\ cached' \in [Uids -> Nat]
    <3>1. c.row \in Nat /\ c.to \in Nat /\ c.uid \in Uids
      BY DEF Copies, Rows
    <3> QED
      BY <1>2, <3>1 DEF Prefills, TypeInv, Phases
  <2>5. free' \in Seq(Rows)
    <3>1. CASE free' = free
      BY <3>1 DEF TypeInv
    <3>2. CASE free # <<>> /\ free' = SubSeq(free, 1, Len(free) - 1)
      BY <3>2 DEF TypeInv
    <3> QED
      BY <1>2, <3>1, <3>2 DEF Prefills, GetsRow
  <2>6. sched' \in Seq(CopyOps) /\ copies' \in [done : Nat, issued : Nat]
    <3>1. CASE UNCHANGED <<sched, copies>>
      BY <3>1 DEF TypeInv
    <3>2. CASE /\ sched' = sched \o << Op("copy", c) >>
               /\ copies' = [copies EXCEPT !.issued = copies.issued + 1]
      <4>1. Op("copy", c) \in CopyOps
        BY DEF CopyOps, Op
      <4>2. sched' \in Seq(CopyOps)
        BY <3>2, <4>1 DEF TypeInv
      <4>3. copies' \in [done : Nat, issued : Nat]
        <5>1. copies \in [done : Nat, issued : Nat] /\ copies.issued + 1 \in Nat
          BY DEF TypeInv
        <5> QED
          BY <3>2, <5>1
      <4> QED
        BY <4>2, <4>3
    <3> QED
      BY <1>2, <3>1, <3>2 DEF Prefills
  <2>7. DOMAIN pool' = Rows /\ \A r \in Rows : DOMAIN pool'[r] = 0..Width - 1
    BY <2>2 DEF TypeInv
  <2> QED
    BY <2>2, <2>3, <2>4, <2>5, <2>6, <2>7 DEF TypeInv
<1>3. ASSUME NEW b \in Batches, NEW before \in Seq(Operations), Decodes(b, before)
      PROVE  TypeInv'
  <2>1. Issues(b, before)
    BY <1>3 DEF Decodes
  <2>2. /\ overlap' \in BOOLEAN /\ cpu' = "plan" /\ last' \in Batches /\ current' \in Batches
        /\ made' \in Nat /\ staging' \in Nat /\ pool' = pool
    BY <2>1 DEF Issues, TypeInv
  <2>3. engine' \in Seq(Operations)
    BY <2>1, IssuesAppends
  <2>4. cached' \in [Uids -> Nat] /\ UNCHANGED <<phase, row, free, sched, copies>>
    BY <1>3 DEF Decodes, TypeInv
  <2>5. DOMAIN pool' = Rows /\ \A r \in Rows : DOMAIN pool'[r] = 0..Width - 1
    BY <2>2 DEF TypeInv
  <2> QED
    BY <2>2, <2>3, <2>4, <2>5 DEF TypeInv
<1>4. CASE NoBatchNow
  <2>1. NoBatch \in Batches
    BY DEF NoBatch, Batches
  <2> QED
    BY <1>4, <2>1 DEF NoBatchNow, TypeInv
<1>5. CASE ForwardBatch
  <2>1. engine' \in Seq(Operations)
    BY <1>5, ForwardAppends
  <2>2. phase' \in [Uids -> Phases]
    BY <1>5 DEF ForwardBatch, TypeInv, Phases
  <2>3. staging' \in Nat /\ cpu' = "process"
    BY <1>5 DEF ForwardBatch, TypeInv, Batches
  <2>4. UNCHANGED <<overlap, row, cached, free, last, current, made, sched, copies, pool>>
    BY <1>5 DEF ForwardBatch
  <2> QED
    BY <2>1, <2>2, <2>3, <2>4 DEF TypeInv
<1>6. CASE RunScheduler
  <2>1. /\ sched' = Tail(sched) /\ sched # <<>>
        /\ copies' = [copies EXCEPT !.done = copies.done + 1]
        /\ UNCHANGED <<overlap, phase, row, cached, free, cpu, last, current, made, engine, staging>>
        /\ DOMAIN pool' = Rows /\ \A r \in Rows : DOMAIN pool'[r] = 0..Width - 1
    BY <1>6, SchedulerEffect
  <2>2. sched' \in Seq(CopyOps)
    BY <2>1 DEF TypeInv
  <2>3. copies' \in [done : Nat, issued : Nat]
    <3>1. copies \in [done : Nat, issued : Nat] /\ copies.done + 1 \in Nat
      BY DEF TypeInv
    <3> QED
      BY <2>1, <3>1
  <2> QED
    BY <2>1, <2>2, <2>3 DEF TypeInv
<1>7. CASE RunEngine
  <2>1. /\ engine' = Tail(engine) /\ engine # <<>>
        /\ UNCHANGED <<overlap, phase, row, cached, free, cpu, last, current, made, sched, copies,
                       staging>>
        /\ DOMAIN pool' = Rows /\ \A r \in Rows : DOMAIN pool'[r] = 0..Width - 1
    BY <1>7, EngineEffect
  <2>2. engine' \in Seq(Operations)
    BY <2>1 DEF TypeInv
  <2> QED
    BY <2>1, <2>2 DEF TypeInv
<1>8. ASSUME NEW done \in SUBSET Uids, Finishes(done)
      PROVE  TypeInv'
  <2>1. /\ cpu' = "schedule" /\ last' \in Batches
        /\ UNCHANGED <<overlap, row, cached, current, made, sched, engine, copies, pool, staging>>
    <3>1. NoBatch \in Batches
      BY DEF NoBatch, Batches
    <3> QED
      BY <1>8, <3>1 DEF Finishes, TypeInv
  <2>2. phase' \in [Uids -> Phases]
    BY <1>8 DEF Finishes, TypeInv, Phases
  <2>3. free' \in Seq(Rows)
    <3> DEFINE S == {row[u] : u \in done}
    <3>1. S \subseteq Rows
      <4>1. \A u \in done : u \in Holders
        BY <1>8, FinishedIs
      <4> QED
        BY <4>1 DEF RowInv
    <3>2. IsFiniteSet(S)
      <4>1. IsFiniteSet(Rows)
        BY StreamsAssumptions, FS_Interval DEF Rows
      <4> HIDE DEF S
      <4> QED
        BY <3>1, <4>1, FS_Subset
    <3>3. free' = free \o SetToSeq(S)
      BY <1>8 DEF Finishes
    <3> HIDE DEF S
    <3>4. SetToSeq(S) \in Seq(S)
      BY <3>2, SeqOfSet
    <3>5. SetToSeq(S) \in Seq(Rows)
      BY <3>1, <3>4, SeqMonotonic
    <3> QED
      BY <3>3, <3>5 DEF TypeInv
  <2> QED
    BY <2>1, <2>2, <2>3 DEF TypeInv
<1> QED
  BY <1>1, <1>2, <1>3, <1>4, <1>5, <1>6, <1>7, <1>8, StepIs

(* The request of a prompt copy, and its row.                               *)
LEMMA PrefillMoves ==
  ASSUME TypeInv, RowInv, NEW c \in Copies, NEW b \in Batches, Prefills(b, c)
  PROVE  /\ c.uid \in Uids /\ c.row \in Rows
         /\ \A u \in Uids : u # c.uid =>
              /\ phase'[u] = phase[u] /\ row'[u] = row[u] /\ cached'[u] = cached[u]
         /\ phase'[c.uid] \in {"prefilled", "chunked"} /\ row'[c.uid] = c.row
         /\ cached'[c.uid] = c.to /\ cached[c.uid] < c.to
         /\ phase'[c.uid] = IF c.to = Prompts[c.uid] THEN "prefilled" ELSE "chunked"
         /\ Holders' = Holders \union {c.uid} /\ \A u \in Holders : row'[u] = row[u]
         /\ \A u \in Holders : row[u] = c.row => u = c.uid
<1>1. c.uid \in Uids /\ c.row \in Rows
  BY DEF Copies
<1>2. /\ row' = [row EXCEPT ![c.uid] = c.row]
      /\ phase' = [phase EXCEPT ![c.uid] = IF c.to = Prompts[c.uid] THEN "prefilled" ELSE "chunked"]
      /\ cached' = [cached EXCEPT ![c.uid] = c.to] /\ cached[c.uid] < c.to
      /\ GetsRow(c.uid, c.row) /\ phase[c.uid] \in {"waiting", "chunked"}
  BY DEF Prefills
<1>3. \A u \in Uids : u # c.uid =>
        /\ phase'[u] = phase[u] /\ row'[u] = row[u] /\ cached'[u] = cached[u]
  BY <1>2 DEF TypeInv
<1>4. /\ phase'[c.uid] = IF c.to = Prompts[c.uid] THEN "prefilled" ELSE "chunked"
      /\ row'[c.uid] = c.row /\ cached'[c.uid] = c.to
  BY <1>1, <1>2 DEF TypeInv
<1>5. Holders' = Holders \union {c.uid}
  BY <1>1, <1>3, <1>4 DEF Holders
<1>6. ASSUME NEW u \in Holders, row[u] = c.row
      PROVE  u = c.uid
  <2>1. CASE phase[c.uid] = "chunked" /\ c.row = row[c.uid]
    BY <1>1, <1>6, <2>1 DEF RowInv, Holders
  <2>2. CASE free # <<>> /\ c.row = free[Len(free)]
    <3>1. Len(free) \in DOMAIN free
      BY <2>2 DEF TypeInv
    <3> QED
      BY <1>6, <2>2, <3>1 DEF RowInv
  <2> QED
    BY <1>2, <2>1, <2>2 DEF GetsRow
<1>7. ASSUME NEW u \in Holders
      PROVE  row'[u] = row[u]
  <2>1. u \in Uids
    BY DEF Holders
  <2>2. CASE u = c.uid
    <3>1. phase[c.uid] = "chunked"
      BY <1>2, <2>2 DEF Holders
    <3> QED
      BY <1>2, <1>4, <2>2, <3>1 DEF GetsRow
  <2>3. CASE u # c.uid
    BY <1>3, <2>1, <2>3
  <2> QED
    BY <2>2, <2>3
<1> QED
  BY <1>1, <1>2, <1>3, <1>4, <1>5, <1>6, <1>7

(* No row is had twice, as requests come and go.                            *)
LEMMA RowStep ==
  ASSUME StreamsInv, [StreamsNext]_stream_vars
  PROVE  RowInv'
<1> USE DEF StreamsInv
<1>1. ASSUME Holders' = Holders, UNCHANGED <<row, free>>
      PROVE  RowInv'
  BY <1>1 DEF RowInv
<1>2. CASE UNCHANGED stream_vars
  BY <1>1, <1>2 DEF stream_vars, Holders
<1>3. ASSUME NEW c \in Copies, NEW b \in Batches, Prefills(b, c)
      PROVE  RowInv'
  <2>1. /\ c.uid \in Uids /\ c.row \in Rows /\ row'[c.uid] = c.row
        /\ Holders' = Holders \union {c.uid} /\ \A u \in Holders : row'[u] = row[u]
        /\ \A u \in Holders : row[u] = c.row => u = c.uid
    BY <1>3, PrefillMoves
  <2>2. \A u, v \in Holders' : row'[u] = row'[v] => u = v
    BY <2>1 DEF RowInv
  <2>3. \A u \in Holders' : row'[u] \in Rows
    BY <2>1 DEF RowInv
  <2>4. CASE free' = free /\ phase[c.uid] = "chunked"
    <3>1. c.uid \in Holders
      BY <2>1, <2>4 DEF Holders
    <3> QED
      BY <2>1, <2>2, <2>3, <2>4, <3>1 DEF RowInv
  <2>5. CASE free # <<>> /\ c.row = free[Len(free)] /\ free' = SubSeq(free, 1, Len(free) - 1)
    <3>1. /\ Len(free) \in DOMAIN free /\ DOMAIN free' \subseteq DOMAIN free
          /\ Len(free) \notin DOMAIN free' /\ \A i \in DOMAIN free' : free'[i] = free[i]
      BY <2>5 DEF TypeInv
    <3>2. \A i, j \in DOMAIN free' : free'[i] = free'[j] => i = j
      BY <3>1 DEF RowInv
    <3>3. \A i \in DOMAIN free' : free'[i] # c.row
      BY <2>5, <3>1 DEF RowInv
    <3>4. \A u \in Holders' : \A i \in DOMAIN free' : free'[i] # row'[u]
      BY <2>1, <3>1, <3>3 DEF RowInv
    <3> QED
      BY <2>2, <2>3, <3>2, <3>4 DEF RowInv
  <2> QED
    BY <1>3, <2>4, <2>5 DEF Prefills, GetsRow
<1>4. ASSUME NEW b \in Batches, NEW before \in Seq(Operations), Decodes(b, before)
      PROVE  RowInv'
  BY <1>1, <1>4 DEF Decodes, Holders
<1>5. CASE NoBatchNow
  BY <1>1, <1>5 DEF NoBatchNow, Holders
<1>6. CASE ForwardBatch
  <2>1. UNCHANGED <<row, free>>
    BY <1>6 DEF ForwardBatch
  <2>2. \A r \in current.reqs : r.uid \in Holders
    BY <1>6 DEF ForwardBatch, BatchInv
  <2>3. \A u \in Uids : \/ phase'[u] = phase[u]
                        \/ u \in Holders /\ phase'[u] \in {"running", "last"}
    BY <1>6, <2>2 DEF ForwardBatch
  <2>4. Holders' = Holders
    BY <2>3 DEF Holders
  <2> QED
    BY <1>1, <2>1, <2>4
<1>7. CASE RunScheduler
  BY <1>1, <1>7, SchedulerEffect DEF Holders
<1>8. CASE RunEngine
  BY <1>1, <1>8, EngineEffect DEF Holders
<1>9. ASSUME NEW done \in SUBSET Uids, Finishes(done)
      PROVE  RowInv'
  <2> DEFINE S == {row[u] : u \in done}
             q == SetToSeq(S)
  <2>1. \A u \in done : u \in Holders
    BY <1>9, FinishedIs
  <2>2. row' = row /\ free' = free \o q /\ Holders' = Holders \ done
    BY <1>9 DEF Finishes, Holders, TypeInv
  <2>3. S \subseteq Rows
    BY <2>1 DEF RowInv
  <2>4. q \in Seq(S) /\ \A i, j \in DOMAIN q : q[i] = q[j] => i = j
    <3>1. IsFiniteSet(S)
      <4>1. IsFiniteSet(Rows)
        BY StreamsAssumptions, FS_Interval DEF Rows
      <4> HIDE DEF S
      <4> QED
        BY <2>3, <4>1, FS_Subset
    <3> HIDE DEF S
    <3> QED
      BY <3>1, SeqOfSet
  <2>5. \A s \in S : \E u \in done : s = row[u]
    OBVIOUS
  <2> HIDE DEF S, q
  <2>6. q \in Seq(Rows) /\ \A i \in DOMAIN q : q[i] \in S
    BY <2>3, <2>4, SeqMonotonic
  <2>7. /\ DOMAIN free' = 1..(Len(free) + Len(q)) /\ DOMAIN free = 1..Len(free)
        /\ DOMAIN q = 1..Len(q) /\ Len(free) \in Nat /\ Len(q) \in Nat
        /\ \A i \in 1..Len(free) : free'[i] = free[i]
        /\ \A i \in 1..Len(q) : free'[Len(free) + i] = q[i]
    BY <2>2, <2>6, Issued DEF TypeInv
  <2>8. \A i \in DOMAIN free' : \/ i \in DOMAIN free /\ free'[i] = free[i]
                                \/ i - Len(free) \in DOMAIN q /\ free'[i] = q[i - Len(free)]
    <3> TAKE i \in DOMAIN free'
    <3>1. CASE i <= Len(free)
      BY <2>7, <3>1
    <3>2. CASE i > Len(free)
      <4>1. i - Len(free) \in 1..Len(q) /\ i = Len(free) + (i - Len(free))
        BY <2>7, <3>2
      <4> QED
        BY <2>7, <4>1
    <3> QED
      BY <2>7, <3>1, <3>2
  <2>9. \A i \in DOMAIN free, j \in DOMAIN q : free[i] # q[j]
    BY <2>1, <2>5, <2>6 DEF RowInv
  <2>10. \A i, j \in DOMAIN free' : free'[i] = free'[j] => i = j
    <3> TAKE i, j \in DOMAIN free'
    <3>1. i \in Nat /\ j \in Nat
      BY <2>7
    <3>2. (i - Len(free) = j - Len(free)) => i = j
      BY <2>7, <3>1
    <3> QED
      BY <2>4, <2>8, <2>9, <3>2 DEF RowInv
  <2>11. \A u \in Holders' : row'[u] \in Rows /\ \A i \in DOMAIN free' : free'[i] # row'[u]
    <3> TAKE u \in Holders'
    <3>1. u \in Holders /\ u \notin done /\ row'[u] = row[u]
      BY <2>2
    <3>2. \A s \in S : s # row[u]
      BY <2>1, <2>5, <3>1 DEF RowInv
    <3> QED
      BY <2>6, <2>8, <3>1, <3>2 DEF RowInv
  <2>12. \A u, v \in Holders' : row'[u] = row'[v] => u = v
    BY <2>2 DEF RowInv
  <2> QED
    BY <2>10, <2>11, <2>12 DEF RowInv
<1> QED
  BY <1>2, <1>3, <1>4, <1>5, <1>6, <1>7, <1>8, <1>9, StepIs

(* How far a request's tokens are processed.                                *)
LEMMA LengthStep ==
  ASSUME StreamsInv, [StreamsNext]_stream_vars
  PROVE  LengthInv'
<1> USE DEF StreamsInv
<1>1. CASE UNCHANGED stream_vars
  BY <1>1 DEF LengthInv, Planned, stream_vars
<1>2. ASSUME NEW c \in Copies, NEW b \in Batches, Prefills(b, c)
      PROVE  LengthInv'
  <2>1. /\ c.uid \in Uids
        /\ \A u \in Uids : u # c.uid => phase'[u] = phase[u] /\ cached'[u] = cached[u]
        /\ cached'[c.uid] = c.to
        /\ phase'[c.uid] = IF c.to = Prompts[c.uid] THEN "prefilled" ELSE "chunked"
    BY <1>2, PrefillMoves
  <2>2. c.to <= Prompts[c.uid] /\ c.to \in Nat /\ Prompts[c.uid] \in Nat
    BY <1>2, <2>1, Lengths DEF Prefills, Copies
  <2>3. cpu = "schedule"
    BY <1>2 DEF Prefills, Issues
  <2>4. \A u \in Uids : ~ Planned(u)
    BY <2>3 DEF Planned
  <2>5. ASSUME NEW u \in Uids
        PROVE  /\ phase'[u] = "waiting" => cached'[u] = 0
               /\ phase'[u] = "chunked" => cached'[u] < Prompts[u]
               /\ phase'[u] = "running" =>
                    cached'[u] >= Prompts[u] /\ cached'[u] + 1 < MaxLen(u)
    <3>1. CASE u = c.uid
      BY <2>1, <2>2, <3>1
    <3>2. CASE u # c.uid
      BY <2>1, <2>4, <3>2 DEF LengthInv
    <3> QED
      BY <3>1, <3>2
  <2> QED
    BY <2>5 DEF LengthInv
<1>3. ASSUME NEW b \in Batches, NEW before \in Seq(Operations), Decodes(b, before)
      PROVE  LengthInv'
  <2>1. /\ cpu = "schedule" /\ cpu' = "plan" /\ current' = b /\ phase' = phase
        /\ b.reqs = {NextShare(u) : u \in Decoding}
        /\ cached' = [u \in Uids |-> IF u \in Decoding THEN cached[u] + 1 ELSE cached[u]]
    BY <1>3 DEF Decodes, Issues
  <2>2. ASSUME NEW u \in Uids, phase[u] = "running"
        PROVE  Planned(u)' /\ cached'[u] >= Prompts[u]
    <3>1. u \in Decoding /\ cached'[u] = cached[u] + 1
      BY <2>1, <2>2 DEF Decoding
    <3>2. NextShare(u) \in b.reqs /\ NextShare(u).uid = u
      BY <2>1, <3>1 DEF NextShare
    <3>3. cached[u] \in Nat /\ Prompts[u] \in Nat /\ cached[u] >= Prompts[u]
      BY <2>2, Lengths DEF LengthInv, TypeInv
    <3> QED
      BY <2>1, <3>1, <3>2, <3>3 DEF Planned
  <2>3. \A u \in Uids : phase[u] # "running" => cached'[u] = cached[u]
    BY <2>1 DEF Decoding
  <2> QED
    BY <2>1, <2>2, <2>3 DEF LengthInv
<1>4. CASE NoBatchNow
  <2>1. /\ cpu = "schedule" /\ UNCHANGED <<phase, cached>>
    BY <1>4 DEF NoBatchNow
  <2>2. \A u \in Uids : ~ Planned(u)
    BY <2>1 DEF Planned
  <2> QED
    BY <2>1, <2>2 DEF LengthInv
<1>5. CASE ForwardBatch
  <2>1. /\ cpu = "plan" /\ cached' = cached
        /\ phase' = [u \in Uids |->
             IF \E r \in current.reqs : r.uid = u /\ r.out = r.to /\ phase[u] # "finished"
             THEN IF cached[u] + 1 < MaxLen(u) THEN "running" ELSE "last" ELSE phase[u]]
    BY <1>5 DEF ForwardBatch
  <2>2. \A r \in current.reqs : r.uid \in Uids /\ IsShare(r) /\ r.to = cached[r.uid]
    BY <2>1 DEF BatchInv, IsBatch, Holders
  <2>3. ASSUME NEW u \in Uids
        PROVE  /\ phase'[u] = "waiting" => cached'[u] = 0
               /\ phase'[u] = "chunked" => cached'[u] < Prompts[u]
               /\ phase'[u] = "running" =>
                    cached'[u] >= Prompts[u] /\ cached'[u] + 1 < MaxLen(u)
    <3>1. /\ cached[u] \in Nat /\ Prompts[u] \in Nat /\ MaxLen(u) \in Nat /\ Width \in Nat
          /\ Prompts[u] < MaxLen(u) /\ MaxLen(u) <= Width
      BY Lengths, WidthIsEnough DEF TypeInv
    <3>2. CASE \E r \in current.reqs : r.uid = u /\ r.out = r.to /\ phase[u] # "finished"
      <4>1. PICK r \in current.reqs : r.uid = u /\ r.out = r.to
        BY <3>2
      <4>2. cached[u] >= Prompts[u]
        <5>1. IsShare(r) /\ r.to = cached[u]
          BY <2>2, <4>1
        <5>2. \/ r.to < Prompts[u] /\ r.out = Width - 1
              \/ Prompts[u] <= r.to
          BY <4>1, <5>1 DEF IsShare
        <5> QED
          BY <3>1, <4>1, <5>1, <5>2
      <4>3. phase'[u] = IF cached[u] + 1 < MaxLen(u) THEN "running" ELSE "last"
        BY <2>1, <3>2
      <4> QED
        BY <2>1, <4>2, <4>3
    <3>3. CASE ~ \E r \in current.reqs : r.uid = u /\ r.out = r.to /\ phase[u] # "finished"
      <4>1. phase'[u] = phase[u]
        BY <2>1, <3>3
      <4>2. SUFFICES ASSUME phase[u] = "running" PROVE ~ Planned(u)
        BY <2>1, <4>1 DEF LengthInv
      <4>3. SUFFICES ASSUME NEW r \in current.reqs, r.uid = u PROVE r.out = r.to
        BY <3>3, <4>2 DEF Planned
      <4>4. IsShare(r) /\ r.to = cached[u] /\ cached[u] >= Prompts[u]
        BY <2>2, <4>2, <4>3 DEF LengthInv
      <4> QED
        BY <3>1, <4>3, <4>4 DEF IsShare
    <3> QED
      BY <3>2, <3>3
  <2> QED
    BY <2>3 DEF LengthInv
<1>6. CASE RunScheduler
  BY <1>6, SchedulerEffect DEF LengthInv, Planned
<1>7. CASE RunEngine
  BY <1>7, EngineEffect DEF LengthInv, Planned
<1>8. ASSUME NEW done \in SUBSET Uids, Finishes(done)
      PROVE  LengthInv'
  <2>1. /\ cpu = "process" /\ cached' = cached
        /\ phase' = [u \in Uids |-> IF u \in done THEN "finished" ELSE phase[u]]
    BY <1>8 DEF Finishes
  <2>2. \A u \in Uids : ~ Planned(u)
    BY <2>1 DEF Planned
  <2> QED
    BY <2>1, <2>2 DEF LengthInv
<1> QED
  BY <1>1, <1>2, <1>3, <1>4, <1>5, <1>6, <1>7, <1>8, StepIs

(* A request that has had a row goes on, and a share of it stays one.       *)
LEMMA Onward ==
  ASSUME StreamsInv, [StreamsNext]_stream_vars, NEW u \in Uids, phase[u] # "waiting"
  PROVE  /\ row'[u] = row[u] /\ cached[u] <= cached'[u] /\ phase'[u] # "waiting"
         /\ phase[u] # "chunked" => phase'[u] # "chunked"
         /\ phase[u] = "finished" => phase'[u] = "finished"
         /\ exposed \subseteq exposed'
<1> USE DEF StreamsInv
<1> DEFINE Goes == /\ row'[u] = row[u] /\ cached[u] <= cached'[u] /\ phase'[u] # "waiting"
                   /\ phase[u] # "chunked" => phase'[u] # "chunked"
                   /\ phase[u] = "finished" => phase'[u] = "finished"
                   /\ exposed \subseteq exposed'
<1>1. cached[u] \in Nat
  BY DEF TypeInv
<1>2. CASE UNCHANGED <<row, cached, phase, exposed>>
  BY <1>1, <1>2
<1>3. CASE UNCHANGED stream_vars
  BY <1>2, <1>3 DEF stream_vars
<1>4. ASSUME NEW c \in Copies, NEW b \in Batches, Prefills(b, c)
      PROVE  Goes
  <2>1. /\ u # c.uid => phase'[u] = phase[u] /\ row'[u] = row[u] /\ cached'[u] = cached[u]
        /\ phase'[c.uid] \in {"prefilled", "chunked"} /\ cached'[c.uid] = c.to
        /\ cached[c.uid] < c.to /\ \A v \in Holders : row'[v] = row[v]
    BY <1>4, PrefillMoves
  <2>2. exposed \subseteq exposed' /\ phase[c.uid] \in {"waiting", "chunked"} /\ c.to \in Nat
    BY <1>4 DEF Prefills, GetsRow, Copies
  <2>3. CASE u = c.uid
    <3>1. u \in Holders
      BY <2>2, <2>3 DEF Holders
    <3> QED
      BY <1>1, <2>1, <2>2, <2>3, <3>1
  <2>4. CASE u # c.uid
    BY <1>1, <2>1, <2>2, <2>4
  <2> QED
    BY <2>3, <2>4
<1>5. ASSUME NEW b \in Batches, NEW before \in Seq(Operations), Decodes(b, before)
      PROVE  Goes
  BY <1>1, <1>5 DEF Decodes
<1>6. CASE NoBatchNow
  BY <1>2, <1>6 DEF NoBatchNow
<1>7. CASE ForwardBatch
  <2>1. /\ UNCHANGED <<row, cached, exposed>>
        /\ phase' = [v \in Uids |->
             IF \E r \in current.reqs : r.uid = v /\ r.out = r.to /\ phase[v] # "finished"
             THEN IF cached[v] + 1 < MaxLen(v) THEN "running" ELSE "last" ELSE phase[v]]
    BY <1>7 DEF ForwardBatch
  <2>2. phase'[u] = phase[u] \/ (phase'[u] \in {"running", "last"} /\ phase[u] # "finished")
    BY <2>1
  <2> QED
    BY <1>1, <2>1, <2>2
<1>8. CASE RunScheduler
  BY <1>2, <1>8, SchedulerEffect
<1>9. CASE RunEngine
  BY <1>2, <1>9, EngineEffect
<1>10. ASSUME NEW done \in SUBSET Uids, Finishes(done)
       PROVE  Goes
  BY <1>1, <1>10 DEF Finishes
<1> QED
  BY <1>3, <1>4, <1>5, <1>6, <1>7, <1>8, <1>9, <1>10, StepIs

(* What the invariant says of an operation of a batch.                      *)
LEMMA BatchOp ==
  ASSUME TypeInv, BatchInv, NEW i \in DOMAIN engine, engine[i].op \in BatchOps
  PROVE  /\ engine[i].arg \in Batches /\ IsBatch(engine[i].arg)
         /\ engine[i].arg.id > 0 /\ engine[i].arg.id <= made
         /\ engine[i].arg.id = last.id => engine[i].arg = last
         /\ engine[i].arg.id = current.id => engine[i].arg = current
         /\ \A r \in engine[i].arg.reqs : r \in Shares /\ r.uid \in Uids /\ IsShare(r)
<1>1. engine[i] \in Operations
  BY DEF TypeInv
<1>2. engine[i].arg \in Batches
  BY <1>1, OperationTypes
<1>3. \A r \in engine[i].arg.reqs : r \in Shares /\ r.uid \in Uids
  BY <1>2 DEF Batches, Shares
<1> QED
  BY <1>2, <1>3 DEF BatchInv, IsBatch

(* Batches, the two Python knows and those issued.                          *)
LEMMA BatchStep ==
  ASSUME StreamsInv, [StreamsNext]_stream_vars
  PROVE  BatchInv'
<1> USE DEF StreamsInv
<1>1. TypeInv'
  BY TypeStep
<1>2. made <= made'
  <2>1. made \in Nat
    BY DEF TypeInv
  <2>2. made' = made \/ made' = made + 1
    BY StepIs, SchedulerEffect, EngineEffect
       DEF Prefills, Decodes, Issues, NoBatchNow, ForwardBatch, Finishes, stream_vars
  <2> QED
    BY <2>1, <2>2
<1>3. ASSUME NEW r \in Shares, IsShare(r)
      PROVE  IsShare(r)'
  <2>1. r.uid \in Uids /\ phase[r.uid] # "waiting" /\ r.to \in Nat
    BY <1>3 DEF Shares, IsShare
  <2>2. cached[r.uid] \in Nat /\ cached'[r.uid] \in Nat
    BY <1>1, <2>1 DEF TypeInv
  <2>3. /\ row'[r.uid] = row[r.uid] /\ cached[r.uid] <= cached'[r.uid]
        /\ phase'[r.uid] # "waiting" /\ (phase[r.uid] # "chunked" => phase'[r.uid] # "chunked")
    BY <2>1, Onward
  <2> QED
    BY <1>3, <2>1, <2>2, <2>3 DEF IsShare
<1>4. ASSUME NEW b \in Batches, IsBatch(b)
      PROVE  IsBatch(b)'
  <2>1. b.id \in Nat /\ made \in Nat /\ made' \in Nat /\ b.reqs \subseteq Shares
    BY <1>1 DEF Batches, TypeInv
  <2> QED
    BY <1>2, <1>3, <1>4, <2>1 DEF IsBatch
<1>5. last \in Batches /\ current \in Batches /\ made \in Nat
  BY DEF TypeInv
<1>6. ASSUME NEW i \in DOMAIN engine, engine[i].op \in BatchOps, NEW b, b = engine[i].arg
      PROVE  /\ b \in Batches /\ IsBatch(b)' /\ b.id > 0 /\ b.id <= made
             /\ b.id = last.id => b = last
             /\ b.id = current.id => b = current
  <2>1. /\ b \in Batches /\ IsBatch(b) /\ b.id > 0 /\ b.id <= made
        /\ b.id = last.id => b = last
        /\ b.id = current.id => b = current
    BY <1>6, BatchOp
  <2> QED
    BY <1>4, <2>1
<1>7. NoBatch \in Batches /\ NoBatch.id = 0 /\ NoBatch.reqs = {} /\ IsBatch(NoBatch)'
  <2>1. NoBatch \in Batches /\ NoBatch.id = 0 /\ NoBatch.reqs = {}
    BY DEF NoBatch, Batches
  <2>2. made' \in Nat
    BY <1>1 DEF TypeInv
  <2> QED
    BY <2>1, <2>2 DEF IsBatch
<1>8. IsBatch(last)' \/ last' # last
  BY <1>4, <1>5 DEF BatchInv
<1>9. IsBatch(current)' \/ current' # current
  BY <1>4, <1>5 DEF BatchInv
<1>10. CASE UNCHANGED stream_vars
  BY <1>10 DEF BatchInv, IsBatch, IsShare, Holders, stream_vars
<1>11. ASSUME NEW b \in Batches, NEW before \in Seq(Operations), Issues(b, before),
              \A r \in b.reqs : IsShare(r)', \A q, r \in b.reqs : q.row = r.row => q = r,
              \A r \in b.reqs : r.uid \in Holders' /\ r.to = cached'[r.uid]
       PROVE  BatchInv'
  <2>1. /\ cpu' = "plan" /\ current' = b /\ last' = last /\ made' = made + 1 /\ b.id = made + 1
        /\ recorded' = recorded
    BY <1>11 DEF Issues
  <2>2. last.id <= made /\ last.id \in Nat
    BY <1>5 DEF BatchInv, IsBatch, Batches
  <2>3. IsBatch(b)'
    BY <1>5, <1>11, <2>1 DEF IsBatch
  <2>4. ASSUME NEW i \in DOMAIN engine', engine'[i].op \in BatchOps, NEW x, x = engine'[i].arg
        PROVE  /\ IsBatch(x)' /\ x.id > 0
               /\ x.id = last'.id => x = last'
               /\ x.id = current'.id => x = current'
    <3>1. CASE i \in DOMAIN engine
      <4>1. engine'[i] = engine[i]
        BY <1>11, <3>1, IssuesAppends
      <4>2. /\ x \in Batches /\ IsBatch(x)' /\ x.id > 0 /\ x.id <= made
            /\ x.id = last.id => x = last
        BY <1>6, <2>4, <3>1, <4>1
      <4>3. x.id # made + 1
        BY <1>5, <4>2 DEF Batches
      <4> QED
        BY <2>1, <4>2, <4>3
    <3>2. CASE i \notin DOMAIN engine
      <4>1. x = b
        <5>1. i > Len(engine)
          BY <1>11, <2>4, <3>2, IssuesAppends
        <5> QED
          BY <1>11, <2>4, <5>1, IssuesAppends
      <4> QED
        BY <1>5, <2>1, <2>2, <2>3, <4>1
    <3> QED
      BY <3>1, <3>2
  <2>5. \A n : <<"copied", n>> \in recorded' => n \in 0..made'
    BY <1>5, <2>1 DEF BatchInv
  <2>6. IsBatch(last)'
    BY <1>8, <2>1
  <2>7. IsBatch(current)'
    BY <2>1, <2>3
  <2>8. /\ \A x \in {last', current'} : x.id = 0 => x = NoBatch
        /\ last'.id = current'.id => last' = current'
    BY <1>5, <2>1, <2>2 DEF BatchInv
  <2>9. current'.id = made' /\ made' > 0
    BY <1>5, <2>1
  <2> QED
    BY <1>11, <2>1, <2>4, <2>5, <2>6, <2>7, <2>8, <2>9 DEF BatchInv
<1>12. ASSUME made' = made, last' \in {last, current, NoBatch}, current' \in {current, NoBatch},
              \A i \in DOMAIN engine' : engine'[i].op \in BatchOps =>
                \/ \E j \in DOMAIN engine : engine'[i] = engine[j]
                \/ engine'[i].arg = current /\ current.id > 0,
              cpu' = "plan" => cpu = "plan" /\ UNCHANGED <<current, phase, cached>>,
              \A n : <<"copied", n>> \in recorded' => n \in 0..made
       PROVE  BatchInv'
  <2>1. /\ \A x \in {last, current, NoBatch} : x.id = 0 => x = NoBatch
        /\ \A x, y \in {last, current, NoBatch} : x.id = y.id => x = y
    BY <1>7 DEF BatchInv
  <2>2. IsBatch(last)'
    <3> PICK x : x = last'
      OBVIOUS
    <3>1. \/ x \in Batches /\ IsBatch(x)
          \/ x = NoBatch
      BY <1>5, <1>12 DEF BatchInv
    <3>2. IsBatch(x)'
      BY <1>4, <1>7, <3>1
    <3> QED
      BY <3>2
  <2>3. IsBatch(current)'
    BY <1>7, <1>9, <1>12
  <2>4. ASSUME NEW i \in DOMAIN engine', engine'[i].op \in BatchOps, NEW x, x = engine'[i].arg
        PROVE  /\ IsBatch(x)' /\ x.id > 0
               /\ x.id = last'.id => x = last'
               /\ x.id = current'.id => x = current'
    <3>1. CASE \E j \in DOMAIN engine : engine'[i] = engine[j]
      <4>1. PICK j \in DOMAIN engine : engine'[i] = engine[j]
        BY <3>1
      <4>2. /\ IsBatch(x)' /\ x.id > 0
            /\ x.id = last.id => x = last
            /\ x.id = current.id => x = current
        BY <1>6, <2>4, <4>1
      <4> QED
        BY <1>7, <1>12, <4>2
    <3>2. CASE engine'[i].arg = current /\ current.id > 0
      <4>1. IsBatch(x)'
        <5>1. IsBatch(current)
          BY DEF BatchInv
        <5> QED
          BY <1>4, <1>5, <2>4, <3>2, <5>1
      <4> QED
        BY <1>12, <2>1, <2>4, <3>2, <4>1
    <3> QED
      BY <1>12, <2>4, <3>1, <3>2
  <2>5. cpu' = "plan" =>
          /\ current'.id = made' /\ made' > 0
          /\ \A r \in current'.reqs : r.uid \in Holders' /\ r.to = cached'[r.uid]
    BY <1>12 DEF BatchInv, Holders
  <2>6. /\ \A x \in {last', current'} : x.id = 0 => x = NoBatch
        /\ last'.id = current'.id => last' = current'
    BY <1>12, <2>1
  <2> QED
    BY <1>12, <2>2, <2>3, <2>4, <2>5, <2>6 DEF BatchInv
<1>13. \A n : <<"copied", n>> \in recorded => n \in 0..made
  BY DEF BatchInv
<1>14. ASSUME NEW c \in Copies, NEW b \in Batches, Prefills(b, c)
       PROVE  BatchInv'
  <2>1. PICK before \in Seq(Operations) : Issues(b, before)
    BY <1>14 DEF Prefills, Issues
  <2>2. /\ c.uid \in Uids /\ phase'[c.uid] \in {"prefilled", "chunked"} /\ row'[c.uid] = c.row
        /\ cached'[c.uid] = c.to /\ c.uid \in Holders'
        /\ phase'[c.uid] = IF c.to = Prompts[c.uid] THEN "prefilled" ELSE "chunked"
    BY <1>14, PrefillMoves
  <2>3. c.to <= Prompts[c.uid] /\ c.to \in Nat /\ b.reqs = {PromptShare(c)}
    BY <1>14 DEF Prefills, Copies
  <2>4. Prompts[c.uid] \in Nat /\ Prompts[c.uid] < MaxLen(c.uid)
    BY <2>2, Lengths
  <2>5. /\ PromptShare(c).uid = c.uid /\ PromptShare(c).row = c.row /\ PromptShare(c).to = c.to
        /\ PromptShare(c).out = IF c.to = Prompts[c.uid] THEN c.to ELSE Width - 1
        /\ PromptShare(c).token = Token(c.uid, IF c.to = Prompts[c.uid] THEN c.to ELSE Width)
    BY DEF PromptShare
  <2>6. IsShare(PromptShare(c))'
    BY <2>2, <2>3, <2>4, <2>5 DEF IsShare
  <2>7. ASSUME NEW r \in b.reqs
        PROVE  IsShare(r)' /\ r.uid \in Holders' /\ r.to = cached'[r.uid]
    BY <2>2, <2>3, <2>5, <2>6, <2>7
  <2>8. \A q, r \in b.reqs : q.row = r.row => q = r
    BY <2>3
  <2> QED
    BY <1>11, <2>1, <2>7, <2>8
<1>15. ASSUME NEW b \in Batches, NEW before \in Seq(Operations), Decodes(b, before)
       PROVE  BatchInv'
  <2>1. /\ Issues(b, before) /\ b.reqs = {NextShare(u) : u \in Decoding}
        /\ cached' = [u \in Uids |-> IF u \in Decoding THEN cached[u] + 1 ELSE cached[u]]
        /\ UNCHANGED <<phase, row>> /\ cpu = "schedule"
    BY <1>15 DEF Decodes, Issues
  <2>2. ASSUME NEW u \in Decoding, NEW r, r = NextShare(u)
        PROVE  /\ IsShare(r)' /\ r.uid = u /\ r.row = row[u] /\ r.uid \in Holders'
               /\ r.to = cached'[r.uid]
    <3>1. /\ r.uid = u /\ r.row = row[u] /\ r.to = cached[u] + 1 /\ r.out = cached[u] + 1
          /\ r.token = Token(u, cached[u] + 1)
      BY <2>2 DEF NextShare
    <3>2. u \in Uids /\ phase[u] = "running" /\ cached'[u] = cached[u] + 1
      BY <2>1 DEF Decoding
    <3>3. cached[u] \in Nat /\ cached[u] >= Prompts[u] /\ cached[u] + 1 < MaxLen(u)
      BY <2>1, <3>2 DEF LengthInv, TypeInv, Planned
    <3>4. Prompts[u] \in Nat /\ MaxLen(u) \in Nat
      BY <3>2, Lengths
    <3>5. IsShare(r)'
      BY <2>1, <3>1, <3>2, <3>3, <3>4 DEF IsShare
    <3> QED
      BY <2>1, <3>1, <3>2, <3>5 DEF Holders
  <2>3. ASSUME NEW r \in b.reqs
        PROVE  IsShare(r)' /\ r.uid \in Holders' /\ r.to = cached'[r.uid]
    BY <2>1, <2>2
  <2>4. ASSUME NEW q \in b.reqs, NEW r \in b.reqs, q.row = r.row
        PROVE  q = r
    <3>1. PICK u \in Decoding, v \in Decoding : q = NextShare(u) /\ r = NextShare(v)
      BY <2>1, <2>4
    <3>2. row[u] = row[v] /\ u \in Holders /\ v \in Holders
      BY <2>4, <3>1 DEF NextShare, Decoding, Holders
    <3> QED
      BY <3>1, <3>2 DEF RowInv
  <2> QED
    BY <1>11, <1>15, <2>1, <2>3, <2>4
<1>16. CASE NoBatchNow
  BY <1>12, <1>13, <1>16 DEF NoBatchNow
<1>17. CASE ForwardBatch
  <2>1. /\ UNCHANGED <<made, last, current, recorded>> /\ cpu' = "process" /\ cpu = "plan"
    BY <1>17 DEF ForwardBatch
  <2>2. current.id > 0
    BY <1>5, <2>1 DEF BatchInv
  <2>3. ASSUME NEW i \in DOMAIN engine'
        PROVE  \/ \E j \in DOMAIN engine : engine'[i] = engine[j]
               \/ engine'[i].arg = current
    <3>1. i \in Nat /\ i <= Len(engine) + 4 /\ i > 0
      BY <1>17, ForwardAppends
    <3>2. \/ i \in DOMAIN engine /\ engine'[i] = engine[i]
          \/ i \in {Len(engine) + 1, Len(engine) + 2, Len(engine) + 3, Len(engine) + 4}
      BY <1>17, <3>1, ForwardAppends
    <3> QED
      BY <1>17, <3>2, ForwardAppends DEF Op
  <2> QED
    BY <1>12, <1>13, <2>1, <2>2, <2>3
<1>18. CASE RunScheduler
  <2>1. UNCHANGED <<made, last, current, engine, recorded, cpu, phase, cached>>
    BY <1>18, SchedulerEffect
  <2> QED
    BY <1>12, <1>13, <2>1
<1>19. CASE RunEngine
  <2>1. /\ UNCHANGED <<made, last, current, cpu, phase, cached>> /\ engine' = Tail(engine)
        /\ engine # <<>>
    BY <1>19, EngineEffect
  <2>2. /\ \A i \in DOMAIN engine' : i + 1 \in DOMAIN engine /\ engine'[i] = engine[i + 1]
        /\ Head(engine) = engine[1] /\ 1 \in DOMAIN engine
    BY <2>1, Executed DEF TypeInv
  <2>3. \/ recorded' = recorded
        \/ recorded' = recorded \union {<<"plan", Head(engine).arg.id>>}
        \/ /\ Head(engine).op = "sample"
           /\ recorded' = recorded \union {<<"copied", Head(engine).arg.id>>}
    BY <1>19 DEF RunEngine, Executes, Now
  <2>4. \A n : <<"copied", n>> \in recorded' => n \in 0..made
    <3>1. Head(engine).op = "sample" => Head(engine).arg.id \in 0..made
      <4> HAVE Head(engine).op = "sample"
      <4>1. engine[1].arg \in Batches /\ engine[1].arg.id <= made
        BY <2>2, BatchOp DEF BatchOps
      <4> QED
        BY <1>5, <2>2, <4>1 DEF Batches
    <3> QED
      BY <1>13, <2>3, <3>1
  <2> QED
    BY <1>12, <2>1, <2>2, <2>4
<1>20. ASSUME NEW done \in SUBSET Uids, Finishes(done)
       PROVE  BatchInv'
  <2>1. /\ UNCHANGED <<made, current, engine, recorded>> /\ cpu' = "schedule"
        /\ last' \in {current, NoBatch}
    BY <1>20 DEF Finishes
  <2> QED
    BY <1>12, <1>13, <2>1
<1> QED
  BY <1>10, <1>14, <1>15, <1>16, <1>17, <1>18, <1>19, <1>20, StepIs

(* The buffer of the attention plans.                                       *)
LEMMA PlanStep ==
  ASSUME StreamsInv, [StreamsNext]_stream_vars
  PROVE  PlanInv'
<1> USE DEF StreamsInv
<1>1. /\ DOMAIN engine = 1..Len(engine) /\ Len(engine) \in Nat /\ made \in Nat /\ staging \in Nat
  BY DEF TypeInv
<1>2. ASSUME UNCHANGED <<attended, staging, recorded, workspace>>,
             DOMAIN engine \subseteq DOMAIN engine',
             \A i \in DOMAIN engine : engine'[i] = engine[i],
             \A i \in DOMAIN engine' : engine'[i].op \in {"h2d", "run"} => i \in DOMAIN engine,
             staging' = IF cpu' = "plan" THEN made' - 1 ELSE made'
      PROVE  PlanInv'
  <2>1. \A i \in DOMAIN engine' : engine'[i].op = "h2d" =>
          /\ engine'[i].arg.id = staging' /\ <<"plan", staging'>> \notin recorded'
          /\ \A j \in DOMAIN engine' : engine'[j].op = "h2d" => j = i
    BY <1>2 DEF PlanInv
  <2>2. ASSUME NEW i \in DOMAIN engine', engine'[i].op = "run"
        PROVE  \/ /\ engine'[i].arg.id = staging'
                  /\ \E j \in DOMAIN engine' : j < i /\ engine'[j].op = "h2d"
               \/ /\ workspace' = engine'[i].arg.id
                  /\ \A j \in DOMAIN engine' : j < i => engine'[j].op # "h2d"
    <3>1. i \in DOMAIN engine /\ engine[i].op = "run" /\ engine[i].arg = engine'[i].arg
      BY <1>2, <2>2
    <3> QED
      BY <1>2, <3>1 DEF PlanInv
  <2>3. attended'.batch = attended'.plan /\ \A n : <<"plan", n>> \in recorded' => n \in 0..staging'
    BY <1>2 DEF PlanInv
  <2> QED
    BY <1>2, <2>1, <2>2, <2>3 DEF PlanInv
<1>3. CASE UNCHANGED <<attended, staging, recorded, workspace, engine, made>>
           /\ (cpu' = "plan" <=> cpu = "plan")
  <2>1. staging' = IF cpu' = "plan" THEN made' - 1 ELSE made'
    BY <1>3 DEF PlanInv
  <2> QED
    BY <1>2, <1>3, <2>1
<1>4. CASE UNCHANGED stream_vars
  BY <1>3, <1>4 DEF stream_vars
<1>5. ASSUME NEW b \in Batches, NEW before \in Seq(Operations), Issues(b, before)
      PROVE  PlanInv'
  <2>1. /\ UNCHANGED <<attended, staging, recorded, workspace>> /\ made' = made + 1
        /\ cpu = "schedule" /\ cpu' = "plan"
        /\ \A i \in DOMAIN before : before[i].op \in {"wait", "copy"}
    BY <1>5 DEF Issues
  <2>2. /\ Len(engine') = Len(engine) + Len(before) + 1 /\ Len(before) \in Nat
        /\ DOMAIN engine' = 1..Len(engine') /\ \A i \in DOMAIN engine : engine'[i] = engine[i]
        /\ \A i \in DOMAIN engine' : i > Len(engine) /\ engine'[i].op \in BatchOps =>
             engine'[i].op = "gather"
    BY <1>5, IssuesAppends
  <2>3. \A i \in DOMAIN engine' : engine'[i].op \in {"h2d", "run"} => i \in DOMAIN engine
    BY <1>1, <2>2 DEF BatchOps
  <2>4. staging' = made' - 1
    BY <1>1, <2>1 DEF PlanInv
  <2>5. DOMAIN engine \subseteq DOMAIN engine'
    BY <1>1, <2>2
  <2> QED
    BY <1>2, <2>1, <2>2, <2>3, <2>4, <2>5
<1>6. CASE NoBatchNow
  BY <1>3, <1>6 DEF NoBatchNow
<1>7. CASE ForwardBatch
  <2>1. /\ UNCHANGED <<attended, recorded, workspace, made>> /\ staging' = current.id
        /\ cpu = "plan" /\ cpu' = "process" /\ LastPlanCopied
    BY <1>7 DEF ForwardBatch
  <2>2. current.id = made /\ made > 0 /\ staging = made - 1
    BY <2>1 DEF BatchInv, PlanInv
  <2>3. \A i \in DOMAIN engine : engine[i].op # "h2d"
    <3> SUFFICES ASSUME NEW i \in DOMAIN engine, engine[i].op = "h2d" PROVE FALSE
      OBVIOUS
    <3>1. engine[i].arg.id = staging /\ <<"plan", staging>> \notin recorded
      BY DEF PlanInv
    <3>2. engine[i].arg.id > 0
      BY BatchOp DEF BatchOps
    <3> QED
      BY <2>1, <2>2, <3>1, <3>2 DEF LastPlanCopied
  <2>4. \A i \in DOMAIN engine : engine[i].op = "run" => workspace = engine[i].arg.id
    BY <2>3 DEF PlanInv
  <2> DEFINE n == Len(engine)
  <2>5. /\ DOMAIN engine' = 1..(n + 4) /\ \A i \in 1..n : engine'[i] = engine[i]
        /\ engine'[n + 1].op = "h2d" /\ engine'[n + 1].arg = current
        /\ engine'[n + 2].op = "run" /\ engine'[n + 2].arg = current
        /\ engine'[n + 3].op = "sample" /\ engine'[n + 4].op = "write"
    <3>1. /\ Len(engine') = n + 4 /\ DOMAIN engine = 1..n /\ DOMAIN engine' = 1..Len(engine')
          /\ \A i \in DOMAIN engine : engine'[i] = engine[i]
      BY <1>7, ForwardAppends
    <3>2. /\ engine'[n + 1] = Op("h2d", current) /\ engine'[n + 2] = Op("run", current)
          /\ engine'[n + 3] = Op("sample", current) /\ engine'[n + 4] = Op("write", current)
      BY <1>7, ForwardAppends
    <3> HIDE DEF n
    <3> QED
      BY <3>1, <3>2 DEF Op
  <2>6. n \in Nat /\ \A i \in 1..(n + 4) : i \in 1..n \/ i = n + 1 \/ i = n + 2 \/ i = n + 3 \/ i = n + 4
    BY <1>1
  <2> HIDE DEF n
  <2>7. \A i \in DOMAIN engine' : engine'[i].op = "h2d" <=> i = n + 1
    <3>1. \A i \in 1..n : engine'[i].op # "h2d" /\ i # n + 1
      BY <1>1, <2>3, <2>5, <2>6 DEF n
    <3>2. n + 1 # n + 2 /\ n + 1 # n + 3 /\ n + 1 # n + 4
      BY <2>6
    <3> QED
      BY <2>5, <2>6, <3>1, <3>2
  <2>8. \A i \in DOMAIN engine' : engine'[i].op = "run" =>
          \/ i = n + 2
          \/ i \in 1..n /\ workspace = engine'[i].arg.id
    <3>1. \A i \in 1..n : engine'[i].op = "run" => workspace = engine'[i].arg.id
      BY <1>1, <2>4, <2>5 DEF n
    <3> QED
      BY <2>5, <2>6, <3>1
  <2>9. <<"plan", made>> \notin recorded
    BY <1>1, <2>2 DEF PlanInv
  <2>10. \A m : <<"plan", m>> \in recorded' => m \in 0..staging'
    BY <1>1, <2>1, <2>2 DEF PlanInv
  <2>11. \A i \in DOMAIN engine' : engine'[i].op = "run" =>
          \/ engine'[i].arg.id = staging' /\ \E j \in DOMAIN engine' : j < i /\ engine'[j].op = "h2d"
          \/ /\ workspace' = engine'[i].arg.id
             /\ \A j \in DOMAIN engine' : j < i => engine'[j].op # "h2d"
    <3>1. n + 1 \in DOMAIN engine' /\ n + 1 < n + 2
      BY <2>5, <2>6
    <3>2. \A i \in 1..n : ~ (n + 1 < i)
      BY <2>6
    <3> QED
      BY <2>1, <2>5, <2>7, <2>8, <3>1, <3>2
  <2>12. \A i \in DOMAIN engine' : engine'[i].op = "h2d" =>
          /\ engine'[i].arg.id = staging' /\ <<"plan", staging'>> \notin recorded'
          /\ \A j \in DOMAIN engine' : engine'[j].op = "h2d" => j = i
    BY <2>1, <2>2, <2>5, <2>7, <2>9
  <2>13. attended'.batch = attended'.plan
    BY <2>1 DEF PlanInv
  <2> QED
    BY <2>1, <2>2, <2>10, <2>11, <2>12, <2>13 DEF PlanInv
<1>8. CASE RunScheduler
  BY <1>3, <1>8, SchedulerEffect
<1>9. CASE RunEngine
  <2>1. /\ engine' = Tail(engine) /\ engine # <<>> /\ UNCHANGED <<cpu, made, staging>>
    BY <1>9, EngineEffect
  <2>2. /\ DOMAIN engine' = 1..(Len(engine) - 1)
        /\ \A i \in DOMAIN engine' : engine'[i] = engine[i + 1]
        /\ Head(engine) = engine[1] /\ Len(engine) > 0
    BY <2>1, Executed DEF TypeInv
  <2>3. /\ 1 \in DOMAIN engine
        /\ \A i \in DOMAIN engine' : i \in Nat /\ i > 0 /\ i + 1 \in DOMAIN engine
        /\ \A j \in DOMAIN engine : j # 1 => j - 1 \in DOMAIN engine' /\ engine'[j - 1] = engine[j]
    BY <1>1, <2>2
  <2> PICK h : h = engine[1]
    OBVIOUS
  <2>4. \/ /\ h.op \notin {"h2d", "run"} /\ UNCHANGED <<workspace, attended>>
           /\ recorded' = recorded \/ recorded' = recorded \union {<<"copied", h.arg.id>>}
        \/ /\ h.op = "h2d" /\ workspace' = staging /\ attended' = attended
           /\ recorded' = recorded \union {<<"plan", h.arg.id>>}
        \/ /\ h.op = "run" /\ attended' = [batch |-> h.arg.id, plan |-> workspace]
           /\ UNCHANGED <<workspace, recorded>>
    BY <1>9, <2>2 DEF RunEngine, Executes, Now
  <2>5. staging' = IF cpu' = "plan" THEN made' - 1 ELSE made'
    BY <2>1 DEF PlanInv
  <2>6. CASE h.op = "h2d"
    <3>1. /\ h.arg.id = staging /\ \A j \in DOMAIN engine : engine[j].op = "h2d" => j = 1
      BY <2>3, <2>6 DEF PlanInv
    <3>2. \A i \in DOMAIN engine' : engine'[i].op # "h2d"
      BY <2>2, <2>3, <3>1
    <3>3. ASSUME NEW i \in DOMAIN engine', engine'[i].op = "run"
          PROVE  workspace' = engine'[i].arg.id
      <4>1. i + 1 \in DOMAIN engine /\ engine[i + 1].op = "run" /\ 1 < i + 1
        BY <2>2, <2>3, <3>3
      <4>2. engine[i + 1].arg.id = staging
        BY <2>3, <2>6, <4>1 DEF PlanInv
      <4> QED
        BY <2>2, <2>4, <2>6, <4>2
    <3>4. \A n : <<"plan", n>> \in recorded' => n \in 0..staging'
      BY <1>1, <2>1, <2>4, <2>6, <3>1 DEF PlanInv
    <3> QED
      BY <2>4, <2>5, <2>6, <3>2, <3>3, <3>4 DEF PlanInv
  <2>7. CASE h.op # "h2d"
    <3>1. UNCHANGED workspace /\ \A n : <<"plan", n>> \in recorded' <=> <<"plan", n>> \in recorded
      BY <2>4, <2>7
    <3>2. attended'.batch = attended'.plan
      <4>1. CASE h.op = "run"
        <5>1. \A j \in DOMAIN engine : ~ (j < 1)
          BY <1>1
        <5>2. workspace = h.arg.id
          BY <2>3, <4>1, <5>1 DEF PlanInv
        <5> QED
          BY <2>4, <2>7, <4>1, <5>2
      <4>2. CASE h.op # "run"
        BY <2>4, <2>7, <4>2 DEF PlanInv
      <4> QED
        BY <4>1, <4>2
    <3>3. \A i \in DOMAIN engine' : engine'[i].op = "h2d" =>
            /\ engine'[i].arg.id = staging /\ <<"plan", staging>> \notin recorded'
            /\ \A j \in DOMAIN engine' : engine'[j].op = "h2d" => j = i
      <4> TAKE i \in DOMAIN engine'
      <4> HAVE engine'[i].op = "h2d"
      <4>1. i + 1 \in DOMAIN engine /\ engine[i + 1].op = "h2d" /\ engine[i + 1] = engine'[i]
        BY <2>2, <2>3
      <4>2. \A j \in DOMAIN engine' : engine'[j].op = "h2d" => j + 1 = i + 1
        BY <2>2, <2>3, <4>1 DEF PlanInv
      <4>3. \A j \in DOMAIN engine' : j + 1 = i + 1 => j = i
        BY <2>3
      <4> QED
        BY <3>1, <4>1, <4>2, <4>3 DEF PlanInv
    <3>4. ASSUME NEW i \in DOMAIN engine', engine'[i].op = "run"
          PROVE  \/ /\ engine'[i].arg.id = staging
                    /\ \E j \in DOMAIN engine' : j < i /\ engine'[j].op = "h2d"
                 \/ /\ workspace = engine'[i].arg.id
                    /\ \A j \in DOMAIN engine' : j < i => engine'[j].op # "h2d"
      <4>1. i + 1 \in DOMAIN engine /\ engine[i + 1].op = "run" /\ engine[i + 1] = engine'[i]
        BY <2>2, <2>3, <3>4
      <4>2. CASE /\ engine[i + 1].arg.id = staging
                 /\ \E j \in DOMAIN engine : j < i + 1 /\ engine[j].op = "h2d"
        <5>1. PICK j \in DOMAIN engine : j < i + 1 /\ engine[j].op = "h2d"
          BY <4>2
        <5>2. j # 1 /\ j \in Nat /\ i \in Nat
          BY <1>1, <2>3, <2>7, <5>1
        <5>3. j - 1 \in DOMAIN engine' /\ engine'[j - 1].op = "h2d" /\ j - 1 < i
          BY <2>3, <5>1, <5>2
        <5> QED
          BY <4>1, <4>2, <5>3
      <4>3. CASE /\ workspace = engine[i + 1].arg.id
                 /\ \A j \in DOMAIN engine : j < i + 1 => engine[j].op # "h2d"
        <5>1. \A j \in DOMAIN engine' : j < i => engine'[j].op # "h2d"
          BY <2>2, <2>3, <4>3
        <5> QED
          BY <4>1, <4>3, <5>1
      <4> QED
        BY <4>1, <4>2, <4>3 DEF PlanInv
    <3>5. \A n : <<"plan", n>> \in recorded' => n \in 0..staging
      BY <3>1 DEF PlanInv
    <3>6. staging' = staging /\ workspace' = workspace
      BY <2>1, <3>1
    <3> QED
      BY <2>5, <3>2, <3>3, <3>4, <3>5, <3>6 DEF PlanInv
  <2> QED
    BY <2>6, <2>7
<1>10. ASSUME NEW done \in SUBSET Uids, Finishes(done)
       PROVE  PlanInv'
  BY <1>3, <1>10 DEF Finishes
<1>11. ASSUME NEW c \in Copies, NEW b \in Batches, Prefills(b, c)
       PROVE  PlanInv'
  <2>1. PICK before \in Seq(Operations) : Issues(b, before)
    BY <1>11 DEF Prefills, Issues
  <2> QED
    BY <1>5, <2>1
<1>12. ASSUME NEW b \in Batches, NEW before \in Seq(Operations), Decodes(b, before)
       PROVE  PlanInv'
  BY <1>5, <1>12 DEF Decodes
<1> QED
  BY <1>4, <1>6, <1>7, <1>8, <1>9, <1>10, <1>11, <1>12, StepIs

(* What the invariant says of a queued prompt copy.                         *)
LEMMA CopyOp ==
  ASSUME TypeInv, CopyInv, NEW k \in DOMAIN sched
  PROVE  /\ k \in Nat /\ k > 0 /\ k <= Len(sched) /\ Len(sched) \in Nat
         /\ sched[k].op = "copy" /\ sched[k].arg \in Copies
         /\ sched[k].arg.uid \in Holders /\ sched[k].arg.row = row[sched[k].arg.uid]
         /\ sched[k].arg.to <= Prompts[sched[k].arg.uid]
         /\ sched[k].arg.to <= cached[sched[k].arg.uid]
         /\ sched[k].arg.uid \in Uids /\ sched[k].arg.to \in Nat
<1>1. sched[k] \in CopyOps /\ k \in 1..Len(sched) /\ Len(sched) \in Nat
  BY DEF TypeInv
<1>2. sched[k].op = "copy" /\ sched[k].arg \in Copies
  BY <1>1 DEF CopyOps
<1>3. /\ sched[k].arg.uid \in Holders /\ sched[k].arg.row = row[sched[k].arg.uid]
      /\ sched[k].arg.to <= Prompts[sched[k].arg.uid]
      /\ sched[k].arg.to <= cached[sched[k].arg.uid]
  BY DEF CopyInv
<1>4. sched[k].arg.uid \in Uids /\ sched[k].arg.to \in Nat
  BY <1>2 DEF Copies
<1> QED
  BY <1>1, <1>2, <1>3, <1>4

(* A wait for a copy that is queued is not over.                            *)
LEMMA StillWaits ==
  ASSUME TypeInv, BatchInv, RunEngine, NEW i \in Nat \ {0}, NEW k \in Nat \ {0},
         WaitsBefore(engine, i + 1, copies.done + k)
  PROVE  WaitsBefore(engine', i, copies.done + k)
<1>1. /\ engine # <<>> /\ engine' = Tail(engine) /\ Head(engine) \in Operations
      /\ Head(engine).op = "wait" => Head(engine).arg <= copies.done
  BY EngineEffect
<1>2. engine \in Seq(Operations) /\ copies.done \in Nat /\ copies.done + k \in Nat
  BY DEF TypeInv
<1>3. \/ WaitsBefore(Tail(engine), i, copies.done + k)
      \/ Head(engine).op = "wait" /\ Head(engine).arg >= copies.done + k
  BY <1>1, <1>2, Nearer
<1>4. SUFFICES ASSUME Head(engine).op = "wait", Head(engine).arg >= copies.done + k PROVE FALSE
  BY <1>1, <1>3
<1> PICK a, d : a = Head(engine).arg /\ d = copies.done
  OBVIOUS
<1>5. a \in Nat /\ d \in Nat /\ k \in Nat /\ k > 0 /\ a <= d /\ a >= d + k
  BY <1>1, <1>2, <1>4, OperationTypes
<1> QED
  BY ONLY <1>5

(* The prompt copies, and what waits for them.                              *)
LEMMA CopyStep ==
  ASSUME StreamsInv, [StreamsNext]_stream_vars
  PROVE  CopyInv'
<1> USE DEF StreamsInv
<1>1. /\ DOMAIN engine = 1..Len(engine) /\ Len(engine) \in Nat /\ engine \in Seq(Operations)
      /\ DOMAIN sched = 1..Len(sched) /\ Len(sched) \in Nat
      /\ copies.issued \in Nat /\ copies.done \in Nat
      /\ copies.issued = copies.done + Len(sched)
  BY DEF TypeInv, CopyInv
<1>2. CASE ~overlap /\ UNCHANGED <<overlap, sched, copies>>
  <2>1. sched' = <<>> /\ DOMAIN sched' = {} /\ Len(sched') = Len(sched)
    BY <1>2 DEF CopyInv
  <2> QED
    BY <1>1, <1>2, <2>1 DEF CopyInv
<1>3. CASE UNCHANGED stream_vars
  BY <1>3 DEF CopyInv, stream_vars, Holders
<1>4. ASSUME \A i \in DOMAIN engine' : engine'[i].op \in BatchOps =>
               \/ i \in DOMAIN engine /\ engine'[i] = engine[i]
               \/ \A q \in engine'[i].arg.reqs : \A k \in DOMAIN sched :
                    sched[k].arg.uid = q.uid => WaitsBefore(engine', i, copies.done + k),
             Grows(engine, engine'), UNCHANGED <<sched, copies, row, overlap>>,
             \A u \in Holders : u \in Holders' /\ cached[u] <= cached'[u] /\ cached'[u] \in Nat,
             \A k \in DOMAIN sched' : \A r \in current'.reqs :
               cpu' = "plan" => WaitsBefore(engine', Len(engine') + 1, copies'.done + k),
             last' = last, recorded' = recorded,
             \/ current' = current
             \/ current' = NoBatch
             \/ current'.id \notin 0..made
      PROVE  CopyInv'
  <2>1. \A k \in DOMAIN sched' :
          LET c == sched'[k].arg
          IN  c.uid \in Holders' /\ c.row = row'[c.uid] /\ c.to <= Prompts[c.uid] /\ c.to <= cached'[c.uid]
    <3> SUFFICES ASSUME NEW k \in DOMAIN sched
                 PROVE  /\ sched[k].arg.uid \in Holders' /\ sched[k].arg.row = row[sched[k].arg.uid]
                        /\ sched[k].arg.to <= Prompts[sched[k].arg.uid]
                        /\ sched[k].arg.to <= cached'[sched[k].arg.uid]
      BY <1>4
    <3>1. /\ sched[k].arg.uid \in Holders /\ sched[k].arg.row = row[sched[k].arg.uid]
          /\ sched[k].arg.to <= Prompts[sched[k].arg.uid]
          /\ sched[k].arg.to <= cached[sched[k].arg.uid]
          /\ sched[k].arg.uid \in Uids /\ sched[k].arg.to \in Nat
      BY CopyOp
    <3>2. cached[sched[k].arg.uid] \in Nat
      BY <3>1 DEF TypeInv
    <3> QED
      BY <1>4, <3>1, <3>2
  <2>2. ASSUME NEW i \in DOMAIN engine', engine'[i].op \in BatchOps, NEW r \in engine'[i].arg.reqs,
               NEW k \in DOMAIN sched', sched'[k].arg.uid = r.uid, sched'[k].arg.to <= r.to
        PROVE  WaitsBefore(engine', i, copies'.done + k)
    <3>1. k \in DOMAIN sched /\ sched[k].arg.uid = r.uid /\ sched[k].arg.to <= r.to
      BY <1>4, <2>2
    <3>2. CASE i \in DOMAIN engine /\ engine'[i] = engine[i]
      <4>1. WaitsBefore(engine, i, copies.done + k)
        BY <2>2, <3>1, <3>2 DEF CopyInv
      <4>2. i \in 1..(Len(engine) + 1)
        BY <1>1, <3>2
      <4> QED
        BY <1>4, <4>1, <4>2, Extended
    <3>3. CASE \A q \in engine'[i].arg.reqs : \A l \in DOMAIN sched :
                 sched[l].arg.uid = q.uid => WaitsBefore(engine', i, copies.done + l)
      BY <1>4, <2>2, <3>1, <3>3
    <3> QED
      BY <1>4, <2>2, <3>2, <3>3
  <2>3. ASSUME NEW b \in {last', current'}, <<"copied", b.id>> \in recorded', NEW r \in b.reqs,
               NEW k \in DOMAIN sched'
        PROVE  ~ (sched'[k].arg.uid = r.uid /\ sched'[k].arg.to <= r.to)
    <3>1. <<"copied", b.id>> \in recorded /\ k \in DOMAIN sched /\ sched' = sched
      BY <1>4, <2>3
    <3>2. b.id \in 0..made
      BY <3>1 DEF BatchInv
    <3>3. b # NoBatch
      BY <2>3 DEF NoBatch
    <3>4. b \in {last, current}
      BY <1>4, <2>3, <3>2, <3>3
    <3> QED
      BY <2>3, <3>1, <3>4 DEF CopyInv
  <2>4. ~overlap' => sched' = <<>>
    BY <1>4 DEF CopyInv
  <2>5. copies'.issued = copies'.done + Len(sched')
    BY <1>1, <1>4
  <2> QED
    BY <1>4, <2>1, <2>2, <2>3, <2>4, <2>5 DEF CopyInv
<1>5. Grows(engine, engine) /\ \A u \in Holders : cached[u] <= cached[u] /\ cached[u] \in Nat
  BY <1>1 DEF Grows, Holders, TypeInv
<1>6. ASSUME NEW b \in Batches, NEW before \in Seq(Operations), Issues(b, before)
      PROVE  /\ Grows(engine, engine') /\ engine' \in Seq(Operations)
             /\ Len(before) \in Nat /\ Len(engine') = Len(engine) + Len(before) + 1
             /\ DOMAIN before = 1..Len(before) /\ DOMAIN engine' = 1..Len(engine')
             /\ \A j \in DOMAIN before : engine'[Len(engine) + j] = before[j]
             /\ \A i \in DOMAIN engine' : engine'[i].op \in BatchOps =>
                  \/ i \in DOMAIN engine /\ engine'[i] = engine[i]
                  \/ i = Len(engine') /\ engine'[i].arg = b
  BY <1>1, <1>6, IssuesAppends DEF Grows
<1>7. ASSUME NEW b \in Batches, NEW before \in Seq(Operations), Decodes(b, before)
      PROVE  CopyInv'
  <2>1. /\ Issues(b, before) /\ UNCHANGED <<overlap, sched, copies, row, phase, last, recorded>>
        /\ overlap => before = << Op("wait", copies.issued) >>
        /\ cpu = "schedule" /\ cpu' = "plan" /\ current' = b /\ b.id = made + 1
        /\ cached' = [u \in Uids |-> IF u \in Decoding THEN cached[u] + 1 ELSE cached[u]]
    BY <1>7 DEF Decodes, Issues
  <2>2. CASE ~overlap
    BY <1>2, <2>1, <2>2
  <2>3. CASE overlap
    <3>1. Holders' = Holders /\ \A u \in Holders : cached[u] <= cached'[u] /\ cached'[u] \in Nat
      BY <2>1 DEF Holders, TypeInv
    <3>7. Len(before) = 1 /\ before[1] = Op("wait", copies.issued)
      BY <2>1, <2>3
    <3>8. /\ Len(engine') = Len(engine) + Len(before) + 1 /\ DOMAIN before = 1..Len(before)
          /\ DOMAIN engine' = 1..Len(engine')
          /\ \A j \in DOMAIN before : engine'[Len(engine) + j] = before[j]
      BY <1>6, <1>7, <2>1
    <3>2. ASSUME NEW i \in Nat, i > Len(engine) + 1, NEW k \in DOMAIN sched
          PROVE  WaitsBefore(engine', i, copies.done + k)
      <4>2. /\ Len(engine) + 1 \in DOMAIN engine'
            /\ engine'[Len(engine) + 1] = Op("wait", copies.issued)
        BY <1>1, <3>7, <3>8
      <4>3. copies.issued >= copies.done + k
        BY <1>1
      <4> QED
        BY <3>2, <4>2, <4>3 DEF WaitsBefore, Op
    <3>3. current'.id \notin 0..made
      BY <2>1 DEF TypeInv
    <3>4. Len(before) = 1 /\ Len(engine') \in Nat /\ Len(engine') > Len(engine) + 1
      BY <1>1, <3>7, <3>8
    <3>5. \A i \in DOMAIN engine' : engine'[i].op \in BatchOps =>
            \/ i \in DOMAIN engine /\ engine'[i] = engine[i]
            \/ \A q \in engine'[i].arg.reqs : \A k \in DOMAIN sched :
                 sched[k].arg.uid = q.uid => WaitsBefore(engine', i, copies.done + k)
      BY <1>6, <2>1, <3>2, <3>4
    <3>6. \A k \in DOMAIN sched' : WaitsBefore(engine', Len(engine') + 1, copies'.done + k)
      BY <2>1, <3>2, <3>4
    <3> QED
      BY <1>4, <1>6, <2>1, <3>1, <3>3, <3>5, <3>6
  <2> QED
    BY <2>2, <2>3
<1>8. CASE NoBatchNow
  <2>1. /\ UNCHANGED <<phase, row, cached, last, engine, sched, copies, overlap, recorded>>
        /\ current' = NoBatch /\ cpu' = "process"
    BY <1>8 DEF NoBatchNow
  <2>2. Holders' = Holders
    BY <2>1 DEF Holders
  <2> QED
    BY <1>4, <1>5, <2>1, <2>2
<1>9. CASE ForwardBatch
  <2>1. /\ UNCHANGED <<row, cached, last, current, sched, copies, overlap, recorded>>
        /\ cpu = "plan" /\ cpu' = "process"
        /\ phase' = [u \in Uids |->
             IF \E r \in current.reqs : r.uid = u /\ r.out = r.to /\ phase[u] # "finished"
             THEN IF cached[u] + 1 < MaxLen(u) THEN "running" ELSE "last" ELSE phase[u]]
    BY <1>9 DEF ForwardBatch
  <2>2. /\ engine' \in Seq(Operations) /\ Len(engine') = Len(engine) + 4
        /\ DOMAIN engine' = 1..(Len(engine) + 4)
        /\ \A i \in DOMAIN engine : engine'[i] = engine[i]
        /\ \A i \in {Len(engine) + 1, Len(engine) + 2, Len(engine) + 3, Len(engine) + 4} :
             engine'[i].arg = current
    BY <1>9, ForwardAppends DEF Op
  <2>3. Grows(engine, engine')
    BY <1>1, <2>2 DEF Grows
  <2>4. \A u \in Holders : u \in Holders'
    BY <2>1 DEF Holders
  <2>5. ASSUME NEW i \in DOMAIN engine', i \notin DOMAIN engine, NEW q \in engine'[i].arg.reqs,
               NEW k \in DOMAIN sched, sched[k].arg.uid = q.uid
        PROVE  WaitsBefore(engine', i, copies.done + k)
    <3>1. /\ i \in {Len(engine) + 1, Len(engine) + 2, Len(engine) + 3, Len(engine) + 4}
          /\ i \in Nat /\ i > Len(engine)
      BY <1>1, <2>2, <2>5, SMTT(40)
    <3>2. q \in current.reqs
      BY <2>2, <2>5, <3>1
    <3>3. WaitsBefore(engine, Len(engine) + 1, copies.done + k)
      BY <2>1, <2>5, <3>2 DEF CopyInv
    <3>4. PICK j \in DOMAIN engine : engine[j].op = "wait" /\ engine[j].arg >= copies.done + k
      BY <3>3 DEF WaitsBefore
    <3>5. j \in DOMAIN engine' /\ engine'[j] = engine[j] /\ j < i
      BY <1>1, <2>2, <3>1, <3>4
    <3> QED
      BY <3>4, <3>5 DEF WaitsBefore
  <2>6. \A i \in DOMAIN engine' : engine'[i].op \in BatchOps =>
            \/ i \in DOMAIN engine /\ engine'[i] = engine[i]
            \/ \A q \in engine'[i].arg.reqs : \A k \in DOMAIN sched :
                 sched[k].arg.uid = q.uid => WaitsBefore(engine', i, copies.done + k)
    BY <2>2, <2>5
  <2> QED
    BY <1>4, <1>5, <2>1, <2>3, <2>4, <2>6
<1>10. CASE RunScheduler
  <2>1. /\ sched # <<>> /\ sched' = Tail(sched)
        /\ copies' = [copies EXCEPT !.done = copies.done + 1]
        /\ UNCHANGED <<overlap, phase, row, cached, cpu, last, current, engine, recorded>>
    BY <1>10, SchedulerEffect
  <2>2. /\ \A k \in DOMAIN sched' : /\ k \in Nat /\ k + 1 \in DOMAIN sched
                                    /\ sched'[k] = sched[k + 1]
        /\ Len(sched') = Len(sched) - 1
    BY <2>1, Executed DEF TypeInv
  <2>3. copies'.done = copies.done + 1 /\ copies'.issued = copies.issued
    BY <2>1 DEF TypeInv
  <2>4. \A k \in Nat : copies'.done + k = copies.done + (k + 1)
    <3> PICK d, e : d = copies.done /\ e = copies'.done
      OBVIOUS
    <3>1. d \in Nat /\ e = d + 1
      BY <1>1, <2>3
    <3>2. \A k \in Nat : e + k = d + (k + 1)
      BY ONLY <3>1
    <3> QED
      BY <3>2
  <2>5. copies'.issued = copies'.done + Len(sched')
    BY <1>1, <2>2, <2>3
  <2>6. Holders' = Holders
    BY <2>1 DEF Holders
  <2>7. overlap
    BY <2>1 DEF CopyInv
  <2>8. \A k \in DOMAIN sched' :
          LET c == sched'[k].arg
          IN  c.uid \in Holders' /\ c.row = row'[c.uid] /\ c.to <= Prompts[c.uid] /\ c.to <= cached'[c.uid]
    BY <2>1, <2>2, <2>6 DEF CopyInv
  <2>9. \A i \in DOMAIN engine' : engine'[i].op \in BatchOps =>
          \A r \in engine'[i].arg.reqs : \A k \in DOMAIN sched' :
            sched'[k].arg.uid = r.uid /\ sched'[k].arg.to <= r.to =>
              WaitsBefore(engine', i, copies'.done + k)
    <3> SUFFICES ASSUME NEW i \in DOMAIN engine, engine[i].op \in BatchOps,
                        NEW r \in engine[i].arg.reqs, NEW k \in DOMAIN sched',
                        sched'[k].arg.uid = r.uid, sched'[k].arg.to <= r.to
                 PROVE  WaitsBefore(engine, i, copies'.done + k)
      BY <2>1
    <3>1. WaitsBefore(engine, i, copies.done + (k + 1))
      BY <2>2 DEF CopyInv
    <3> QED
      BY <2>2, <2>4, <3>1
  <2>10. cpu' = "plan" => \A r \in current'.reqs : \A k \in DOMAIN sched' :
           sched'[k].arg.uid = r.uid => WaitsBefore(engine', Len(engine') + 1, copies'.done + k)
    <3> SUFFICES ASSUME cpu = "plan", NEW r \in current.reqs, NEW k \in DOMAIN sched',
                        sched'[k].arg.uid = r.uid
                 PROVE  WaitsBefore(engine, Len(engine) + 1, copies'.done + k)
      BY <2>1
    <3>1. WaitsBefore(engine, Len(engine) + 1, copies.done + (k + 1))
      BY <2>2 DEF CopyInv
    <3> QED
      BY <2>2, <2>4, <3>1
  <2>11. \A b \in {last', current'} : <<"copied", b.id>> \in recorded' =>
           \A r \in b.reqs : \A k \in DOMAIN sched' :
             ~ (sched'[k].arg.uid = r.uid /\ sched'[k].arg.to <= r.to)
    <3> SUFFICES ASSUME NEW b \in {last, current}, <<"copied", b.id>> \in recorded,
                        NEW r \in b.reqs, NEW k \in DOMAIN sched'
                 PROVE  ~ (sched'[k].arg.uid = r.uid /\ sched'[k].arg.to <= r.to)
      BY <2>1
    <3>1. k + 1 \in DOMAIN sched /\ sched'[k] = sched[k + 1]
      BY <2>2
    <3>2. ~ (sched[k + 1].arg.uid = r.uid /\ sched[k + 1].arg.to <= r.to)
      BY <3>1 DEF CopyInv
    <3> QED
      BY <3>1, <3>2
  <2> QED
    BY <2>1, <2>5, <2>7, <2>8, <2>9, <2>10, <2>11 DEF CopyInv
<1>11. CASE RunEngine
  <2>1. /\ engine # <<>> /\ engine' = Tail(engine)
        /\ UNCHANGED <<overlap, phase, row, cached, cpu, last, current, sched, copies>>
        /\ Head(engine).op = "wait" => Head(engine).arg <= copies.done
    BY <1>11, EngineEffect
  <2>2. /\ \A i \in DOMAIN engine' : /\ i \in Nat \ {0} /\ i + 1 \in DOMAIN engine
                                     /\ engine'[i] = engine[i + 1]
        /\ Len(engine') = Len(engine) - 1 /\ Len(engine) > 0
        /\ Head(engine) = engine[1] /\ 1 \in DOMAIN engine /\ Head(engine) \in Operations
    BY <2>1, Executed DEF TypeInv
  <2>3. ASSUME NEW i \in Nat \ {0}, NEW k \in DOMAIN sched,
               WaitsBefore(engine, i + 1, copies.done + k)
        PROVE  WaitsBefore(engine', i, copies.done + k)
    <3>1. k \in Nat \ {0}
      BY <1>1
    <3> QED
      BY <1>11, <2>3, <3>1, StillWaits
  <2>4. \A i \in DOMAIN engine' : engine'[i].op \in BatchOps =>
          \A r \in engine'[i].arg.reqs : \A k \in DOMAIN sched' :
            sched'[k].arg.uid = r.uid /\ sched'[k].arg.to <= r.to =>
              WaitsBefore(engine', i, copies'.done + k)
    BY <2>1, <2>2, <2>3 DEF CopyInv
  <2>5. cpu' = "plan" => \A r \in current'.reqs : \A k \in DOMAIN sched' :
          sched'[k].arg.uid = r.uid => WaitsBefore(engine', Len(engine') + 1, copies'.done + k)
    <3> SUFFICES ASSUME cpu = "plan", NEW r \in current.reqs, NEW k \in DOMAIN sched,
                        sched[k].arg.uid = r.uid
                 PROVE  WaitsBefore(engine', Len(engine), copies.done + k)
      <4>1. Len(engine') + 1 = Len(engine)
        BY <1>1, <2>2
      <4> QED
        BY <2>1, <4>1
    <3>1. WaitsBefore(engine, Len(engine) + 1, copies.done + k)
      BY DEF CopyInv
    <3>2. Len(engine) \in Nat \ {0}
      BY <1>1, <2>2
    <3> QED
      BY <2>3, <3>1, <3>2
  <2>6. \/ recorded' = recorded
        \/ recorded' = recorded \union {<<"plan", Head(engine).arg.id>>}
        \/ /\ Head(engine).op = "sample"
           /\ recorded' = recorded \union {<<"copied", Head(engine).arg.id>>}
    BY <1>11 DEF RunEngine, Executes, Now
  <2>7. ASSUME NEW b \in {last, current}, <<"copied", b.id>> \in recorded', NEW r \in b.reqs,
               NEW k \in DOMAIN sched, sched[k].arg.uid = r.uid, sched[k].arg.to <= r.to
        PROVE  FALSE
    <3>1. CASE <<"copied", b.id>> \in recorded
      BY <2>7, <3>1 DEF CopyInv
    <3>2. CASE Head(engine).op = "sample" /\ b.id = Head(engine).arg.id
      <4>1. engine[1].op \in BatchOps /\ engine[1].arg.id = b.id
        BY <2>2, <3>2 DEF BatchOps
      <4>2. engine[1].arg = b
        BY <2>2, <2>7, <4>1, BatchOp
      <4>3. WaitsBefore(engine, 1, copies.done + k)
        BY <2>2, <2>7, <4>1, <4>2 DEF CopyInv
      <4>4. \A j \in DOMAIN engine : ~ (j < 1)
        BY <1>1
      <4> QED
        BY <4>3, <4>4 DEF WaitsBefore
    <3> QED
      BY <2>6, <2>7, <3>1, <3>2
  <2>8. /\ ~overlap' => sched' = <<>>
        /\ copies'.issued = copies'.done + Len(sched')
        /\ Holders' = Holders
    BY <1>1, <2>1 DEF CopyInv, Holders
  <2>9. \A k \in DOMAIN sched' :
          LET c == sched'[k].arg
          IN  c.uid \in Holders' /\ c.row = row'[c.uid] /\ c.to <= Prompts[c.uid] /\ c.to <= cached'[c.uid]
    BY <2>1, <2>8 DEF CopyInv
  <2>10. \A b \in {last', current'} : <<"copied", b.id>> \in recorded' =>
           \A r \in b.reqs : \A k \in DOMAIN sched' :
             ~ (sched'[k].arg.uid = r.uid /\ sched'[k].arg.to <= r.to)
    BY <2>1, <2>7
  <2> QED
    BY <2>4, <2>5, <2>8, <2>9, <2>10 DEF CopyInv
<1>12. ASSUME NEW done \in SUBSET Uids, Finishes(done)
       PROVE  CopyInv'
  <2>1. /\ UNCHANGED <<overlap, row, cached, current, sched, engine, copies, recorded>>
        /\ cpu' = "schedule" /\ last' \in {current, NoBatch}
        /\ phase' = [u \in Uids |-> IF u \in done THEN "finished" ELSE phase[u]]
    BY <1>12 DEF Finishes
  <2>2. ASSUME NEW k \in DOMAIN sched
        PROVE  sched[k].arg.uid \in Holders'
    <3>1. /\ sched[k].arg.uid \in Holders /\ sched[k].arg.uid \in Uids
          /\ sched[k].arg.to <= Prompts[sched[k].arg.uid] /\ sched[k].arg.to \in Nat
      BY CopyOp
    <3>2. sched[k].arg.uid \notin done
      <4> SUFFICES ASSUME sched[k].arg.uid \in done PROVE FALSE
        OBVIOUS
      <4>1. PICK b \in {last, current} :
              /\ <<"copied", b.id>> \in recorded
              /\ \E r \in b.reqs : r.uid = sched[k].arg.uid /\ Prompts[sched[k].arg.uid] <= r.to
        BY <1>12, FinishedIs
      <4>2. PICK r \in b.reqs : r.uid = sched[k].arg.uid /\ Prompts[sched[k].arg.uid] <= r.to
        BY <4>1
      <4>3. r.to \in Nat /\ Prompts[sched[k].arg.uid] \in Nat
        <5>1. b \in Batches
          BY DEF TypeInv
        <5> QED
          BY <3>1, <5>1, Lengths DEF Batches, Shares
      <4>4. sched[k].arg.to <= r.to
        BY <3>1, <4>2, <4>3
      <4> QED
        BY <4>1, <4>2, <4>4 DEF CopyInv
    <3> QED
      BY <2>1, <3>1, <3>2 DEF Holders
  <2>3. \A b \in {last', current'} : <<"copied", b.id>> \in recorded' =>
          \A r \in b.reqs : \A k \in DOMAIN sched' :
            ~ (sched'[k].arg.uid = r.uid /\ sched'[k].arg.to <= r.to)
    BY <2>1 DEF CopyInv, NoBatch
  <2>4. \A k \in DOMAIN sched' :
          LET c == sched'[k].arg
          IN  c.uid \in Holders' /\ c.row = row'[c.uid] /\ c.to <= Prompts[c.uid] /\ c.to <= cached'[c.uid]
    BY <2>1, <2>2 DEF CopyInv
  <2>5. \A i \in DOMAIN engine' : engine'[i].op \in BatchOps =>
          \A r \in engine'[i].arg.reqs : \A k \in DOMAIN sched' :
            sched'[k].arg.uid = r.uid /\ sched'[k].arg.to <= r.to =>
              WaitsBefore(engine', i, copies'.done + k)
    BY <2>1 DEF CopyInv
  <2> QED
    BY <2>1, <2>3, <2>4, <2>5 DEF CopyInv
<1>13. ASSUME NEW c \in Copies, NEW b \in Batches, Prefills(b, c)
       PROVE  CopyInv'
  <2>1. CASE ~overlap
    BY <1>2, <1>13, <2>1 DEF Prefills, Issues
  <2>2. CASE overlap
    <3> DEFINE before == << Op("wait", copies.issued + 1) >>
    <3>1. /\ Issues(b, before) /\ sched' = sched \o << Op("copy", c) >>
          /\ copies' = [copies EXCEPT !.issued = copies.issued + 1]
          /\ b.reqs = {PromptShare(c)} /\ b.id = made + 1 /\ current' = b
          /\ UNCHANGED <<overlap, last, recorded>> /\ c.to <= Prompts[c.uid]
          /\ phase[c.uid] \in {"waiting", "chunked"}
      BY <1>13, <2>2 DEF Prefills, Issues
    <3>2. before \in Seq(Operations) /\ Len(before) = 1
          /\ before[1].op = "wait" /\ before[1].arg = copies.issued + 1
      BY <3>1 DEF Issues, Op
    <3> HIDE DEF before
    <3>3. /\ Grows(engine, engine') /\ Len(engine') = Len(engine) + 2
          /\ DOMAIN engine' = 1..(Len(engine) + 2)
          /\ engine'[Len(engine) + 1].op = "wait"
          /\ engine'[Len(engine) + 1].arg = copies.issued + 1
          /\ \A i \in DOMAIN engine' : engine'[i].op \in BatchOps =>
               \/ i \in DOMAIN engine /\ engine'[i] = engine[i]
               \/ i = Len(engine) + 2 /\ engine'[i].arg = b
      <4>1. /\ Grows(engine, engine') /\ Len(engine') = Len(engine) + Len(before) + 1
            /\ DOMAIN before = 1..Len(before) /\ DOMAIN engine' = 1..Len(engine')
            /\ \A j \in DOMAIN before : engine'[Len(engine) + j] = before[j]
            /\ \A i \in DOMAIN engine' : engine'[i].op \in BatchOps =>
                 \/ i \in DOMAIN engine /\ engine'[i] = engine[i]
                 \/ i = Len(engine') /\ engine'[i].arg = b
        BY <1>6, <3>1, <3>2
      <4>2. Len(engine) + Len(before) + 1 = Len(engine) + 2 /\ 1 \in DOMAIN before
        BY <1>1, <3>2, <4>1
      <4> QED
        BY <3>2, <4>1, <4>2
    <3>4. /\ DOMAIN sched' = 1..(Len(sched) + 1) /\ Len(sched') = Len(sched) + 1
          /\ \A k \in DOMAIN sched : sched'[k] = sched[k]
          /\ sched'[Len(sched) + 1].arg = c
      BY <1>1, <3>1 DEF TypeInv, Op
    <3>5. copies'.done = copies.done /\ copies'.issued = copies.issued + 1
      BY <3>1 DEF TypeInv
    <3>6. /\ c.uid \in Uids /\ row'[c.uid] = c.row /\ cached'[c.uid] = c.to
          /\ cached[c.uid] < c.to /\ Holders' = Holders \union {c.uid}
          /\ \A u \in Holders : row'[u] = row[u]
          /\ \A u \in Uids : u # c.uid => cached'[u] = cached[u]
      BY <1>13, PrefillMoves
    <3>7. c.to \in Nat /\ cached[c.uid] \in Nat
      BY <3>6 DEF Copies, TypeInv
    <3>8. ASSUME NEW k \in DOMAIN sched', NEW i \in Nat, i > Len(engine) + 1
          PROVE  WaitsBefore(engine', i, copies'.done + k)
      <4>1. Len(engine) + 1 \in DOMAIN engine'
        BY <1>1, <3>3
      <4>2. copies.issued + 1 >= copies.done + k
        BY <1>1, <3>4
      <4> QED
        BY <3>3, <3>5, <3>8, <4>1, <4>2 DEF WaitsBefore
    <3>9. ASSUME NEW r \in Shares, IsShare(r), r.uid = c.uid
          PROVE  ~ (c.to <= r.to)
      <4>1. r.to <= cached[c.uid] /\ r.to \in Nat
        BY <3>9 DEF IsShare, Shares
      <4> QED
        BY <3>6, <3>7, <4>1
    <3>10. \A k \in DOMAIN sched' :
             LET x == sched'[k].arg
             IN  /\ x.uid \in Holders' /\ x.row = row'[x.uid] /\ x.to <= Prompts[x.uid]
                 /\ x.to <= cached'[x.uid]
      <4> TAKE k \in DOMAIN sched'
      <4>1. CASE k = Len(sched) + 1
        BY <3>1, <3>4, <3>6, <3>7, <4>1
      <4>2. CASE k # Len(sched) + 1
        <5>1. k \in DOMAIN sched /\ sched'[k] = sched[k]
          BY <1>1, <3>4, <4>2
        <5> PICK x : x = sched[k].arg
          OBVIOUS
        <5>2. /\ x.uid \in Holders /\ x.row = row[x.uid] /\ x.to <= Prompts[x.uid]
              /\ x.to <= cached[x.uid] /\ x.uid \in Uids /\ x.to \in Nat
          BY <5>1, CopyOp
        <5>3. x.to <= cached'[x.uid]
          BY <3>6, <3>7, <5>2
        <5> QED
          BY <3>6, <5>1, <5>2, <5>3
      <4> QED
        BY <4>1, <4>2
    <3>11. ASSUME NEW i \in DOMAIN engine', engine'[i].op \in BatchOps, NEW r \in engine'[i].arg.reqs,
                  NEW k \in DOMAIN sched', sched'[k].arg.uid = r.uid, sched'[k].arg.to <= r.to
           PROVE  WaitsBefore(engine', i, copies'.done + k)
      <4>1. CASE i \in DOMAIN engine /\ engine'[i] = engine[i]
        <5>1. engine[i].op \in BatchOps /\ r \in engine[i].arg.reqs
          BY <3>11, <4>1
        <5>2. r \in Shares /\ IsShare(r)
          BY <4>1, <5>1, BatchOp
        <5>3. k # Len(sched) + 1
          BY <3>4, <3>9, <3>11, <5>2
        <5>4. k \in DOMAIN sched /\ sched'[k] = sched[k]
          BY <1>1, <3>4, <5>3
        <5>5. WaitsBefore(engine, i, copies.done + k)
          BY <3>11, <4>1, <5>1, <5>4 DEF CopyInv
        <5>6. i \in 1..(Len(engine) + 1)
          BY <1>1, <4>1
        <5> QED
          BY <3>3, <3>5, <5>5, <5>6, Extended
      <4>2. CASE i = Len(engine) + 2
        BY <1>1, <3>8, <4>2
      <4> QED
        BY <3>3, <3>11, <4>1, <4>2
    <3>12. \A k \in DOMAIN sched' : WaitsBefore(engine', Len(engine') + 1, copies'.done + k)
      <4>1. Len(engine') + 1 \in Nat /\ Len(engine') + 1 > Len(engine) + 1
        BY <1>1, <3>3
      <4> QED
        BY <3>8, <4>1
    <3>13. ASSUME NEW x \in {last', current'}, <<"copied", x.id>> \in recorded', NEW r \in x.reqs,
                  NEW k \in DOMAIN sched', sched'[k].arg.uid = r.uid, sched'[k].arg.to <= r.to
           PROVE  FALSE
      <4>1. x.id \in 0..made /\ made \in Nat
        BY <3>1, <3>13 DEF BatchInv, TypeInv
      <4>2. x = last /\ <<"copied", x.id>> \in recorded
        BY <3>1, <3>13, <4>1
      <4>3. r \in Shares /\ IsShare(r)
        BY <3>13, <4>2 DEF BatchInv, IsBatch, TypeInv, Batches
      <4>4. k # Len(sched) + 1
        BY <3>4, <3>9, <3>13, <4>3
      <4>5. k \in DOMAIN sched /\ sched'[k] = sched[k]
        BY <1>1, <3>4, <4>4
      <4> QED
        BY <3>13, <4>2, <4>5 DEF CopyInv
    <3>14. copies'.issued = copies'.done + Len(sched')
      <4> PICK d, n : d = copies.done /\ n = Len(sched)
        OBVIOUS
      <4>1. d \in Nat /\ n \in Nat /\ copies.issued = d + n
        BY <1>1
      <4>2. (d + n) + 1 = d + (n + 1)
        BY ONLY <4>1
      <4> QED
        BY <3>4, <3>5, <4>1, <4>2
    <3>15. overlap'
      BY <2>2, <3>1
    <3> QED
      BY <3>10, <3>11, <3>12, <3>13, <3>14, <3>15 DEF CopyInv
  <2> QED
    BY <2>1, <2>2
<1> QED
  BY <1>3, <1>7, <1>8, <1>9, <1>10, <1>11, <1>12, <1>13, StepIs

(* What is issued does not write in a row of the requests it is not for.    *)
LEMMA OwnStep ==
  ASSUME StreamsInv, [StreamsNext]_stream_vars
  PROVE  OwnInv'
<1> USE DEF StreamsInv
<1>1. /\ DOMAIN engine = 1..Len(engine) /\ Len(engine) \in Nat /\ engine \in Seq(Operations)
  BY DEF TypeInv
<1>2. CASE ~overlap /\ UNCHANGED overlap
  BY <1>2 DEF OwnInv
<1>3. ASSUME overlap,
             \A i \in DOMAIN engine' : engine'[i].op \in {"copy", "write"} =>
               \E j \in DOMAIN engine : engine'[i] = engine[j],
             \A u \in Holders' \ exposed' :
               \/ u \in Holders /\ u \notin exposed /\ row'[u] = row[u]
               \/ ~ WriteQueued(row'[u])
      PROVE  OwnInv'
  <2>1. \A i \in DOMAIN engine' : engine'[i].op # "copy"
    BY <1>3 DEF OwnInv
  <2>2. ASSUME NEW i \in DOMAIN engine', engine'[i].op = "write", NEW u \in Holders' \ exposed',
               NEW q \in engine'[i].arg.reqs, q.row = row'[u]
        PROVE  q.uid = u
    <3>1. PICK j \in DOMAIN engine : engine'[i] = engine[j]
      BY <1>3, <2>2
    <3>2. WriteQueued(row'[u])
      <4>1. engine[j] \in ToSet(engine)
        BY <3>1 DEF ToSet
      <4> QED
        BY <2>2, <3>1, <4>1 DEF WriteQueued
    <3>3. u \in Holders /\ u \notin exposed /\ row'[u] = row[u]
      BY <1>3, <3>2
    <3> QED
      BY <1>3, <2>2, <3>1, <3>3 DEF OwnInv
  <2> QED
    BY <2>1, <2>2 DEF OwnInv
<1>4. CASE UNCHANGED stream_vars
  BY <1>4 DEF OwnInv, stream_vars, Holders
<1>5. ASSUME NEW b, NEW before, Issues(b, before)
      PROVE  \A i \in DOMAIN engine' : engine'[i].op \in {"copy", "write"} =>
               \/ i \in DOMAIN engine /\ engine'[i] = engine[i]
               \/ i - Len(engine) \in DOMAIN before /\ engine'[i] = before[i - Len(engine)]
  <2>1. /\ Len(engine') = Len(engine) + Len(before) + 1 /\ Len(before) \in Nat
        /\ DOMAIN before = 1..Len(before) /\ DOMAIN engine' = 1..Len(engine')
        /\ \A i \in DOMAIN engine : engine'[i] = engine[i]
        /\ \A j \in DOMAIN before : engine'[Len(engine) + j] = before[j]
        /\ engine'[Len(engine')] = Op("gather", b)
    BY <1>5, IssuesAppends
  <2> SUFFICES ASSUME NEW i \in DOMAIN engine', engine'[i].op \in {"copy", "write"},
                      i \notin DOMAIN engine
               PROVE  i - Len(engine) \in DOMAIN before /\ engine'[i] = before[i - Len(engine)]
    BY <2>1
  <2>2. i # Len(engine')
    BY <2>1 DEF Op
  <2>3. i - Len(engine) \in DOMAIN before /\ i = Len(engine) + (i - Len(engine))
    BY <1>1, <2>1, <2>2
  <2> QED
    BY <2>1, <2>3
<1>6. ASSUME NEW c \in Copies, NEW b \in Batches, Prefills(b, c)
      PROVE  OwnInv'
  <2>1. CASE ~overlap
    BY <1>2, <1>6, <2>1 DEF Prefills, Issues
  <2>2. CASE overlap
    <3> DEFINE before == << Op("wait", copies.issued + 1) >>
    <3>1. Issues(b, before) /\ GetsRow(c.uid, c.row) /\ before[1].op = "wait" /\ DOMAIN before = {1}
      BY <1>6, <2>2 DEF Prefills, Op
    <3> HIDE DEF before
    <3>2. \A i \in DOMAIN engine' : engine'[i].op \in {"copy", "write"} =>
            \E j \in DOMAIN engine : engine'[i] = engine[j]
      BY <1>5, <3>1
    <3>3. /\ row'[c.uid] = c.row /\ Holders' = Holders \union {c.uid}
          /\ \A u \in Holders : row'[u] = row[u]
      BY <1>6, PrefillMoves
    <3>4. \A u \in Holders' \ exposed' :
            \/ u \in Holders /\ u \notin exposed /\ row'[u] = row[u]
            \/ ~ WriteQueued(row'[u])
      <4>1. exposed \subseteq exposed'
        BY <3>1 DEF GetsRow
      <4>2. \/ c.uid \in Holders
            \/ c.uid \in exposed'
            \/ ~ WriteQueued(c.row)
        BY <2>2, <3>1 DEF GetsRow, Holders, Copies
      <4> QED
        BY <3>3, <4>1, <4>2
    <3> QED
      BY <1>3, <2>2, <3>2, <3>4
  <2> QED
    BY <2>1, <2>2
<1>7. ASSUME NEW b \in Batches, NEW before \in Seq(Operations), Decodes(b, before)
      PROVE  OwnInv'
  <2>1. CASE ~overlap
    BY <1>2, <1>7, <2>1 DEF Decodes, Issues
  <2>2. CASE overlap
    <3>1. /\ Issues(b, before) /\ before = << Op("wait", copies.issued) >>
          /\ UNCHANGED <<phase, row, exposed>>
      BY <1>7, <2>2 DEF Decodes
    <3>2. before[1].op = "wait" /\ DOMAIN before = {1}
      BY <3>1 DEF Op
    <3>3. \A i \in DOMAIN engine' : engine'[i].op \in {"copy", "write"} =>
            \E j \in DOMAIN engine : engine'[i] = engine[j]
      BY <1>5, <3>1, <3>2
    <3>4. Holders' = Holders
      BY <3>1 DEF Holders
    <3> QED
      BY <1>3, <2>2, <3>1, <3>3, <3>4
  <2> QED
    BY <2>1, <2>2
<1>8. CASE NoBatchNow
  BY <1>8 DEF NoBatchNow, OwnInv, Holders
<1>9. CASE ForwardBatch
  <2>1. /\ UNCHANGED <<overlap, row, exposed>> /\ cpu = "plan"
    BY <1>9 DEF ForwardBatch
  <2>2. /\ DOMAIN engine' = 1..(Len(engine) + 4)
        /\ \A i \in DOMAIN engine : engine'[i] = engine[i]
        /\ engine'[Len(engine) + 1].op = "h2d" /\ engine'[Len(engine) + 2].op = "run"
        /\ engine'[Len(engine) + 3].op = "sample" /\ engine'[Len(engine) + 4] = Op("write", current)
    BY <1>9, ForwardAppends DEF Op
  <2>3. Holders' = Holders
    <3>1. \A r \in current.reqs : r.uid \in Holders
      BY <2>1 DEF BatchInv
    <3>2. \A u \in Uids : \/ phase'[u] = phase[u]
                          \/ u \in Holders /\ phase'[u] \in {"running", "last"}
      BY <1>9, <3>1 DEF ForwardBatch
    <3> QED
      BY <3>2 DEF Holders
  <2>4. \A q \in current.reqs : \A u \in Holders : q.row = row[u] => q.uid = u
    <3>1. \A q \in current.reqs : q.uid \in Holders /\ q.row = row[q.uid]
      BY <2>1 DEF BatchInv, IsBatch, IsShare
    <3> QED
      BY <3>1 DEF RowInv
  <2>5. ASSUME overlap, NEW i \in DOMAIN engine'
        PROVE  /\ engine'[i].op # "copy"
               /\ engine'[i].op = "write" =>
                    \A u \in Holders \ exposed : \A q \in engine'[i].arg.reqs :
                      q.row = row[u] => q.uid = u
    <3>1. CASE i \in DOMAIN engine
      BY <2>2, <2>5, <3>1 DEF OwnInv
    <3>2. CASE i \in {Len(engine) + 1, Len(engine) + 2, Len(engine) + 3}
      BY <2>2, <3>2
    <3>3. CASE i = Len(engine) + 4
      BY <2>2, <2>4, <3>3 DEF Op
    <3> QED
      BY <1>1, <2>2, <3>1, <3>2, <3>3
  <2> QED
    BY <2>1, <2>3, <2>5 DEF OwnInv
<1>10. CASE RunScheduler
  <2>1. UNCHANGED <<overlap, phase, row, engine, exposed>>
    BY <1>10, SchedulerEffect
  <2> QED
    BY <2>1 DEF OwnInv, Holders
<1>11. CASE RunEngine
  <2>1. /\ engine # <<>> /\ engine' = Tail(engine) /\ UNCHANGED <<overlap, phase, row, exposed>>
    BY <1>11, EngineEffect
  <2>2. \A i \in DOMAIN engine' : i + 1 \in DOMAIN engine /\ engine'[i] = engine[i + 1]
    BY <2>1, Executed DEF TypeInv
  <2> QED
    BY <1>2, <1>3, <2>1, <2>2 DEF Holders
<1>12. ASSUME NEW done \in SUBSET Uids, Finishes(done)
       PROVE  OwnInv'
  <2>1. /\ UNCHANGED <<overlap, row, engine, exposed>>
        /\ phase' = [u \in Uids |-> IF u \in done THEN "finished" ELSE phase[u]]
    BY <1>12 DEF Finishes
  <2>2. Holders' \subseteq Holders
    BY <2>1 DEF Holders
  <2> QED
    BY <2>1, <2>2 DEF OwnInv
<1> QED
  BY <1>4, <1>6, <1>7, <1>8, <1>9, <1>10, <1>11, <1>12, StepIs

(* An executed operation keeps what is settled and provided for later.      *)
LEMMA Pops ==
  ASSUME TypeInv, BatchInv, RunEngine, NEW i \in Nat \ {0}, NEW u, NEW r \in Rows,
         NEW c \in 0..Width - 1, Settled(engine, i + 1, u, r, c)
  PROVE  /\ Settled(engine', i, u, r, c)
         /\ Provided(pool, engine, i + 1, u, r, c) => Provided(pool', engine', i, u, r, c)
<1>1. /\ engine \in Seq(Operations) /\ engine # <<>> /\ engine' = Tail(engine)
      /\ Gives(Head(engine), u, r, c) => pool'[r][c] = Token(u, c)
      /\ ~ Touches(Head(engine), r, c) => pool'[r][c] = pool[r][c]
  <2>1. engine \in Seq(Operations)
    BY DEF TypeInv
  <2>2. engine # <<>> /\ engine' = Tail(engine)
    BY EngineEffect
  <2>3. /\ Gives(Head(engine), u, r, c) => pool'[r][c] = Token(u, c)
        /\ ~ Touches(Head(engine), r, c) => pool'[r][c] = pool[r][c]
    BY EngineEffect, ZenonT(60)
  <2> QED
    BY <2>1, <2>2, <2>3
<1>2. Settled(engine', i, u, r, c)
  BY <1>1, Nearer
<1>3. ASSUME Provided(pool, engine, i + 1, u, r, c)
      PROVE  Provided(pool', engine', i, u, r, c)
  <2>1. Provided(pool, engine', i, u, r, c) \/ Gives(Head(engine), u, r, c)
    BY <1>1, <1>3, Nearer
  <2>2. CASE Gives(Head(engine), u, r, c)
    BY <1>1, <2>2 DEF Provided
  <2>3. CASE Touches(Head(engine), r, c)
    <3>1. Gives(Head(engine), u, r, c) \/ \A p : Provided(p, engine', i, u, r, c)
      BY <1>1, <2>3, Nearer
    <3> QED
      BY <2>2, <3>1
  <2>4. CASE ~ Touches(Head(engine), r, c) /\ Provided(pool, engine', i, u, r, c)
    BY <1>1, <2>4 DEF Provided
  <2> QED
    BY <2>1, <2>2, <2>3, <2>4
<1> QED
  BY <1>2, <1>3

(* A running request writes its next token in its row, past its prompt.     *)
LEMMA NextPlace ==
  ASSUME TypeInv, RowInv, LengthInv, NEW u \in Holders, phase[u] = "running", ~ Planned(u)
  PROVE  /\ u \in Uids /\ row[u] \in Rows /\ cached[u] \in 0..Width - 1
         /\ Prompts[u] \in Nat /\ Prompts[u] <= cached[u]
<1>1. u \in Uids
  BY DEF Holders
<1>2. /\ cached[u] \in Nat /\ Prompts[u] \in Nat /\ MaxLen(u) \in Nat /\ Width \in Nat
      /\ MaxLen(u) <= Width
  BY <1>1, Lengths, WidthIsEnough DEF TypeInv
<1>3. Prompts[u] <= cached[u] /\ cached[u] + 1 < MaxLen(u)
  BY <1>1, <1>2 DEF LengthInv
<1>4. cached[u] \in 0..Width - 1
  BY <1>2, <1>3
<1> QED
  BY <1>1, <1>2, <1>3, <1>4 DEF RowInv

(* What a queued prompt copy writes is in the row of its request.           *)
LEMMA CopyPlace ==
  ASSUME TypeInv, RowInv, CopyInv, NEW k \in DOMAIN sched, NEW u \in Holders, NEW c,
         Touches(sched[k], row[u], c)
  PROVE  Gives(sched[k], u, row[u], c) /\ sched[k].arg.uid = u /\ c < Prompts[u] /\ c \in Int
<1>1. /\ sched[k].op = "copy" /\ sched[k].arg.uid \in Holders
      /\ sched[k].arg.row = row[sched[k].arg.uid]
      /\ sched[k].arg.to <= Prompts[sched[k].arg.uid]
      /\ sched[k].arg \in Copies /\ sched[k].arg.uid \in Uids
  BY CopyOp
<1>2. sched[k].arg.row = row[u] /\ c \in sched[k].arg.from..sched[k].arg.to - 1
  BY <1>1 DEF Touches
<1>3. sched[k].arg.uid = u
  BY <1>1, <1>2 DEF RowInv
<1>4. sched[k].arg.to \in Nat /\ sched[k].arg.from \in Nat /\ Prompts[u] \in Nat
  BY <1>1, <1>3, Lengths DEF Copies
<1>5. c < Prompts[u] /\ c \in Int
  BY <1>1, <1>2, <1>3, <1>4
<1> QED
  BY <1>1, <1>2, <1>3, <1>5 DEF Gives

(* Whoever runs has its next token written, before what is issued next.     *)
LEMMA NextStep ==
  ASSUME StreamsInv, [StreamsNext]_stream_vars
  PROVE  NextInv'
<1> USE DEF StreamsInv
<1>1. /\ DOMAIN engine = 1..Len(engine) /\ Len(engine) \in Nat /\ engine \in Seq(Operations)
  BY DEF TypeInv
<1>2. ASSUME Grows(engine, engine'), UNCHANGED pool,
             \A u \in Holders' \ exposed' : phase'[u] = "running" /\ ~ Planned(u)' =>
               /\ u \in Holders \ exposed /\ phase[u] = "running" /\ ~ Planned(u)
               /\ row'[u] = row[u] /\ cached'[u] = cached[u]
               /\ \A j \in DOMAIN engine' : j > Len(engine) => ~ Touches(engine'[j], row[u], cached[u])
      PROVE  NextInv'
  <2> SUFFICES ASSUME NEW u \in Holders' \ exposed', phase'[u] = "running", ~ Planned(u)'
               PROVE  /\ Settled(engine', Len(engine') + 1, u, row'[u], cached'[u])
                      /\ Provided(pool', engine', Len(engine') + 1, u, row'[u], cached'[u])
    BY DEF NextInv
  <2>1. /\ Settled(engine, Len(engine) + 1, u, row[u], cached[u])
        /\ Provided(pool, engine, Len(engine) + 1, u, row[u], cached[u])
    BY <1>2 DEF NextInv
  <2>2. Len(engine') + 1 \in (Len(engine) + 1)..(Len(engine') + 1)
    BY <1>1, <1>2 DEF Grows
  <2>3. \A j \in DOMAIN engine' : j > Len(engine) => ~ Touches(engine'[j], row[u], cached[u])
    BY <1>2
  <2>4. /\ Settled(engine', Len(engine') + 1, u, row[u], cached[u])
        /\ \A p : Provided(p, engine, Len(engine) + 1, u, row[u], cached[u]) =>
             Provided(p, engine', Len(engine') + 1, u, row[u], cached[u])
    BY <1>2, <2>1, <2>2, <2>3, Untouched
  <2> QED
    BY <1>2, <2>1, <2>4
<1>3. Grows(engine, engine) /\ \A j \in DOMAIN engine : ~ (j > Len(engine))
  BY <1>1 DEF Grows
<1>4. CASE UNCHANGED stream_vars
  BY <1>4 DEF NextInv, stream_vars, Holders, Planned
<1>5. CASE NoBatchNow
  <2>1. UNCHANGED <<pool, engine, phase, row, cached, exposed>> /\ cpu = "schedule"
    BY <1>5 DEF NoBatchNow
  <2>2. Holders' = Holders /\ \A u : ~ Planned(u)
    BY <2>1 DEF Holders, Planned
  <2> QED
    BY <1>2, <1>3, <2>1, <2>2
<1>6. ASSUME NEW done \in SUBSET Uids, Finishes(done)
      PROVE  NextInv'
  <2>1. UNCHANGED <<pool, engine, row, cached, exposed>> /\ cpu = "process"
        /\ phase' = [u \in Uids |-> IF u \in done THEN "finished" ELSE phase[u]]
    BY <1>6 DEF Finishes
  <2>2. Holders' \subseteq Holders /\ \A u : ~ Planned(u)
    BY <2>1 DEF Holders, Planned
  <2>3. \A u \in Holders' : phase'[u] = phase[u]
    BY <2>1 DEF Holders
  <2> QED
    BY <1>2, <1>3, <2>1, <2>2, <2>3
<1>7. CASE RunScheduler
  <2>1. UNCHANGED <<engine, phase, row, cached, exposed, cpu, current>>
    BY <1>7, SchedulerEffect
  <2>2. Holders' = Holders /\ \A u : Planned(u)' <=> Planned(u)
    BY <2>1 DEF Holders, Planned
  <2> SUFFICES ASSUME NEW u \in Holders \ exposed, phase[u] = "running", ~ Planned(u)
               PROVE  /\ Settled(engine, Len(engine) + 1, u, row[u], cached[u])
                      /\ Provided(pool', engine, Len(engine) + 1, u, row[u], cached[u])
    BY <2>1, <2>2 DEF NextInv
  <2>3. /\ Settled(engine, Len(engine) + 1, u, row[u], cached[u])
        /\ Provided(pool, engine, Len(engine) + 1, u, row[u], cached[u])
    BY DEF NextInv
  <2>4. row[u] \in Rows /\ cached[u] \in 0..Width - 1 /\ Prompts[u] \in Nat /\ Prompts[u] <= cached[u]
    BY NextPlace
  <2>5. 1 \in DOMAIN sched /\ Head(sched) = sched[1]
    BY <1>7, SchedulerEffect, Executed DEF TypeInv
  <2>6. ~ Touches(Head(sched), row[u], cached[u])
    <3> SUFFICES ASSUME Touches(sched[1], row[u], cached[u]) PROVE FALSE
      BY <2>5
    <3>1. cached[u] < Prompts[u] /\ cached[u] \in Int
      BY <2>5, CopyPlace
    <3> QED
      BY <2>4, <3>1
  <2>7. pool'[row[u]][cached[u]] = pool[row[u]][cached[u]]
    BY <1>7, <2>4, <2>6, SchedulerEffect
  <2> QED
    BY <2>3, <2>7 DEF Provided
<1>8. CASE RunEngine
  <2>1. /\ UNCHANGED <<phase, row, cached, exposed, cpu, current>>
        /\ engine # <<>> /\ engine' = Tail(engine)
    BY <1>8, EngineEffect
  <2>2. Holders' = Holders /\ \A u : Planned(u)' <=> Planned(u)
    BY <2>1 DEF Holders, Planned
  <2>3. Len(engine) \in Nat \ {0} /\ Len(engine') + 1 = Len(engine)
    BY <1>1, <2>1, Executed
  <2> SUFFICES ASSUME NEW u \in Holders \ exposed, phase[u] = "running", ~ Planned(u)
               PROVE  /\ Settled(engine', Len(engine), u, row[u], cached[u])
                      /\ Provided(pool', engine', Len(engine), u, row[u], cached[u])
    BY <2>1, <2>2, <2>3 DEF NextInv
  <2>4. /\ Settled(engine, Len(engine) + 1, u, row[u], cached[u])
        /\ Provided(pool, engine, Len(engine) + 1, u, row[u], cached[u])
    BY DEF NextInv
  <2>5. row[u] \in Rows /\ cached[u] \in 0..Width - 1
    BY NextPlace
  <2> QED
    BY <1>8, <2>3, <2>4, <2>5, Pops
<1>9. ASSUME NEW c \in Copies, NEW b \in Batches, Prefills(b, c)
      PROVE  NextInv'
  <2>1. /\ c.uid \in Uids /\ phase'[c.uid] # "running" /\ \A u \in Holders : row'[u] = row[u]
        /\ \A u \in Uids : u # c.uid => phase'[u] = phase[u] /\ cached'[u] = cached[u]
        /\ Holders' = Holders \union {c.uid}
        /\ \A u \in Holders : row[u] = c.row => u = c.uid
    BY <1>9, PrefillMoves
  <2>2. exposed \subseteq exposed' /\ cpu = "schedule" /\ UNCHANGED pool
    BY <1>9 DEF Prefills, GetsRow, Issues
  <2>3. PICK before \in Seq(Operations) :
          /\ Issues(b, before) /\ Len(before) = 1
          /\ before[1].op = "wait" \/ before[1] = Op("copy", c)
    <3>1. overlap => /\ Issues(b, << Op("wait", copies.issued + 1) >>)
                     /\ Op("wait", copies.issued + 1).op = "wait"
      BY <1>9 DEF Prefills, Op
    <3>2. ~ overlap => Issues(b, << Op("copy", c) >>)
      BY <1>9 DEF Prefills
    <3>3. \A x : Len(<<x>>) = 1 /\ <<x>>[1] = x
      OBVIOUS
    <3> QED
      BY <3>1, <3>2, <3>3 DEF Issues
  <2>4. /\ Grows(engine, engine') /\ Len(engine') = Len(engine) + 2
        /\ DOMAIN engine' = 1..(Len(engine) + 2) /\ engine'[Len(engine) + 1] = before[1]
        /\ engine'[Len(engine) + 2].op = "gather"
    <3>1. Op("gather", b).op = "gather"
      BY DEF Op
    <3> QED
      BY <2>3, <3>1, IssuesTwo
  <2>5. ASSUME NEW u \in Holders' \ exposed', phase'[u] = "running"
        PROVE  /\ u \in Holders \ exposed /\ phase[u] = "running" /\ ~ Planned(u)
               /\ row'[u] = row[u] /\ cached'[u] = cached[u]
               /\ \A j \in DOMAIN engine' : j > Len(engine) => ~ Touches(engine'[j], row[u], cached[u])
    <3>1. u # c.uid /\ u \in Holders /\ u \in Uids
      BY <2>1, <2>5 DEF Holders
    <3>2. ASSUME NEW j \in DOMAIN engine', j > Len(engine)
          PROVE  ~ Touches(engine'[j], row[u], cached[u])
      <4>1. j = Len(engine) + 1 \/ j = Len(engine) + 2
        BY <1>1, <2>4, <3>2
      <4>2. c.row # row[u]
        BY <2>1, <3>1
      <4> QED
        BY <2>3, <2>4, <4>1, <4>2 DEF Touches, Op
    <3> QED
      BY <2>1, <2>2, <2>5, <3>1, <3>2 DEF Planned
  <2> QED
    BY <1>2, <2>2, <2>4, <2>5
<1>10. ASSUME NEW b \in Batches, NEW before \in Seq(Operations), Decodes(b, before)
       PROVE  NextInv'
  <2>1. /\ phase' = phase /\ current' = b /\ cpu' = "plan"
        /\ b.reqs = {NextShare(u) : u \in Decoding}
    BY <1>10 DEF Decodes, Issues
  <2>2. ASSUME NEW u \in Holders', phase'[u] = "running"
        PROVE  Planned(u)'
    <3>1. u \in Decoding
      BY <2>1, <2>2 DEF Holders, Decoding
    <3>2. NextShare(u) \in b.reqs /\ NextShare(u).uid = u
      BY <2>1, <3>1 DEF NextShare
    <3> QED
      BY <2>1, <3>2 DEF Planned
  <2> QED
    BY <2>2 DEF NextInv
<1>11. CASE ForwardBatch
  <2>1. /\ UNCHANGED <<row, cached, exposed, pool>> /\ cpu = "plan"
        /\ phase' = [u \in Uids |->
             IF \E r \in current.reqs : r.uid = u /\ r.out = r.to /\ phase[u] # "finished"
             THEN IF cached[u] + 1 < MaxLen(u) THEN "running" ELSE "last" ELSE phase[u]]
    BY <1>11 DEF ForwardBatch
  <2> DEFINE n == Len(engine)
  <2>2. /\ Grows(engine, engine') /\ Len(engine') = n + 4 /\ DOMAIN engine' = 1..(n + 4)
        /\ engine'[n + 1].op = "h2d" /\ engine'[n + 2].op = "run" /\ engine'[n + 3].op = "sample"
        /\ engine'[n + 4] = Op("write", current)
    BY <1>1, <1>11, ForwardAppends DEF Op, Grows
  <2>3. n \in Nat /\ DOMAIN engine = 1..n
    BY <1>1
  <2> HIDE DEF n
  <2>4. \A r \in current.reqs : /\ r.uid \in Uids /\ r.uid \in Holders /\ IsShare(r)
                                /\ r.to = cached[r.uid] /\ r.row = row[r.uid]
    BY <2>1 DEF BatchInv, IsBatch, IsShare, Holders
  <2>5. \A u \in Uids : phase'[u] = phase[u] \/ u \in Holders
    BY <2>1, <2>4
  <2>6. Holders' \subseteq Holders
    BY <2>5 DEF Holders
  <2> SUFFICES ASSUME NEW u \in Holders \ exposed, phase'[u] = "running"
               PROVE  /\ Settled(engine', n + 5, u, row[u], cached[u])
                      /\ Provided(pool, engine', n + 5, u, row[u], cached[u])
    <3>1. Len(engine') + 1 = n + 5
      BY <2>2, <2>3
    <3> QED
      BY <2>1, <2>6, <3>1 DEF NextInv
  <2>7. u \in Uids
    BY DEF Holders
  <2>8. CASE \E r \in current.reqs : r.uid = u /\ r.out = r.to
    <3>1. PICK r \in current.reqs : r.uid = u /\ r.out = r.to
      BY <2>8
    <3>2. /\ r.row = row[u] /\ r.out = cached[u] /\ IsShare(r) /\ r.to = cached[u]
      BY <2>4, <3>1
    <3>3. r.token = Token(u, cached[u])
      <4>1. /\ Width \in Nat /\ Prompts[u] \in Nat /\ MaxLen(u) \in Nat /\ Prompts[u] < MaxLen(u)
            /\ MaxLen(u) <= Width
        BY <2>7, Lengths, WidthIsEnough
      <4>2. \/ r.to < Prompts[u] /\ r.out = Width - 1
            \/ r.token = Token(u, r.to)
        BY <3>1, <3>2 DEF IsShare
      <4>3. ~ (r.to < Prompts[u] /\ r.to = Width - 1)
        BY <4>1
      <4> QED
        BY <3>1, <3>2, <4>2, <4>3
    <3>4. Gives(engine'[n + 4], u, row[u], cached[u])
      BY <2>2, <3>1, <3>2, <3>3 DEF Gives, Op
    <3>5. n + 4 \in DOMAIN engine' /\ n + 4 < n + 5 /\ \A j \in DOMAIN engine' : j = n + 4 \/ j < n + 4
      <4>1. n \in Nat /\ DOMAIN engine' = 1..(n + 4)
        BY <2>2, <2>3
      <4> QED
        BY ONLY <4>1
    <3> QED
      BY <3>4, <3>5 DEF Settled, Provided
  <2>9. CASE ~ \E r \in current.reqs : r.uid = u /\ r.out = r.to
    <3>1. phase[u] = "running"
      BY <2>1, <2>7, <2>9
    <3>2. \A r \in current.reqs : r.uid # u
      <4> SUFFICES ASSUME NEW r \in current.reqs, r.uid = u PROVE FALSE
        OBVIOUS
      <4>1. r.to < Prompts[u] /\ r.to = cached[u] /\ cached[u] \in Nat
        BY <2>4, <2>7, <2>9 DEF IsShare, TypeInv
      <4>2. cached[u] >= Prompts[u] /\ Prompts[u] \in Nat
        BY <2>7, <3>1, Lengths DEF LengthInv
      <4> QED
        BY <4>1, <4>2
    <3>3. ~ Planned(u)
      BY <3>2 DEF Planned
    <3>4. /\ Settled(engine, n + 1, u, row[u], cached[u])
          /\ Provided(pool, engine, n + 1, u, row[u], cached[u])
      BY <3>1, <3>3 DEF NextInv, n
    <3>5. ASSUME NEW j \in DOMAIN engine', j > n
          PROVE  ~ Touches(engine'[j], row[u], cached[u])
      <4>1. \A r \in current.reqs : r.row # row[u]
        BY <2>4, <3>2 DEF RowInv
      <4>2. j = n + 1 \/ j = n + 2 \/ j = n + 3 \/ j = n + 4
        BY <2>2, <2>3, <3>5
      <4> QED
        BY <2>2, <4>1, <4>2 DEF Touches, Op
    <3>6. n + 5 \in (n + 1)..(Len(engine') + 1)
      <4>1. n \in Nat /\ Len(engine') = n + 4
        BY <2>2, <2>3
      <4> QED
        BY ONLY <4>1
    <3> QED
      BY <2>2, <3>4, <3>5, <3>6, Untouched DEF n
  <2> QED
    BY <2>8, <2>9
<1> QED
  BY <1>4, <1>5, <1>6, <1>7, <1>8, <1>9, <1>10, <1>11, StepIs

(* Where a batch that is issued looks.                                      *)
LEMMA GatherPlace ==
  ASSUME TypeInv, RowInv, BatchInv, NEW i \in DOMAIN engine, engine[i].op = "gather",
         NEW r \in engine[i].arg.reqs, phase[r.uid] # "finished", NEW c \in r.from..r.to - 1
  PROVE  /\ r.uid \in Uids /\ r.uid \in Holders /\ r.row = row[r.uid] /\ r.row \in Rows
         /\ c \in 0..Width - 1
<1>1. r \in Shares /\ r.uid \in Uids /\ IsShare(r)
  BY BatchOp DEF BatchOps
<1>2. r.uid \in Holders /\ r.row = row[r.uid]
  BY <1>1 DEF IsShare, Holders
<1>3. /\ Width \in Nat /\ MaxLen(r.uid) \in Nat /\ Prompts[r.uid] \in Nat
      /\ Prompts[r.uid] < MaxLen(r.uid) /\ MaxLen(r.uid) <= Width
  BY <1>1, Lengths, WidthIsEnough
<1>4. r.to \in Nat /\ r.from \in Nat /\ (r.to < Prompts[r.uid] \/ r.to < MaxLen(r.uid))
  BY <1>1 DEF IsShare, Shares
<1>5. c \in 0..Width - 1
  BY <1>3, <1>4
<1> QED
  BY <1>1, <1>2, <1>5 DEF RowInv

(* A batch that is issued will find the tokens it looks for.                *)
LEMMA GatherStep ==
  ASSUME StreamsInv, [StreamsNext]_stream_vars
  PROVE  GatherInv'
<1> USE DEF StreamsInv
<1>1. /\ DOMAIN engine = 1..Len(engine) /\ Len(engine) \in Nat /\ engine \in Seq(Operations)
      /\ DOMAIN sched = 1..Len(sched) /\ Len(sched) \in Nat /\ copies.done \in Nat
  BY DEF TypeInv
<1>2. ASSUME NEW i \in DOMAIN engine, engine[i].op = "gather", NEW r \in engine[i].arg.reqs,
             phase'[r.uid] # "finished", r.uid \notin exposed', NEW c \in r.from..r.to - 1
      PROVE  /\ phase[r.uid] # "finished" /\ r.uid \notin exposed
             /\ Settled(engine, i, r.uid, r.row, c)
             /\ \/ Provided(pool, engine, i, r.uid, r.row, c)
                \/ OnItsWay(sched, engine, copies.done, i, r.uid, r.row, c)
             /\ i \in 1..(Len(engine) + 1)
  <2>1. r.uid \in Uids /\ phase[r.uid] # "waiting"
    BY <1>2, BatchOp DEF BatchOps, IsShare
  <2>2. phase[r.uid] # "finished" /\ r.uid \notin exposed
    BY <1>2, <2>1, Onward
  <2> QED
    BY <1>1, <1>2, <2>2 DEF GatherInv
<1>3. ASSUME Grows(engine, engine'), UNCHANGED pool, copies'.done = copies.done,
             DOMAIN sched \subseteq DOMAIN sched', \A k \in DOMAIN sched : sched'[k] = sched[k],
             \A i \in DOMAIN engine' : i \notin DOMAIN engine /\ engine'[i].op = "gather" =>
               \A r \in engine'[i].arg.reqs : r.uid \notin exposed' =>
                 \A c \in r.from..r.to - 1 :
                   /\ Settled(engine', i, r.uid, r.row, c)
                   /\ \/ Provided(pool, engine', i, r.uid, r.row, c)
                      \/ OnItsWay(sched', engine', copies.done, i, r.uid, r.row, c)
      PROVE  GatherInv'
  <2> SUFFICES ASSUME NEW i \in DOMAIN engine', engine'[i].op = "gather",
                      NEW r \in engine'[i].arg.reqs, phase'[r.uid] # "finished",
                      r.uid \notin exposed', NEW c \in r.from..r.to - 1
               PROVE  /\ Settled(engine', i, r.uid, r.row, c)
                      /\ \/ Provided(pool, engine', i, r.uid, r.row, c)
                         \/ OnItsWay(sched', engine', copies.done, i, r.uid, r.row, c)
    BY <1>3 DEF GatherInv
  <2>1. CASE i \notin DOMAIN engine
    BY <1>3, <2>1
  <2>2. CASE i \in DOMAIN engine
    <3>1. engine[i] = engine'[i]
      BY <1>3, <2>2 DEF Grows
    <3>2. /\ Settled(engine, i, r.uid, r.row, c)
          /\ \/ Provided(pool, engine, i, r.uid, r.row, c)
             \/ OnItsWay(sched, engine, copies.done, i, r.uid, r.row, c)
          /\ i \in 1..(Len(engine) + 1)
      BY <1>2, <2>2, <3>1
    <3>3. Settled(engine', i, r.uid, r.row, c)
      BY <1>3, <3>2, Extended
    <3>4. Provided(pool, engine, i, r.uid, r.row, c) => Provided(pool, engine', i, r.uid, r.row, c)
      BY <1>3, <3>2, Extended
    <3>5. OnItsWay(sched, engine, copies.done, i, r.uid, r.row, c) =>
            OnItsWay(sched', engine', copies.done, i, r.uid, r.row, c)
      <4>1. OnItsWay(sched, engine, copies.done, i, r.uid, r.row, c) =>
              OnItsWay(sched, engine', copies.done, i, r.uid, r.row, c)
        BY <1>3, <3>2, Extended
      <4>2. OnItsWay(sched, engine', copies.done, i, r.uid, r.row, c) =>
              OnItsWay(sched', engine', copies.done, i, r.uid, r.row, c)
        BY <1>3 DEF OnItsWay
      <4> QED
        BY <4>1, <4>2
    <3> QED
      BY <3>2, <3>3, <3>4, <3>5
  <2> QED
    BY <2>1, <2>2
<1>4. CASE UNCHANGED <<engine, pool, sched, copies>>
  <2>1. Grows(engine, engine')
    BY <1>1, <1>4 DEF Grows
  <2> QED
    BY <1>3, <1>4, <2>1
<1>5. CASE UNCHANGED stream_vars
  BY <1>4, <1>5 DEF stream_vars
<1>6. CASE NoBatchNow
  BY <1>4, <1>6 DEF NoBatchNow
<1>7. ASSUME NEW done \in SUBSET Uids, Finishes(done)
      PROVE  GatherInv'
  BY <1>4, <1>7 DEF Finishes
<1>8. CASE ForwardBatch
  <2>1. UNCHANGED <<pool, sched, copies>>
    BY <1>8 DEF ForwardBatch
  <2>2. /\ engine' \in Seq(Operations) /\ Len(engine') = Len(engine) + 4
        /\ DOMAIN engine' = 1..(Len(engine) + 4)
        /\ \A i \in DOMAIN engine : engine'[i] = engine[i]
        /\ \A i \in {Len(engine) + 1, Len(engine) + 2, Len(engine) + 3, Len(engine) + 4} :
             engine'[i].op # "gather"
    BY <1>8, ForwardAppends DEF Op
  <2>3. Grows(engine, engine')
    BY <1>1, <2>2 DEF Grows
  <2>4. \A i \in DOMAIN engine' : i \in DOMAIN engine \/
          i \in {Len(engine) + 1, Len(engine) + 2, Len(engine) + 3, Len(engine) + 4}
    BY <1>1, <2>2
  <2> QED
    BY <1>3, <2>1, <2>2, <2>3, <2>4
<1>9. CASE RunScheduler
  <2>1. /\ sched # <<>> /\ sched' = Tail(sched)
        /\ copies' = [copies EXCEPT !.done = copies.done + 1]
        /\ UNCHANGED <<phase, engine, exposed>>
    BY <1>9, SchedulerEffect
  <2>2. 1 \in DOMAIN sched /\ Head(sched) = sched[1] /\ copies'.done = copies.done + 1
    BY <2>1, Executed DEF TypeInv
  <2>3. \A k \in DOMAIN sched : \/ k = 1
                                \/ k - 1 \in DOMAIN sched' /\ sched'[k - 1] = sched[k]
    <3>1. /\ DOMAIN sched' = 1..(Len(sched) - 1)
          /\ \A j \in 1..(Len(sched) - 1) : sched'[j] = sched[j + 1]
      BY <2>1, Executed DEF TypeInv
    <3> QED
      BY <1>1, <3>1
  <2> SUFFICES ASSUME NEW i \in DOMAIN engine, engine[i].op = "gather",
                      NEW r \in engine[i].arg.reqs, phase[r.uid] # "finished",
                      r.uid \notin exposed, NEW c \in r.from..r.to - 1
               PROVE  /\ Settled(engine, i, r.uid, r.row, c)
                      /\ \/ Provided(pool', engine, i, r.uid, r.row, c)
                         \/ OnItsWay(sched', engine, copies'.done, i, r.uid, r.row, c)
    BY <2>1 DEF GatherInv
  <2>4. /\ Settled(engine, i, r.uid, r.row, c)
        /\ \/ Provided(pool, engine, i, r.uid, r.row, c)
           \/ OnItsWay(sched, engine, copies.done, i, r.uid, r.row, c)
    BY DEF GatherInv
  <2>5. r.uid \in Holders /\ r.row = row[r.uid] /\ r.row \in Rows /\ c \in 0..Width - 1
    BY GatherPlace
  <2>6. /\ Gives(sched[1], r.uid, r.row, c) => pool'[r.row][c] = Token(r.uid, c)
        /\ ~ Touches(sched[1], r.row, c) => pool'[r.row][c] = pool[r.row][c]
    <3>1. \A v, x, y : x \in Rows /\ y \in 0..Width - 1 =>
            /\ Gives(Head(sched), v, x, y) => pool'[x][y] = Token(v, y)
            /\ ~ Touches(Head(sched), x, y) => pool'[x][y] = pool[x][y]
      BY <1>9, SchedulerEffect
    <3> PICK h, x, v : h = Head(sched) /\ x = r.row /\ v = r.uid
      OBVIOUS
    <3>2. /\ Gives(h, v, x, c) => pool'[x][c] = Token(v, c)
          /\ ~ Touches(h, x, c) => pool'[x][c] = pool[x][c]
      BY <2>5, <3>1
    <3> QED
      BY <2>2, <3>2
  <2>7. Touches(sched[1], r.row, c) => Gives(sched[1], r.uid, r.row, c)
    BY <2>2, <2>5, CopyPlace
  <2>8. CASE Provided(pool, engine, i, r.uid, r.row, c)
    BY <2>4, <2>6, <2>7, <2>8 DEF Provided
  <2>9. CASE OnItsWay(sched, engine, copies.done, i, r.uid, r.row, c)
    <3>1. PICK k \in DOMAIN sched : /\ Gives(sched[k], r.uid, r.row, c)
                                    /\ WaitsBefore(engine, i, copies.done + k)
      BY <2>9 DEF OnItsWay
    <3>2. CASE k = 1
      BY <2>4, <2>6, <3>1, <3>2 DEF Provided
    <3>3. CASE k # 1
      <4>1. k - 1 \in DOMAIN sched' /\ sched'[k - 1] = sched[k]
        BY <2>3, <3>3
      <4>2. copies'.done + (k - 1) = copies.done + k
        <5> PICK d, e : d = copies.done /\ e = copies'.done
          OBVIOUS
        <5>1. d \in Nat /\ e = d + 1 /\ k \in Nat
          BY <1>1, <2>2
        <5>2. e + (k - 1) = d + k
          BY ONLY <5>1
        <5> QED
          BY <5>2
      <4>3. OnItsWay(sched', engine, copies'.done, i, r.uid, r.row, c)
        BY <3>1, <4>1, <4>2 DEF OnItsWay
      <4> QED
        BY <2>4, <4>3
    <3> QED
      BY <3>2, <3>3
  <2> QED
    BY <2>4, <2>8, <2>9
<1>10. CASE RunEngine
  <2>1. /\ engine # <<>> /\ engine' = Tail(engine)
        /\ UNCHANGED <<phase, sched, copies, exposed>>
    BY <1>10, EngineEffect
  <2> SUFFICES ASSUME NEW i \in DOMAIN engine', engine'[i].op = "gather",
                      NEW r \in engine'[i].arg.reqs, phase[r.uid] # "finished",
                      r.uid \notin exposed, NEW c \in r.from..r.to - 1
               PROVE  /\ Settled(engine', i, r.uid, r.row, c)
                      /\ \/ Provided(pool', engine', i, r.uid, r.row, c)
                         \/ OnItsWay(sched, engine', copies.done, i, r.uid, r.row, c)
    BY <2>1 DEF GatherInv
  <2>2. i \in Nat \ {0} /\ i + 1 \in DOMAIN engine /\ engine'[i] = engine[i + 1]
    BY <2>1, Executed DEF TypeInv
  <2>3. /\ Settled(engine, i + 1, r.uid, r.row, c)
        /\ \/ Provided(pool, engine, i + 1, r.uid, r.row, c)
           \/ OnItsWay(sched, engine, copies.done, i + 1, r.uid, r.row, c)
    BY <2>2 DEF GatherInv
  <2>4. r.row \in Rows /\ c \in 0..Width - 1
    BY <2>2, GatherPlace
  <2>5. /\ Settled(engine', i, r.uid, r.row, c)
        /\ Provided(pool, engine, i + 1, r.uid, r.row, c) =>
             Provided(pool', engine', i, r.uid, r.row, c)
    BY <1>10, <2>2, <2>3, <2>4, Pops
  <2>6. OnItsWay(sched, engine, copies.done, i + 1, r.uid, r.row, c) =>
          OnItsWay(sched, engine', copies.done, i, r.uid, r.row, c)
    <3>1. \A k \in DOMAIN sched : k \in Nat \ {0}
      BY <1>1
    <3>2. \A k \in DOMAIN sched : WaitsBefore(engine, i + 1, copies.done + k) =>
            WaitsBefore(engine', i, copies.done + k)
      BY <1>10, <2>2, <3>1, StillWaits
    <3> QED
      BY <3>2 DEF OnItsWay
  <2> QED
    BY <2>3, <2>5, <2>6
<1>11. ASSUME NEW c \in Copies, NEW b \in Batches, Prefills(b, c)
       PROVE  GatherInv'
  <2>1. /\ c.uid \in Uids /\ c.row \in Rows
    BY DEF Copies
  <2>2. /\ b.reqs = {PromptShare(c)} /\ PromptShare(c).uid = c.uid /\ PromptShare(c).row = c.row
        /\ PromptShare(c).from = c.from /\ PromptShare(c).to = c.to
        /\ c.from \in Nat /\ c.to \in Nat /\ c.to <= Prompts[c.uid] /\ Prompts[c.uid] \in Nat
        /\ Prompts[c.uid] < MaxLen(c.uid) /\ MaxLen(c.uid) <= Width /\ MaxLen(c.uid) \in Nat
        /\ Width \in Nat
    BY <1>11, <2>1, Lengths, WidthIsEnough DEF Prefills, PromptShare, Copies
  <2>3. Op("copy", c) \in CopyOps /\ \A at \in c.from..c.to - 1 : Gives(Op("copy", c), c.uid, c.row, at)
    BY DEF CopyOps, Op, Gives
  <2>4. CASE ~ overlap
    <3> DEFINE before == << Op("copy", c) >>
    <3>1. Issues(b, before) /\ UNCHANGED <<sched, copies, pool>>
      BY <1>11, <2>4 DEF Prefills, Issues
    <3>6. Len(before) = 1 /\ before[1] = Op("copy", c)
      OBVIOUS
    <3> HIDE DEF before
    <3>2. /\ Grows(engine, engine') /\ Len(engine') = Len(engine) + 2
          /\ DOMAIN engine' = 1..(Len(engine) + 2)
          /\ engine'[Len(engine) + 1] = Op("copy", c)
          /\ engine'[Len(engine) + 2] = Op("gather", b)
      BY <3>1, <3>6, IssuesTwo
    <3>3. ASSUME NEW at \in c.from..c.to - 1
          PROVE  /\ Settled(engine', Len(engine) + 2, c.uid, c.row, at)
                 /\ Provided(pool, engine', Len(engine) + 2, c.uid, c.row, at)
      <4>1. Gives(engine'[Len(engine) + 1], c.uid, c.row, at)
        BY <2>3, <3>2
      <4>2. /\ Len(engine) + 1 \in DOMAIN engine' /\ Len(engine) + 1 < Len(engine) + 2
            /\ \A j \in DOMAIN engine' : j < Len(engine) + 2 => j = Len(engine) + 1 \/ j < Len(engine) + 1
        BY <1>1, <3>2
      <4> QED
        BY <4>1, <4>2 DEF Settled, Provided
    <3>4. \A i \in DOMAIN engine' : i \notin DOMAIN engine /\ engine'[i].op = "gather" =>
            i = Len(engine) + 2 /\ engine'[i].arg = b
      <4>1. engine'[Len(engine) + 1].op # "gather" /\ engine'[Len(engine) + 2].arg = b
        BY <3>2 DEF Op
      <4>2. \A i \in DOMAIN engine' : i \in DOMAIN engine \/ i = Len(engine) + 1 \/ i = Len(engine) + 2
        BY <1>1, <3>2
      <4> QED
        BY <4>1, <4>2
    <3>5. \A i \in DOMAIN engine' : i \notin DOMAIN engine /\ engine'[i].op = "gather" =>
            \A r \in engine'[i].arg.reqs : \A at \in r.from..r.to - 1 :
              /\ Settled(engine', i, r.uid, r.row, at)
              /\ Provided(pool, engine', i, r.uid, r.row, at)
      BY <2>2, <3>3, <3>4
    <3> QED
      BY <1>3, <3>1, <3>2, <3>5
  <2>5. CASE overlap
    <3> DEFINE w == Op("wait", copies.issued + 1)
               before == << w >>
    <3>1. /\ Issues(b, before) /\ sched' = sched \o << Op("copy", c) >>
          /\ copies' = [copies EXCEPT !.issued = copies.issued + 1]
          /\ UNCHANGED pool /\ GetsRow(c.uid, c.row)
      BY <1>11, <2>5 DEF Prefills, Issues
    <3>2. w.op = "wait" /\ w.arg = copies.issued + 1
      BY DEF Op
    <3>12. Len(before) = 1 /\ before[1] = w
      OBVIOUS
    <3> HIDE DEF w, before
    <3>3. /\ Grows(engine, engine') /\ Len(engine') = Len(engine) + 2
          /\ DOMAIN engine' = 1..(Len(engine) + 2)
          /\ engine'[Len(engine) + 1] = w /\ engine'[Len(engine) + 2] = Op("gather", b)
      BY <3>1, <3>12, IssuesTwo
    <3>4. /\ DOMAIN sched' = 1..(Len(sched) + 1) /\ \A k \in DOMAIN sched : sched'[k] = sched[k]
          /\ sched'[Len(sched) + 1] = Op("copy", c)
      BY <1>1, <2>3, <3>1 DEF TypeInv
    <3>5. copies'.done = copies.done /\ copies.issued = copies.done + Len(sched)
      BY <3>1 DEF TypeInv, CopyInv
    <3>6. ASSUME NEW at \in c.from..c.to - 1
          PROVE  OnItsWay(sched', engine', copies.done, Len(engine) + 2, c.uid, c.row, at)
      <4>1. Gives(sched'[Len(sched) + 1], c.uid, c.row, at) /\ Len(sched) + 1 \in DOMAIN sched'
        BY <1>1, <2>3, <3>4
      <4>2. Len(engine) + 1 \in DOMAIN engine' /\ Len(engine) + 1 < Len(engine) + 2
        BY <1>1, <3>3
      <4>3. copies.issued + 1 >= copies.done + (Len(sched) + 1)
        <5> PICK d, n : d = copies.done /\ n = Len(sched)
          OBVIOUS
        <5>1. d \in Nat /\ n \in Nat /\ copies.issued = d + n
          BY <1>1, <3>5
        <5>2. (d + n) + 1 >= d + (n + 1)
          BY ONLY <5>1
        <5> QED
          BY <5>1, <5>2
      <4>4. WaitsBefore(engine', Len(engine) + 2, copies.done + (Len(sched) + 1))
        BY <3>2, <3>3, <4>2, <4>3 DEF WaitsBefore
      <4> QED
        BY <4>1, <4>4 DEF OnItsWay
    <3>7. ASSUME c.uid \notin exposed', NEW at \in c.from..c.to - 1, NEW j \in DOMAIN engine',
                 j < Len(engine) + 2
          PROVE  ~ Touches(engine'[j], c.row, at)
      <4>1. CASE j = Len(engine) + 1
        BY <3>2, <3>3, <4>1 DEF Touches
      <4>2. CASE j # Len(engine) + 1
        <5>1. j \in DOMAIN engine /\ engine'[j] = engine[j]
          BY <1>1, <3>3, <3>7, <4>2 DEF Grows
        <5>2. SUFFICES ASSUME NEW q \in engine[j].arg.reqs, engine[j].op = "write",
                              q.row = c.row, q.out = at
                       PROVE  FALSE
          <6>1. engine[j].op # "copy"
            BY <2>5, <5>1 DEF OwnInv
          <6> QED
            BY <5>1, <6>1 DEF Touches
        <5>3. WriteQueued(c.row)
          <6>1. engine[j] \in ToSet(engine)
            BY <5>1 DEF ToSet
          <6> QED
            BY <5>2, <6>1 DEF WriteQueued
        <5>4. phase[c.uid] = "chunked" /\ c.row = row[c.uid] /\ c.uid \notin exposed
          BY <2>1, <2>5, <3>1, <3>7, <5>3 DEF GetsRow
        <5>5. c.uid \in Holders
          BY <2>1, <5>4 DEF Holders
        <5>6. q.uid = c.uid
          BY <2>5, <5>1, <5>2, <5>4, <5>5 DEF OwnInv
        <5>7. IsShare(q)
          BY <5>1, <5>2, BatchOp DEF BatchOps
        <5>8. q.out = Width - 1
          BY <5>4, <5>6, <5>7 DEF IsShare
        <5>9. at < Width - 1
          BY <2>2
        <5> QED
          BY <2>2, <5>2, <5>8, <5>9
      <4> QED
        BY <4>1, <4>2
    <3>8. ASSUME c.uid \notin exposed', NEW at \in c.from..c.to - 1
          PROVE  Settled(engine', Len(engine) + 2, c.uid, c.row, at)
      BY <3>7, <3>8 DEF Settled
    <3>9. \A i \in DOMAIN engine' : i \notin DOMAIN engine /\ engine'[i].op = "gather" =>
            i = Len(engine) + 2 /\ engine'[i].arg = b
      BY <1>1, <3>2, <3>3 DEF Op
    <3>10. \A i \in DOMAIN engine' : i \notin DOMAIN engine /\ engine'[i].op = "gather" =>
             \A r \in engine'[i].arg.reqs : r.uid \notin exposed' =>
               \A at \in r.from..r.to - 1 :
                 /\ Settled(engine', i, r.uid, r.row, at)
                 /\ OnItsWay(sched', engine', copies.done, i, r.uid, r.row, at)
      BY <2>2, <3>6, <3>8, <3>9
    <3>11. DOMAIN sched \subseteq DOMAIN sched'
      BY <1>1, <3>4
    <3> QED
      BY <1>3, <3>1, <3>3, <3>4, <3>5, <3>10, <3>11
  <2> QED
    BY <2>4, <2>5
<1>12. ASSUME NEW b \in Batches, NEW before \in Seq(Operations), Decodes(b, before)
       PROVE  GatherInv'
  <2>1. /\ UNCHANGED <<sched, copies, pool, exposed>> /\ Issues(b, before) /\ cpu = "schedule"
        /\ b.reqs = {NextShare(u) : u \in Decoding}
    BY <1>12 DEF Decodes, Issues
  <2>2. \A j \in DOMAIN before : before[j].op = "wait"
    BY <1>12 DEF Decodes, Op
  <2> DEFINE m == Len(engine')
  <2>3. /\ engine' \in Seq(Operations) /\ Len(engine) \in Nat /\ Len(before) \in Nat
        /\ m = Len(engine) + Len(before) + 1
        /\ DOMAIN engine' = 1..m /\ DOMAIN before = 1..Len(before)
        /\ \A i \in DOMAIN engine : engine'[i] = engine[i]
        /\ \A i \in DOMAIN before : engine'[Len(engine) + i] = before[i]
        /\ engine'[m] = Op("gather", b)
        /\ \A i \in DOMAIN engine' : i > Len(engine) /\ engine'[i].op \in BatchOps =>
             i = m /\ engine'[i].arg = b
    BY <2>1, IssuesAppends
  <2> HIDE DEF m
  <2>4. m \in (Len(engine) + 1)..(m + 1) /\ Len(engine) <= m
    BY <2>3
  <2>5. Grows(engine, engine') /\ Len(engine') = m
    BY <1>1, <2>3, <2>4 DEF Grows, m
  <2>6. ASSUME NEW j \in DOMAIN engine', j > Len(engine)
        PROVE  engine'[j].op \in {"wait", "gather"}
    <3>1. CASE j = m
      BY <2>3, <3>1 DEF Op
    <3>2. CASE j # m
      <4>1. j - Len(engine) \in 1..Len(before) /\ j = Len(engine) + (j - Len(engine))
        BY <2>3, <2>6, <3>2
      <4>2. engine'[j] = before[j - Len(engine)]
        BY <2>3, <4>1
      <4> QED
        BY <2>2, <2>3, <4>1, <4>2
    <3> QED
      BY <3>1, <3>2
  <2>7. \A j \in DOMAIN engine' : j > Len(engine) => \A r, c : ~ Touches(engine'[j], r, c)
    BY <2>6 DEF Touches
  <2>8. ASSUME NEW i \in DOMAIN engine', i \notin DOMAIN engine, engine'[i].op = "gather",
               NEW r \in engine'[i].arg.reqs, r.uid \notin exposed, NEW c \in r.from..r.to - 1
        PROVE  /\ Settled(engine', i, r.uid, r.row, c)
               /\ Provided(pool, engine', i, r.uid, r.row, c)
    <3>1. i > Len(engine)
      BY <1>1, <2>3, <2>8
    <3>2. i = m /\ r \in b.reqs
      BY <2>3, <2>8, <3>1 DEF BatchOps
    <3>3. PICK u \in Decoding : r = NextShare(u)
      BY <2>1, <3>2
    <3>4. u \in Uids /\ phase[u] = "running" /\ u \in Holders
      BY <3>3 DEF Decoding, Holders
    <3>5. r.uid = u /\ r.row = row[u] /\ r.from = cached[u] /\ r.to = cached[u] + 1
      BY <3>3 DEF NextShare
    <3>6. c = cached[u]
      <4>1. cached[u] \in Nat
        BY <3>4 DEF TypeInv
      <4> QED
        BY <2>8, <3>5, <4>1
    <3>7. /\ Settled(engine, Len(engine) + 1, u, row[u], cached[u])
          /\ Provided(pool, engine, Len(engine) + 1, u, row[u], cached[u])
      BY <2>1, <2>8, <3>4, <3>5 DEF NextInv, Planned
    <3>8. /\ Settled(engine', m, u, row[u], cached[u])
          /\ \A p : Provided(p, engine, Len(engine) + 1, u, row[u], cached[u]) =>
               Provided(p, engine', m, u, row[u], cached[u])
      BY <2>4, <2>5, <2>7, <3>7, Untouched
    <3> QED
      BY <3>2, <3>5, <3>6, <3>7, <3>8
  <2> QED
    BY <1>3, <2>1, <2>5, <2>8
<1> QED
  BY <1>5, <1>6, <1>7, <1>8, <1>9, <1>10, <1>11, <1>12, StepIs

(* What a batch took from the pool are the tokens it looked for.            *)
LEMMA InputStep ==
  ASSUME StreamsInv, [StreamsNext]_stream_vars
  PROVE  InputInv'
<1> USE DEF StreamsInv
<1>1. CASE UNCHANGED input
  BY <1>1 DEF InputInv
<1>2. CASE RunEngine /\ input' # input
  <2>1. /\ engine # <<>> /\ Head(engine).op = "gather"
        /\ input' = {[req |-> r, got |-> [c \in r.from..r.to - 1 |-> pool[r.row][c]]] :
             r \in {s \in Head(engine).arg.reqs : phase[s.uid] # "finished" /\ s.uid \notin exposed}}
    BY <1>2 DEF RunEngine, Executes, Now
  <2>2. 1 \in DOMAIN engine /\ Head(engine) = engine[1] /\ \A j \in DOMAIN engine : ~ (j < 1)
    BY <2>1, Executed DEF TypeInv
  <2>3. ASSUME NEW r \in engine[1].arg.reqs, phase[r.uid] # "finished", r.uid \notin exposed,
               NEW c \in r.from..r.to - 1
        PROVE  pool[r.row][c] = Token(r.uid, c)
    <3>1. \/ Provided(pool, engine, 1, r.uid, r.row, c)
          \/ OnItsWay(sched, engine, copies.done, 1, r.uid, r.row, c)
      BY <2>1, <2>2, <2>3 DEF GatherInv
    <3>2. ~ OnItsWay(sched, engine, copies.done, 1, r.uid, r.row, c)
      BY <2>2 DEF OnItsWay, WaitsBefore
    <3> QED
      BY <2>2, <3>1, <3>2 DEF Provided
  <2> SUFFICES ASSUME NEW i \in input', NEW c \in DOMAIN i.got
               PROVE  i.got[c] = Token(i.req.uid, c)
    BY DEF InputInv
  <2>4. PICK r \in engine[1].arg.reqs :
          /\ phase[r.uid] # "finished" /\ r.uid \notin exposed
          /\ i = [req |-> r, got |-> [x \in r.from..r.to - 1 |-> pool[r.row][x]]]
    BY <2>1, <2>2
  <2>5. i.req = r /\ c \in r.from..r.to - 1 /\ i.got[c] = pool[r.row][c]
    BY <2>4
  <2> QED
    BY <2>3, <2>4, <2>5
<1>3. \/ UNCHANGED input
      \/ RunEngine
  BY DEF StreamsNext, Prefill, Decode, NoBatchNow, ForwardBatch, Process, RunScheduler, stream_vars
<1> QED
  BY <1>1, <1>2, <1>3

-----------------------------------------------------------------------------
(* The theorem                                                              *)

(* Every step preserves the invariant.                                      *)
LEMMA Invariance ==
  ASSUME StreamsInv, [StreamsNext]_stream_vars
  PROVE  StreamsInv'
<1>1. /\ TypeInv' /\ RowInv' /\ LengthInv' /\ BatchInv' /\ PlanInv' /\ CopyInv'
      /\ OwnInv' /\ NextInv' /\ GatherInv' /\ InputInv'
  BY TypeStep, RowStep, LengthStep, BatchStep, PlanStep, CopyStep, OwnStep, NextStep, GatherStep,
     InputStep
<1> QED
  BY <1>1 DEF StreamsInv

(* The invariant is one of every behaviour.                                 *)
LEMMA Invariant == StreamsSpec => []StreamsInv
<1>1. StreamsInit => StreamsInv
  BY StreamsInitInv
<1>2. StreamsInv /\ [StreamsNext]_stream_vars => StreamsInv'
  BY Invariance
<1> QED
  BY <1>1, <1>2, PTL DEF StreamsSpec

(* However far Python and the two streams of the device run apart, in both  *)
(* loops every attention runs by the plan made for its own batch, and every *)
(* batch takes from the token pool, at its requests' positions, the prompt  *)
(* tokens copied and the sampled tokens written for them, unless a request  *)
(* was given a row that the engine's stream had yet to write.               *)
THEOREM BatchesFindTheirTokens == StreamsSpec => []StreamsExact
<1>1. StreamsInv => StreamsExact
  BY DEF StreamsInv, PlanInv, InputInv, StreamsExact
<1> QED
  BY <1>1, Invariant, PTL

============================================================================
