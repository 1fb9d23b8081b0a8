------------------------ MODULE SchedulerPoolProofs ------------------------
(***************************************************************************)
(* Proofs about Scheduler and the KV pool: every page is in exactly one    *)
(* place, what the pages hold, and that there are enough of them.          *)
(*                                                                         *)
(* A page of a cached prefix holds the KV of that prefix (CacheValid).  A  *)
(* live request finds the KV of its own tokens through its row (RowsValid) *)
(* as long as cache_req frees no page of a request that goes on.           *)
(*                                                                         *)
(* What a request computed beyond its handle is right (OwnValid), because  *)
(* no other row, and no cached prefix, has the same page: that is counted  *)
(* from PagesPartitioned.  What its handle covers is right when its row    *)
(* names the pages of the cache there (HandleRows).                        *)
(***************************************************************************)
EXTENDS SchedulerProofs

-----------------------------------------------------------------------------
(* What cache_req moves *)

(* The pages of a slice of a row. *)
LEMMA SlicePages ==
    ASSUME NEW q, NEW lo \in Nat, NEW hi \in Nat, lo <= hi
    PROVE  /\ RowSlice(q, lo, hi) \in Seq(PagesAt(page_table[q.table_idx], Nat))
           /\ Len(RowSlice(q, lo, hi)) = hi - lo
           /\ ToSet(RowSlice(q, lo, hi)) = PagesAt(page_table[q.table_idx], lo..(hi - 1))
<1> PICK t : t = page_table[q.table_idx]
  OBVIOUS
<1> PICK s : s = RowSlice(q, lo, hi)
  OBVIOUS
<1> PICK n : n = hi - lo
  OBVIOUS
<1>1. n \in Nat /\ n = IF lo < hi THEN hi - lo ELSE 0
  OBVIOUS
<1>2. s = [i \in 1..n |-> t[lo + i - 1]]
  BY <1>1 DEF RowSlice
<1>3. \A i \in 1..n : lo + i - 1 \in lo..(hi - 1) /\ lo + i - 1 \in Nat
  BY <1>1
<1>4. s \in [1..n -> {t[k] : k \in Nat}]
  BY <1>2, <1>3
<1>5. s \in Seq({t[k] : k \in Nat}) /\ Len(s) = n /\ DOMAIN s = 1..n
  BY <1>1, <1>4, FunctionIsSeq
<1>6. ToSet(s) \subseteq {t[k] : k \in lo..(hi - 1)}
  <2>1. \A i \in 1..n : s[i] \in {t[k] : k \in lo..(hi - 1)}
    BY <1>2, <1>3
  <2> QED
    BY <1>5, <2>1 DEF ToSet
<1>7. {t[k] : k \in lo..(hi - 1)} \subseteq ToSet(s)
  <2>1. \A k \in lo..(hi - 1) : k - lo + 1 \in 1..n /\ lo + (k - lo + 1) - 1 = k
    BY <1>1
  <2>2. \A k \in lo..(hi - 1) : s[k - lo + 1] = t[k]
    BY <1>2, <2>1
  <2>3. ASSUME NEW k \in lo..(hi - 1) PROVE t[k] \in ToSet(s)
    <3>1. k - lo + 1 \in DOMAIN s /\ s[k - lo + 1] = t[k]
      BY <1>5, <2>1, <2>2
    <3> QED
      BY ONLY <3>1 DEF ToSet
  <2> QED
    BY <2>3
<1> QED
  BY <1>5, <1>6, <1>7 DEF PagesAt

(* Where the pages of a request lie when cache_req is called: up to a its handle, *)
(* up to b what the cache has by now, up to d what it caches, and up to e the     *)
(* rest that is computed.                                                         *)
LEMMA CacheReqLengths ==
    ASSUME Inv, ObjectInv, RefInv, HandleInv, NEW r \in live,
           NEW q, WellFormed(q, Prompt[r]), q.ids = req[r].ids,
           q.handle_len = req[r].handle_len, q.host_len >= req[r].host_len
    PROVE  \E a, b, d, e \in Nat :
              /\ a <= b /\ b <= d /\ d <= e
              /\ q.handle_len \div PageSize = a /\ DivCeil(q.cached_len) = e
              /\ Len(Longest(cache, InsertedIds(q))) \div PageSize = b
              /\ InsertLen(InsertedIds(q)) = PageSize * d
              /\ InsertLen(InsertedIds(q)) <= q.host_len
              /\ d <= Len(InsertedIds(q)) \div PageSize
              /\ \A x \in 1..d : SubSeq(InsertedIds(q), 1, PageSize * x) \in DOMAIN cache <=> x <= b
<1> PICK ids : ids = InsertedIds(q)
  OBVIOUS
<1> PICK m : m = Min({q.host_len, q.cached_len})
  OBVIOUS
<1> PICK len : len = Len(ids) \div PageSize
  OBVIOUS
<1> PICK n : n = InsertLen(ids)
  OBVIOUS
<1>1. /\ q.ids \in Seq(Nat) /\ q.host_len \in Nat /\ q.cached_len \in Nat /\ q.handle_len \in Nat
      /\ q.cached_len <= Len(q.ids) /\ Len(q.ids) \in Nat /\ q.handle_len <= q.cached_len
  BY DEF WellFormed
<1>2. m \in Nat /\ m <= q.cached_len /\ m <= q.host_len /\ m <= Len(q.ids) /\ q.handle_len <= m
  <2>1. m = IF q.host_len <= q.cached_len THEN q.host_len ELSE q.cached_len
    BY <1>1, MinOfTwo, SMTT(40)
  <2>2. q.handle_len <= q.host_len
    <3>1. r \in Req /\ req[r].handle_len <= req[r].host_len
      BY DEF HandleInv, Inv, QueueTypes
    <3>2. r \in Req /\ req[r].host_len \in Nat
      BY <3>1 DEF ObjectInv, WellFormed
    <3> QED
      BY <1>1, <3>1, <3>2
  <2> QED
    BY ONLY <1>1, <2>1, <2>2
<1>3. ids \in Seq(Nat) /\ Len(ids) = m /\ ids = SubSeq(q.ids, 1, m)
  BY <1>1, <1>2, FirstTokens DEF InsertedIds
<1>4. len \in Nat /\ \A x \in Nat : x <= len <=> PageSize * x <= m
  BY <1>2, <1>3, PageArithmetic
<1>5. PrefixClosed(DOMAIN cache) /\ RefCountsExact
  BY DEF RefInv
<1>6. PICK b \in Nat :
         /\ b <= len /\ Len(Longest(cache, ids)) \div PageSize = b
         /\ \A x \in 1..len : SubSeq(ids, 1, PageSize * x) \in DOMAIN cache <=> x <= b
  <2> PICK h : h = Longest(cache, ids)
    OBVIOUS
  <2>1. \E k \in Nat :
           /\ k <= Len(ids) \div PageSize /\ Len(h) = PageSize * k /\ Len(h) \div PageSize = k
           /\ \A x \in 1..(Len(ids) \div PageSize) :
                 SubSeq(ids, 1, PageSize * x) \in DOMAIN cache <=> x <= k
    BY ONLY <1>3, <1>5, LongestMatch, h = Longest(cache, ids)
  <2> QED
    BY <2>1
<1>7. PICK a \in Nat : q.handle_len = PageSize * a
  BY DEF HandleInv, Inv, QueueTypes
<1>8. (PageSize * a) \div PageSize = a /\ PageSize * a \in Nat /\ a <= len
  BY <1>2, <1>4, <1>7, PageArithmetic
<1>9. a <= b
  <2>1. CASE a = 0
    BY <2>1
  <2>2. CASE a # 0
    <3> PICK h : h = HandleOf(req[r])
      OBVIOUS
    <3>1. a \in 1..a /\ a \in 1..len
      BY <1>4, <1>8, <2>2
    <3>2. h = SubSeq(q.ids, 1, PageSize * a) /\ PageSize * a <= m
      BY <1>2, <1>7 DEF HandleOf
    <3>3. h \in Seq(Nat) /\ Len(h) = PageSize * a
      <4> PICK x : x = PageSize * a
        OBVIOUS
      <4>1. x \in Nat /\ x <= m /\ h = SubSeq(q.ids, 1, x)
        BY <1>8, <3>2
      <4>2. x <= Len(q.ids)
        BY ONLY <1>1, <1>2, <4>1
      <4> QED
        BY <1>1, <4>1, <4>2, FirstTokens
    <3>4. SubSeq(h, 1, PageSize * a) \in PagePrefixes(h)
      BY <1>8, <3>1, <3>3 DEF PagePrefixes
    <3>5. SubSeq(h, 1, PageSize * a) = SubSeq(q.ids, 1, PageSize * a)
      BY <1>1, <1>2, <1>8, <3>2, FirstOfFirst
    <3>6. SubSeq(ids, 1, PageSize * a) = SubSeq(q.ids, 1, PageSize * a)
      BY <1>1, <1>2, <1>3, <1>8, <3>2, FirstOfFirst
    <3>7. PagePrefixes(h) \subseteq DOMAIN cache
      BY <1>5 DEF RefCountsExact
    <3> QED
      BY <1>6, <3>1, <3>4, <3>5, <3>6, <3>7
  <2> QED
    BY <2>1, <2>2
<1>10. PICK d \in Nat : n = PageSize * d /\ b <= d /\ d <= len
  <2>1. CASE cache_type = "radix"
    <3>1. n = PageSize * len
      BY <2>1 DEF InsertLen, AlignDown
    <3> QED
      BY <1>4, <1>6, <3>1
  <2>2. CASE cache_type # "radix"
    <3>1. n = 0 /\ 0 = PageSize * 0
      BY <2>2, PageSizeAssumption DEF InsertLen
    <3>2. DOMAIN cache = {}
      BY <2>2 DEF HandleInv
    <3>3. b = 0
      <4>1. SUFFICES ASSUME b # 0 PROVE FALSE
        OBVIOUS
      <4>2. b \in 1..len /\ b <= b
        BY <1>4, <1>6, <4>1
      <4> QED
        BY <1>6, <3>2, <4>2
    <3> QED
      BY <1>4, <3>1, <3>3
  <2> QED
    BY <2>1, <2>2
<1>11. PageSize * d <= m /\ PageSize * d \in Nat
  BY <1>4, <1>10, PageArithmetic
<1>12. d <= DivCeil(q.cached_len) /\ DivCeil(q.cached_len) \in Nat
  <2>1. PageSize * d <= q.cached_len
    BY <1>1, <1>2, <1>11
  <2> QED
    BY <1>1, <2>1, PagesWithin
<1>13. n <= q.host_len
  BY <1>1, <1>2, <1>10, <1>11
<1>14. \A x \in 1..d : SubSeq(ids, 1, PageSize * x) \in DOMAIN cache <=> x <= b
  <2>1. 1..d \subseteq 1..len
    BY <1>4, <1>10
  <2> QED
    BY <1>6, <2>1
<1> PICK e : e = DivCeil(q.cached_len)
  OBVIOUS
<1>15. /\ a <= b /\ b <= d /\ d <= e /\ e \in Nat
       /\ q.handle_len \div PageSize = a /\ DivCeil(q.cached_len) = e
       /\ Len(Longest(cache, InsertedIds(q))) \div PageSize = b
       /\ InsertLen(InsertedIds(q)) = PageSize * d
       /\ InsertLen(InsertedIds(q)) <= q.host_len
       /\ d <= Len(InsertedIds(q)) \div PageSize
       /\ \A x \in 1..d : SubSeq(InsertedIds(q), 1, PageSize * x) \in DOMAIN cache <=> x <= b
  BY <1>6, <1>7, <1>8, <1>9, <1>10, <1>12, <1>13, <1>14
<1> QED
  BY ONLY <1>15, a \in Nat, b \in Nat, d \in Nat

(* What cache_req moves: it frees the entries that the cache had and, at the end, *)
(* those beyond what is cached, and the new prefixes take the entries between.     *)
LEMMA CacheReqPages ==
    ASSUME Inv, ObjectInv, RefInv, HandleInv, NEW r \in live,
           NEW q, WellFormed(q, Prompt[r]), q.ids = req[r].ids,
           q.handle_len = req[r].handle_len, q.host_len >= req[r].host_len,
           NEW finished \in BOOLEAN
    PROVE  Moves(q, CacheReq(cache, q, finished), finished)
<1> PICK t : t = page_table[q.table_idx]
  OBVIOUS
<1> PICK c : c = CacheReq(cache, q, finished)
  OBVIOUS
<1> PICK ids : ids = InsertedIds(q)
  OBVIOUS
<1> PICK n : n = InsertLen(ids)
  OBVIOUS
<1> PICK b : b = Len(Longest(cache, ids)) \div PageSize
  OBVIOUS
<1>1a. PICK a \in Nat, d \in Nat, e \in Nat :
         /\ b \in Nat /\ a <= b /\ b <= d /\ d <= e
         /\ q.handle_len \div PageSize = a /\ DivCeil(q.cached_len) = e
         /\ n = PageSize * d /\ n <= q.host_len
         /\ d <= Len(ids) \div PageSize
         /\ \A x \in 1..d : SubSeq(ids, 1, PageSize * x) \in DOMAIN cache <=> x <= b
  BY CacheReqLengths
<1>1. /\ a \in Nat /\ b \in Nat /\ d \in Nat /\ e \in Nat
      /\ a <= b /\ b <= d /\ d <= e
      /\ q.handle_len \div PageSize = a /\ DivCeil(q.cached_len) = e
      /\ n = PageSize * d /\ n <= q.host_len /\ n \div PageSize = d
      /\ d <= Len(ids) \div PageSize
      /\ \A x \in 1..d : SubSeq(ids, 1, PageSize * x) \in DOMAIN cache <=> x <= b
  BY <1>1a, PageArithmetic
<1>2. ids \in Seq(Nat) /\ n <= Len(ids) /\ n \in Nat /\ Len(ids) \in Nat
      /\ SubSeq(ids, 1, n) = SubSeq(q.ids, 1, n)
  BY InsertedLength
<1>b. b \in Nat
  BY <1>1
<1>3. /\ c.handle_len = n
      /\ c.freed = Duplicates(q, Len(Longest(cache, ids))) \o Leftover(q, n, finished)
  BY DEF CacheReq, InsertedIds
<1>4. /\ \E S : c.freed \in Seq(S)
      /\ Len(c.freed) = (b - a) + (IF finished THEN e - d ELSE 0)
      /\ ToSet(c.freed) =
            PagesAt(t, (a..(b - 1)) \cup (IF finished THEN d..(e - 1) ELSE {}))
  <2> PICK S : S = PagesAt(t, Nat)
    OBVIOUS
  <2> PICK f : f = Duplicates(q, Len(Longest(cache, ids)))
    OBVIOUS
  <2> PICK l : l = Leftover(q, n, finished)
    OBVIOUS
  <2>1. f \in Seq(S) /\ Len(f) = b - a /\ ToSet(f) = PagesAt(t, a..(b - 1))
    <3>1. f = RowSlice(q, a, b) /\ a <= b
      BY <1>1 DEF Duplicates
    <3> QED
      BY ONLY <3>1, SlicePages, t = page_table[q.table_idx], S = PagesAt(t, Nat),
              a \in Nat, <1>b
  <2>2. /\ l \in Seq(S) /\ Len(l) = IF finished THEN e - d ELSE 0
        /\ ToSet(l) = PagesAt(t, IF finished THEN d..(e - 1) ELSE {})
    <3>1. CASE finished
      <4>1. l = RowSlice(q, d, e) /\ d <= e
        BY <1>1, <3>1 DEF Leftover
      <4>2. l \in Seq(S) /\ Len(l) = e - d /\ ToSet(l) = PagesAt(t, d..(e - 1))
        BY ONLY <4>1, SlicePages, t = page_table[q.table_idx], S = PagesAt(t, Nat),
                d \in Nat, e \in Nat
      <4> QED
        BY <3>1, <4>2
    <3>2. CASE ~finished
      <4>1. l = <<>>
        BY <3>2 DEF Leftover
      <4> QED
        BY <3>2, <4>1 DEF ToSet, PagesAt
    <3> QED
      BY <3>1, <3>2
  <2>3. c.freed \in Seq(S) /\ Len(c.freed) = Len(f) + Len(l) /\ ToSet(c.freed) = ToSet(f) \cup ToSet(l)
    <3>1. c.freed = f \o l /\ f \in Seq(S) /\ l \in Seq(S)
      BY <1>3, <2>1, <2>2
    <3> QED
      BY ONLY <3>1, JoinedElements
  <2>4. \A I, J : PagesAt(t, I) \cup PagesAt(t, J) = PagesAt(t, I \cup J)
    BY DEF PagesAt
  <2>5. Len(f) + Len(l) = (b - a) + (IF finished THEN e - d ELSE 0)
    BY <2>1, <2>2
  <2> PICK J : J = IF finished THEN d..(e - 1) ELSE {}
    OBVIOUS
  <2>6. ToSet(c.freed) = PagesAt(t, (a..(b - 1)) \cup J)
    BY ONLY <2>1, <2>2, <2>3, <2>4, J = IF finished THEN d..(e - 1) ELSE {}, ZenonT(60)
  <2> QED
    BY ONLY <2>3, <2>5, <2>6, J = IF finished THEN d..(e - 1) ELSE {}
<1> PICK K : K = (b + 1)..d
  OBVIOUS
<1> PICK f : f = [x \in K |-> SubSeq(ids, 1, PageSize * x)]
  OBVIOUS
<1> PICK N : N = {f[x] : x \in K}
  OBVIOUS
<1>5. IsFiniteSet(N) /\ Cardinality(N) <= d - b
  <2>1. IsFiniteSet(K) /\ Cardinality(K) = d - b
    <3>1. K = (b + 1)..((d + 1) - 1) /\ b + 1 \in Nat /\ d + 1 \in Nat /\ b + 1 <= d + 1
          /\ (d + 1) - (b + 1) = d - b
      BY <1>1
    <3> QED
      BY ONLY <3>1, IntervalCount
  <2>2. f = [x \in K |-> f[x]]
    OBVIOUS
  <2>3. IsFiniteSet(N) /\ Cardinality(N) <= Cardinality(K)
    BY ONLY <2>1, <2>2, ImageCount, N = {f[x] : x \in K}
  <2> QED
    BY <2>1, <2>3
<1>6. \A x \in K : /\ x \in 1..d /\ x \in Nat /\ f[x] = SubSeq(ids, 1, PageSize * x)
                    /\ f[x] \notin DOMAIN cache
                    /\ Len(f[x]) \div PageSize - 1 = x - 1
                    /\ x - 1 \in b..(d - 1)
  <2> TAKE x \in K
  <2>0. b \in Nat /\ d \in Nat /\ b <= d
    BY <1>1
  <2>a. x \in 1..d /\ x \in Nat /\ x - 1 \in b..(d - 1) /\ ~(x <= b)
    BY ONLY <2>0, x \in K, K = (b + 1)..d
  <2>1. x \in 1..d /\ x \in Nat /\ f[x] = SubSeq(ids, 1, PageSize * x) /\ x - 1 \in b..(d - 1)
        /\ ~(x <= b)
    BY <2>a
  <2>2. f[x] \notin DOMAIN cache
    BY <1>1, <2>1
  <2>3. x <= Len(ids) \div PageSize
    <3> PICK len : len = Len(ids) \div PageSize
      OBVIOUS
    <3>1. len \in Nat /\ d <= len
      BY <1>1, <1>2, PageArithmetic
    <3> QED
      BY <2>0, <2>1, <3>1
  <2>4. PageSize * x \in Nat /\ PageSize * x <= Len(ids) /\ (PageSize * x) \div PageSize = x
    BY <1>2, <2>1, <2>3, PageArithmetic
  <2>5. Len(f[x]) = PageSize * x
    BY <1>2, <2>1, <2>4, FirstTokens
  <2> QED
    BY <2>1, <2>2, <2>4, <2>5
<1> PICK S : S = {SubSeq(ids, 1, PageSize * x) : x \in 1..d}
  OBVIOUS
<1>7. PagePrefixes(SubSeq(q.ids, 1, n)) = S
  <2> PICK h : h = SubSeq(ids, 1, n)
    OBVIOUS
  <2>1. Len(h) \div PageSize = d /\ Len(h) = n
    BY <1>1, <1>2, FirstTokens
  <2>2. \A x \in 1..d : SubSeq(h, 1, PageSize * x) = SubSeq(ids, 1, PageSize * x)
    <3> TAKE x \in 1..d
    <3>1. x \in Nat /\ x <= d /\ x <= n \div PageSize
      BY <1>1
    <3>2. PageSize * x \in Nat /\ PageSize * x <= n
      BY <1>2, <3>1, PageArithmetic
    <3> QED
      BY <1>2, <3>2, FirstOfFirst
  <2>3. PagePrefixes(h) = {SubSeq(h, 1, PageSize * x) : x \in 1..d}
    BY <2>1 DEF PagePrefixes
  <2>4. PagePrefixes(h) = S
    BY ONLY <2>2, <2>3, S = {SubSeq(ids, 1, PageSize * x) : x \in 1..d}
  <2> QED
    BY <1>2, <2>4
<1>8. /\ DOMAIN c.cache = DOMAIN cache \cup S
      /\ \A p \in DOMAIN c.cache :
            c.cache[p].page = IF p \in DOMAIN cache THEN cache[p].page ELSE NewPage(q, p)
  BY <1>3, <1>7, CacheReqEffect
<1>9. DOMAIN c.cache = DOMAIN cache \cup N
  <2>1. \A x \in 1..d : SubSeq(ids, 1, PageSize * x) \in DOMAIN cache \cup N
    <3> TAKE x \in 1..d
    <3>1. CASE x <= b
      BY <1>1, <3>1
    <3>2. CASE ~(x <= b)
      <4>1. x \in K
        BY <1>1, <3>2
      <4> QED
        BY <4>1
    <3> QED
      BY <3>1, <3>2
  <2>2. \A p \in N : p \in S
    <3> TAKE p \in N
    <3>1. PICK x \in K : p = f[x]
      OBVIOUS
    <3>2. x \in 1..d /\ p = SubSeq(ids, 1, PageSize * x)
      BY <1>6, <3>1
    <3> QED
      BY <3>2
  <2>3. \A p \in S : p \in DOMAIN cache \cup N
    BY <2>1
  <2> QED
    BY ONLY <1>8, <2>2, <2>3
<1>10. \A x \in K : c.cache[f[x]].page = t[x - 1]
  <2> TAKE x \in K
  <2>1. f[x] \in DOMAIN c.cache /\ f[x] \notin DOMAIN cache
    BY <1>6, <1>9
  <2> QED
    BY <1>6, <1>8, <2>1 DEF NewPage
<1>11. PrefixPages(c.cache, N) = PagesAt(t, b..(d - 1))
  <2>1. \A p \in N : c.cache[p].page \in PagesAt(t, b..(d - 1))
    <3> TAKE p \in N
    <3>1. PICK x \in K : p = f[x]
      OBVIOUS
    <3>2. c.cache[p].page = t[x - 1] /\ x - 1 \in b..(d - 1)
      BY <1>6, <1>10, <3>1
    <3> QED
      BY <3>2 DEF PagesAt
  <2>2. \A k \in b..(d - 1) : k + 1 \in K /\ (k + 1) - 1 = k
    BY <1>1
  <2>3. \A k \in b..(d - 1) : t[k] \in PrefixPages(c.cache, N)
    <3> TAKE k \in b..(d - 1)
    <3>1. k + 1 \in K /\ (k + 1) - 1 = k
      BY <2>2
    <3>2. f[k + 1] \in N /\ c.cache[f[k + 1]].page = t[k]
      BY <1>10, <3>1
    <3> QED
      BY <3>2 DEF PrefixPages
  <2>4. PrefixPages(c.cache, N) \subseteq PagesAt(t, b..(d - 1))
    BY ONLY <2>1 DEF PrefixPages
  <2>5. PagesAt(t, b..(d - 1)) \subseteq PrefixPages(c.cache, N)
    BY ONLY <2>3 DEF PagesAt
  <2> QED
    BY <2>4, <2>5
<1>12. cache_type # "radix" => N = {}
  <2> SUFFICES ASSUME cache_type # "radix" PROVE N = {}
    OBVIOUS
  <2>1. n = 0
    BY DEF InsertLen
  <2>2. d = 0
    BY <1>1, <2>1, PageSizeAssumption
  <2> QED
    BY <1>1, <2>2
<1>13. \A p \in DOMAIN cache : c.cache[p].page = cache[p].page
  BY <1>8
<1>14. /\ a <= b /\ b <= d /\ d <= e
       /\ q.handle_len \div PageSize = a /\ DivCeil(q.cached_len) = e
       /\ c.handle_len = PageSize * d /\ c.handle_len <= q.host_len
  BY <1>1, <1>3
<1>15. Release(t, a, b, d, e, finished, c.freed, cache, c.cache, N)
  BY ONLY <1>4, <1>5, <1>9, <1>11, <1>13, <1>14 DEF Release
<1>16. Moves(q, c, finished)
  BY ONLY <1>4, <1>12, <1>14, <1>15, <1>b, a \in Nat, d \in Nat, e \in Nat,
          t = page_table[q.table_idx] DEF Moves
<1> QED
  BY ONLY <1>16, c = CacheReq(cache, q, finished)


(* What a request holds is a stretch of its row, from its handle on. *)
LEMMA OwnedEntries ==
    ASSUME Inv, ObjectInv, HandleInv
    PROVE  /\ IsFiniteSet(live)
           /\ \A r \in live : \E a, e \in Nat :
                 /\ a <= e /\ req[r].handle_len \div PageSize = a /\ DivCeil(Allocated(r)) = e
                 /\ Entries[r] = a..(e - 1) /\ IsFiniteSet(Entries[r])
<1>1. IsFiniteSet(live) /\ live \subseteq Req
  BY SchedulerAssumptions, FS_Subset DEF Inv, QueueTypes
<1>2. ASSUME NEW r \in live
      PROVE  \E a, e \in Nat :
                /\ a <= e /\ req[r].handle_len \div PageSize = a /\ DivCeil(Allocated(r)) = e
                /\ Entries[r] = a..(e - 1) /\ IsFiniteSet(Entries[r])
  <2>1. WellFormed(req[r], Prompt[r]) /\ r \in Req
    BY <1>1 DEF ObjectInv
  <2>2. PICK a \in Nat : req[r].handle_len = PageSize * a
    BY <2>1 DEF HandleInv
  <2> PICK m : m = Allocated(r)
    OBVIOUS
  <2>3. m \in Nat /\ PageSize * a <= m
    BY <2>1, <2>2 DEF Allocated, WellFormed
  <2> PICK e : e = DivCeil(m)
    OBVIOUS
  <2>4. (PageSize * a) \div PageSize = a /\ a <= e /\ e \in Nat
    BY <2>3, PagesWithin
  <2>5. Entries[r] = a..(e - 1)
    BY <2>2, <2>4 DEF Entries, OwnEntries
  <2>6. IsFiniteSet(a..(e - 1))
    BY <2>4, IntervalCount
  <2> QED
    BY <2>2, <2>4, <2>5, <2>6
<1> QED
  BY <1>1, <1>2

(* The places of a state are finite. *)
LEMMA CountableNow ==
    ASSUME Inv, ObjectInv, HandleInv, TableInv
    PROVE  Countable(free_slots, lazy_free_list, cache, live, Entries)
BY OwnedEntries DEF Countable, TableInv

(* The object that cache_req is called with: that of r, maybe with one more token on *)
(* the host.                                                                         *)
ObjectOf(r, q) ==
    /\ WellFormed(q, Prompt[r])
    /\ q.ids = req[r].ids /\ q.handle_len = req[r].handle_len
    /\ q.table_idx = req[r].table_idx /\ q.cached_len = req[r].cached_len
    /\ q.host_len >= req[r].host_len

(* What the step does with the outcome c. *)
Releases(r, c, finished) ==
    /\ phase # "forward" /\ phase' # "forward"
    /\ cache' = c.cache /\ page_table' = page_table
    /\ live' = IF finished THEN live \ {r} ELSE live
    /\ \A s \in live : s # r => req'[s] = req[s]
    /\ ~finished => /\ req'[r].handle_len = c.handle_len
                    /\ req'[r].cached_len = req[r].cached_len
                    /\ req'[r].table_idx = req[r].table_idx
    /\ \/ free_slots' = free_slots \o c.freed /\ lazy_free_list' = lazy_free_list
       \/ free_slots' = free_slots /\ lazy_free_list' = lazy_free_list \o c.freed

(* A request that releases pages, keeping its row or giving it back: they go to one *)
(* of the lists, and what it cached is the cache's.                                  *)
LEMMA ReleasedPages ==
    ASSUME Inv, ObjectInv, RefInv, HandleInv, TableInv, PagesPartitioned, NEW r \in live,
           NEW q, ObjectOf(r, q), NEW finished \in BOOLEAN, NEW c, c = CacheReq(cache, q, finished),
           Releases(r, c, finished)
    PROVE  /\ PagesPartitioned' /\ TableInv'
           /\ c.handle_len <= q.host_len /\ \E k \in Nat : c.handle_len = PageSize * k
           /\ cache_type # "radix" => DOMAIN cache' = DOMAIN cache
<1>0. /\ WellFormed(q, Prompt[r]) /\ q.ids = req[r].ids
      /\ q.handle_len = req[r].handle_len /\ q.host_len >= req[r].host_len
      /\ q.table_idx = req[r].table_idx /\ q.cached_len = req[r].cached_len
  BY DEF ObjectOf
<1>00. /\ phase # "forward" /\ phase' # "forward"
       /\ cache' = c.cache /\ page_table' = page_table
       /\ live' = IF finished THEN live \ {r} ELSE live
       /\ \A s \in live : s # r => req'[s] = req[s]
       /\ ~finished => /\ req'[r].handle_len = c.handle_len
                       /\ req'[r].cached_len = req[r].cached_len
                       /\ req'[r].table_idx = req[r].table_idx
       /\ \/ free_slots' = free_slots \o c.freed /\ lazy_free_list' = lazy_free_list
          \/ free_slots' = free_slots /\ lazy_free_list' = lazy_free_list \o c.freed
  BY DEF Releases
<1> USE <1>0, <1>00
<1> PICK E : E = Entries
  OBVIOUS
<1> PICK G : G = Entries'
  OBVIOUS
<1> PICK T : T = Rows
  OBVIOUS
<1> PICK U : U = Rows'
  OBVIOUS
<1> PICK M : M = live'
  OBVIOUS
<1> PICK cc2 : cc2 = cache'
  OBVIOUS
<1> PICK fr2 : fr2 = free_slots'
  OBVIOUS
<1> PICK lz2 : lz2 = lazy_free_list'
  OBVIOUS
<1> PICK t : t = page_table[q.table_idx]
  OBVIOUS
<1> PICK freed : freed = c.freed
  OBVIOUS
<1>01. PICK a \in Nat, b \in Nat, d \in Nat, e \in Nat : \E N :
         /\ Release(t, a, b, d, e, finished, freed, cache, cc2, N)
         /\ q.handle_len \div PageSize = a /\ DivCeil(q.cached_len) = e
         /\ c.handle_len = PageSize * d /\ c.handle_len <= q.host_len
         /\ \E S : freed \in Seq(S)
         /\ cache_type # "radix" => N = {}
  <2>1. Moves(q, c, finished)
    <3>1. /\ Inv /\ ObjectInv /\ RefInv /\ HandleInv /\ r \in live /\ WellFormed(q, Prompt[r])
          /\ q.ids = req[r].ids /\ q.handle_len = req[r].handle_len
          /\ q.host_len >= req[r].host_len
      OBVIOUS
    <3> QED
      BY ONLY <3>1, CacheReqPages, finished \in BOOLEAN, c = CacheReq(cache, q, finished)
  <2>2. cc2 = c.cache
    OBVIOUS
  <2> QED
    BY ONLY <2>1, <2>2, freed = c.freed, t = page_table[q.table_idx] DEF Moves
<1>1. PICK N :
         /\ Release(t, a, b, d, e, finished, freed, cache, cc2, N)
         /\ q.handle_len \div PageSize = a /\ DivCeil(q.cached_len) = e
         /\ c.handle_len = PageSize * d /\ c.handle_len <= q.host_len
         /\ \E S : freed \in Seq(S)
         /\ cache_type # "radix" => N = {}
  BY ONLY <1>01
<1>a. /\ a <= b /\ b <= d /\ d <= e
      /\ ToSet(freed) = PagesAt(t, (a..(b - 1)) \cup (IF finished THEN d..(e - 1) ELSE {}))
      /\ DOMAIN cc2 = DOMAIN cache \cup N /\ IsFiniteSet(N)
  BY <1>1 DEF Release
<1>2. Partition(free_slots, lazy_free_list, cache, live, E, T)
  BY PartitionIsNow DEF PartitionNow
<1>3. Countable(free_slots, lazy_free_list, cache, live, E)
  BY CountableNow
<1>4. E[r] = a..(e - 1)
  BY <1>1 DEF Entries, OwnEntries, Allocated
<1>5. T[r] = t
  BY DEF Rows
<1>6. freed \in Seq(Page)
  <2> PICK K : K = (a..(b - 1)) \cup (IF finished THEN d..(e - 1) ELSE {})
    OBVIOUS
  <2>1. K \subseteq E[r]
    BY ONLY <1>a, <1>4, K = (a..(b - 1)) \cup (IF finished THEN d..(e - 1) ELSE {}),
            finished \in BOOLEAN, a \in Nat, b \in Nat, d \in Nat, e \in Nat
  <2>2. RowPages(live, E, T) \subseteq Page
    BY <1>2 DEF Partition, Places
  <2>3. \A k \in E[r] : t[k] \in RowPages(live, E, T)
    BY ONLY <1>5, r \in live DEF RowPages
  <2>4. ToSet(freed) \subseteq Page
    <3>1. ToSet(freed) = PagesAt(t, K)
      BY <1>a
    <3> QED
      BY ONLY <2>1, <2>2, <2>3, <3>1 DEF PagesAt
  <2>5. PICK S : freed \in Seq(S)
    BY <1>1
  <2> QED
    BY ONLY <2>4, <2>5 DEF ToSet
<1>7. /\ fr2 \in Seq(Page) /\ lz2 \in Seq(Page)
      /\ Len(fr2) + Len(lz2) = Len(free_slots) + Len(lazy_free_list) + Len(freed)
      /\ ToSet(fr2) \cup ToSet(lz2)
            = ToSet(free_slots) \cup ToSet(lazy_free_list) \cup ToSet(freed)
  <2> PICK fr : fr = free_slots
    OBVIOUS
  <2> PICK lz : lz = lazy_free_list
    OBVIOUS
  <2>1. fr \in Seq(Page) /\ lz \in Seq(Page)
    BY DEF TableInv
  <2>2. /\ fr \o freed \in Seq(Page) /\ Len(fr \o freed) = Len(fr) + Len(freed)
        /\ ToSet(fr \o freed) = ToSet(fr) \cup ToSet(freed)
    BY ONLY <1>6, <2>1, JoinedElements
  <2>3. /\ lz \o freed \in Seq(Page) /\ Len(lz \o freed) = Len(lz) + Len(freed)
        /\ ToSet(lz \o freed) = ToSet(lz) \cup ToSet(freed)
    BY ONLY <1>6, <2>1, JoinedElements
  <2>4. Len(fr) \in Nat /\ Len(lz) \in Nat /\ Len(freed) \in Nat
    BY ONLY <1>6, <2>1
  <2>5. (fr2 = fr \o freed /\ lz2 = lz) \/ (fr2 = fr /\ lz2 = lz \o freed)
    OBVIOUS
  <2>6. /\ fr2 \in Seq(Page) /\ lz2 \in Seq(Page)
        /\ Len(fr2) + Len(lz2) = Len(fr) + Len(lz) + Len(freed)
        /\ ToSet(fr2) \cup ToSet(lz2) = ToSet(fr) \cup ToSet(lz) \cup ToSet(freed)
    <3> PICK n : n = Len(fr)
      OBVIOUS
    <3> PICK m : m = Len(lz)
      OBVIOUS
    <3> PICK l : l = Len(freed)
      OBVIOUS
    <3>1. CASE fr2 = fr \o freed /\ lz2 = lz
      <4>1. Len(fr2) + Len(lz2) = Len(fr) + Len(lz) + Len(freed)
        <5>1. Len(fr2) = n + l /\ Len(lz2) = m /\ n \in Nat /\ m \in Nat /\ l \in Nat
          BY <2>2, <2>4, <3>1
        <5>2. (n + l) + m = n + m + l
          BY ONLY <5>1
        <5> QED
          BY <5>1, <5>2
      <4> QED
        BY <2>1, <2>2, <3>1, <4>1
    <3>2. CASE fr2 = fr /\ lz2 = lz \o freed
      <4>1. Len(fr2) + Len(lz2) = Len(fr) + Len(lz) + Len(freed)
        <5>1. Len(fr2) = n /\ Len(lz2) = m + l /\ n \in Nat /\ m \in Nat /\ l \in Nat
          BY <2>3, <2>4, <3>2
        <5>2. n + (m + l) = n + m + l
          BY ONLY <5>1
        <5> QED
          BY <5>1, <5>2
      <4> QED
        BY <2>1, <2>3, <3>2, <4>1
    <3> QED
      BY <2>5, <3>1, <3>2
  <2> QED
    BY <2>6
<1>8. (finished => M = live \ {r}) /\ (~finished => M = live)
  OBVIOUS
<1>9. \A s \in live : s # r => G[s] = E[s]
  <2> SUFFICES ASSUME NEW s \in live, s # r PROVE G[s] = E[s]
    OBVIOUS
  <2>1. s \in live' /\ req'[s] = req[s]
    OBVIOUS
  <2>2. OwnEntries(s)' = OwnEntries(s)
    BY <2>1 DEF OwnEntries, Allocated
  <2> QED
    BY <2>1, <2>2 DEF Entries
<1>10. ~finished => G[r] = d..(e - 1)
  <2> SUFFICES ASSUME ~finished PROVE G[r] = d..(e - 1)
    OBVIOUS
  <2>1. req'[r].handle_len = PageSize * d /\ req'[r].cached_len = q.cached_len /\ r \in live'
    BY <1>1
  <2>2. (PageSize * d) \div PageSize = d
    BY PageArithmetic
  <2>3. OwnEntries(r)' = d..(e - 1)
    BY <1>1, <2>1, <2>2 DEF OwnEntries, Allocated
  <2> QED
    BY <2>1, <2>3 DEF Entries
<1>11. \A s \in M : U[s] = T[s]
  <2> TAKE s \in M
  <2>1. s \in live /\ req'[s].table_idx = req[s].table_idx
    OBVIOUS
  <2> QED
    BY <2>1 DEF Rows
<1>12. Partition(fr2, lz2, cc2, M, G, U)
  <2> PICK fr : fr = free_slots
    OBVIOUS
  <2> PICK lz : lz = lazy_free_list
    OBVIOUS
  <2> PICK cc : cc = cache
    OBVIOUS
  <2> PICK L : L = live
    OBVIOUS
  <2>1. /\ Partition(fr, lz, cc, L, E, T) /\ Countable(fr, lz, cc, L, E) /\ r \in L
        /\ Goes(freed, fr, lz, fr2, lz2)
        /\ Keeps(r, d, e, finished, L, E, T, M, G, U)
    BY <1>2, <1>3, <1>7, <1>8, <1>9, <1>10, <1>11 DEF Keeps, Goes
  <2>2. Release(T[r], a, b, d, e, finished, freed, cc, cc2, N)
    BY <1>1, <1>5
  <2> QED
    BY ONLY <1>4, <1>7, <2>1, <2>2, PagesReleased,
            a \in Nat, b \in Nat, d \in Nat, e \in Nat
<1>13. PagesPartitioned'
  BY <1>12, PartitionIsNow DEF PartitionNow
<1>14. TableInv'
  <2>1. IsFiniteSet(DOMAIN cache \cup N)
    BY <1>a, UnionCount DEF TableInv
  <2> QED
    BY <1>a, <1>7, <2>1 DEF TableInv
<1> QED
  BY <1>1, <1>a, <1>13, <1>14


(* An abort gives the pages of its request back, if it held any. *)
LEMMA AbortPages ==
    ASSUME Inv, ObjectInv, RefInv, HandleInv, TableInv, PagesPartitioned,
           NEW r \in Req, ReceiveAbort(r)
    PROVE  /\ PagesPartitioned' /\ TableInv' /\ req' = req
           /\ cache_type # "radix" => DOMAIN cache' = DOMAIN cache
<1>1. phase = "receive" /\ req' = req
  BY DEF ReceiveAbort
<1>2. CASE UNCHANGED <<phase, pool_vars, live>>
  <2>1. UNCHANGED <<live, req, page_table, cache, free_slots, lazy_free_list, phase>>
    BY <1>1, <1>2 DEF pool_vars
  <2> QED
    BY <1>1, <2>1, QuietPages DEF TableInv
<1>3. CASE phase' = "failed" /\ UNCHANGED <<pool_vars, live>>
  <2>1. UNCHANGED <<live, req, page_table, cache, free_slots, lazy_free_list>>
    BY <1>1, <1>3 DEF pool_vars
  <2> QED
    BY <1>1, <1>3, <2>1, QuietPages DEF TableInv
<1>4. CASE /\ FreeNow(r) /\ CacheReq(cache, req[r], TRUE).ok
           /\ \/ Contains(pending_list, r) /\ Continuing(r)
              \/ r \in running_reqs
  <2> PICK q : q = req[r]
    OBVIOUS
  <2> PICK c : c = CacheReq(cache, q, TRUE)
    OBVIOUS
  <2>1. r \in live
    BY <1>1, <1>4, AbortedHoldsRow
  <2>2. /\ phase' = "receive" /\ free_slots' = free_slots \o c.freed
        /\ lazy_free_list' = lazy_free_list /\ cache' = c.cache /\ page_table' = page_table
        /\ live' = live \ {r}
    BY <1>1, <1>4 DEF FreeNow
  <2>3. WellFormed(q, Prompt[r]) /\ q.host_len >= req[r].host_len
    BY DEF ObjectInv, WellFormed
  <2> PICK over : over = TRUE
    OBVIOUS
  <2>4. c = CacheReq(cache, q, over) /\ over \in BOOLEAN
    OBVIOUS
  <2>5. \A s \in live : s # r => req'[s] = req[s]
    BY <1>1
  <2>a. ObjectOf(r, q) /\ Releases(r, c, over)
    BY <1>1, <2>2, <2>3, <2>5 DEF ObjectOf, Releases
  <2>6. /\ PagesPartitioned' /\ TableInv'
        /\ cache_type # "radix" => DOMAIN cache' = DOMAIN cache
    BY <2>1, <2>4, <2>a, ReleasedPages
  <2> QED
    BY <1>1, <2>6
<1>5. \/ UNCHANGED <<phase, pool_vars, live>>
      \/ /\ FreeNow(r)
         /\ \/ Contains(pending_list, r) /\ Continuing(r)
            \/ r \in running_reqs
  BY DEF ReceiveAbort
<1> QED
  BY <1>2, <1>3, <1>4, <1>5 DEF FreeNow

(* So does a request that finishes; one whose prompt is computed keeps what the cache *)
(* does not take of it.                                                               *)
LEMMA ProcessedPages ==
    ASSUME Inv, FlightInv, ObjectInv, RefInv, HandleInv, TableInv, PagesPartitioned,
           cache_type' = cache_type, ProcessFinished \/ ProcessPrefilled \/ ProcessDecoded
    PROVE  PagesPartitioned' /\ TableInv' /\ HandleInv'
<1> PICK r : r = Work.reqs[next].uid
  OBVIOUS
<1> PICK q : q = Appended(req[r])
  OBVIOUS
<1>1. r \in Req /\ phase = "process" /\ phase' = "process" /\ page_table' = page_table
  BY ProcessedEntry DEF ProcessFinished, ProcessPrefilled, ProcessDecoded, InProcess, pool_vars
<1>2. /\ DOMAIN req = Req /\ DOMAIN req[r] = Fields /\ \A s \in live : s \in Req
  BY <1>1 DEF Inv, ObjectTypes, QueueTypes
<1>3. /\ q.host_len = req[r].host_len + 1 /\ q.ids = req[r].ids
      /\ q.cached_len = req[r].cached_len /\ q.device_len = req[r].device_len
      /\ q.handle_len = req[r].handle_len /\ q.table_idx = req[r].table_idx
      /\ DOMAIN q = Fields
  BY <1>2 DEF Appended, Fields
<1>4. WellFormed(req[r], Prompt[r]) /\ req[r].host_len \in Nat
  BY <1>1 DEF ObjectInv, WellFormed
<1>5. WellFormed(q, Prompt[r]) /\ q.host_len >= req[r].host_len
  <2>1. WellFormed(q, Prompt[r])
    BY ONLY <1>2, <1>4, q = Appended(req[r]), AppendedIsWellFormed
  <2> QED
    BY ONLY <1>3, <1>4, <2>1
<1>6. \A s \in Req : s # r => req'[s] = req[s]
  BY ObjectProcessed
<1>7. ASSUME req'[r].handle_len <= req'[r].host_len, NEW k \in Nat,
             req'[r].handle_len = PageSize * k,
             cache_type # "radix" => DOMAIN cache' = DOMAIN cache
      PROVE  HandleInv'
  <2>1. ASSUME NEW s \in Req
        PROVE  req'[s].handle_len <= req'[s].host_len
               /\ \E x \in Nat : req'[s].handle_len = PageSize * x
    <3>1. CASE s = r
      BY <1>7, <3>1
    <3>2. CASE s # r
      BY <1>6, <3>2 DEF HandleInv
    <3> QED
      BY <3>1, <3>2
  <2> QED
    BY <1>7, <2>1 DEF HandleInv
<1>8. /\ req[r].handle_len <= req[r].host_len /\ req[r].handle_len \in Nat
      /\ \E k \in Nat : req[r].handle_len = PageSize * k
  BY <1>1, <1>4 DEF HandleInv, WellFormed
<1>9. CASE ProcessDecoded
  <2>1. req' = [req EXCEPT ![r] = q]
        /\ UNCHANGED <<live, cache, free_slots, lazy_free_list, page_table>>
    BY <1>9 DEF ProcessDecoded, Deliver, pool_vars
  <2>2. req'[r] = q
    BY <1>1, <1>2, <2>1
  <2>3. \A s \in live : OwnEntries(s)' = OwnEntries(s) /\ req'[s].table_idx = req[s].table_idx
    <3> TAKE s \in live
    <3>1. /\ req'[s].cached_len = req[s].cached_len /\ req'[s].handle_len = req[s].handle_len
          /\ req'[s].table_idx = req[s].table_idx
      BY <1>2, <1>3, <1>6, <2>2
    <3> QED
      BY <1>1, <3>1 DEF OwnEntries, Allocated
  <2>4. PagesPartitioned' /\ TableInv'
    BY <2>1, <2>3, StayStep DEF TableInv
  <2>5. /\ req'[r].handle_len = req[r].handle_len /\ req'[r].host_len = req[r].host_len + 1
        /\ DOMAIN cache' = DOMAIN cache
    BY <1>3, <2>1, <2>2
  <2>6. req'[r].handle_len <= req'[r].host_len
    <3>1. \A h, n \in Nat : h <= n => h <= n + 1
      OBVIOUS
    <3> QED
      BY <1>4, <1>8, <2>5, <3>1
  <2>7. PICK k \in Nat : req'[r].handle_len = PageSize * k
    BY <1>8, <2>5
  <2>8. HandleInv'
    BY ONLY <1>7, <2>5, <2>6, <2>7
  <2> QED
    BY <2>4, <2>8
<1>10. CASE ProcessFinished
  <2> PICK over : over = TRUE
    OBVIOUS
  <2> PICK c : c = CacheReq(cache, q, over)
    OBVIOUS
  <2>1. /\ req' = [req EXCEPT ![r] = q] /\ live' = live \ {r} /\ cache' = c.cache
        /\ lazy_free_list' = lazy_free_list \o c.freed /\ free_slots' = free_slots
    BY <1>10 DEF ProcessFinished, Deliver
  <2>2. req'[r] = q /\ r \in live
    BY <1>1, <1>2, <1>10, <2>1, ProcessedHoldsRow
  <2>3. over \in BOOLEAN
    OBVIOUS
  <2>4. \A s \in live : s # r => req'[s] = req[s]
    BY <1>2, <1>6
  <2>a. ObjectOf(r, q) /\ Releases(r, c, over)
    BY <1>1, <1>3, <1>5, <2>1, <2>4 DEF ObjectOf, Releases
  <2>b. Inv /\ ObjectInv /\ RefInv /\ HandleInv /\ TableInv /\ PagesPartitioned /\ r \in live
    BY <2>2
  <2>5. /\ PagesPartitioned' /\ TableInv'
        /\ cache_type # "radix" => DOMAIN cache' = DOMAIN cache
    BY ONLY <2>b, <2>3, <2>a, c = CacheReq(cache, q, over), ReleasedPages
  <2>6. req'[r].handle_len <= req'[r].host_len /\ \E k \in Nat : req'[r].handle_len = PageSize * k
    BY ONLY <1>3, <1>4, <1>8, <2>2
  <2> QED
    BY <1>7, <2>5, <2>6
<1>11. CASE ProcessPrefilled
  <2> PICK over : over = FALSE
    OBVIOUS
  <2> PICK c : c = CacheReq(cache, q, over)
    OBVIOUS
  <2>1. /\ req' = [req EXCEPT ![r] = [q EXCEPT !.handle_len = c.handle_len]] /\ live' = live
        /\ cache' = c.cache
        /\ lazy_free_list' = lazy_free_list \o c.freed /\ free_slots' = free_slots
    BY <1>11 DEF ProcessPrefilled
  <2>2. /\ req'[r].handle_len = c.handle_len /\ req'[r].host_len = q.host_len
        /\ req'[r].cached_len = q.cached_len /\ req'[r].table_idx = q.table_idx
        /\ r \in live
    BY <1>1, <1>2, <1>3, <1>11, <2>1, ProcessedHoldsRow DEF Fields
  <2>3. over \in BOOLEAN
    OBVIOUS
  <2>4. \A s \in live : s # r => req'[s] = req[s]
    BY <1>2, <1>6
  <2>a. ObjectOf(r, q) /\ Releases(r, c, over)
    BY <1>1, <1>3, <1>5, <2>1, <2>2, <2>4 DEF ObjectOf, Releases
  <2>b. Inv /\ ObjectInv /\ RefInv /\ HandleInv /\ TableInv /\ PagesPartitioned /\ r \in live
    BY <2>2
  <2>5. /\ PagesPartitioned' /\ TableInv'
        /\ c.handle_len <= q.host_len /\ \E k \in Nat : c.handle_len = PageSize * k
        /\ cache_type # "radix" => DOMAIN cache' = DOMAIN cache
    BY ONLY <2>b, <2>3, <2>a, c = CacheReq(cache, q, over), ReleasedPages
  <2> QED
    BY <1>7, <2>2, <2>5
<1> QED
  BY <1>9, <1>10, <1>11


-----------------------------------------------------------------------------
(* Allocation *)

(* The place of entry k of request i among the pages allocated to the batch. *)
Slot(i, k) == OffsetOf(i) + k - FirstPage(req[batch.reqs[i].uid]) + 1

(* Each entry that the batch needs has a place of its own, and each place an entry. *)
LEMMA BatchPages ==
    ASSUME Inv, ObjectInv, FitInv, phase = "allocate"
    PROVE  /\ IsFiniteSet(Needed) /\ NeededPages \in Nat
           /\ \A i \in DOMAIN batch.reqs :
                 /\ PagesOf(i) \subseteq 0..(DivCeil(MaxSeqLen) - 1)
                 /\ FirstPage(req[batch.reqs[i].uid]) \in Nat
                 /\ LastPage(req[batch.reqs[i].uid]) \in Nat
                 /\ FirstPage(req[batch.reqs[i].uid]) <= LastPage(req[batch.reqs[i].uid])
                 /\ \A k \in PagesOf(i) : Slot(i, k) \in 1..NeededPages
           /\ \A x \in 1..NeededPages :
                 \E i \in DOMAIN batch.reqs : \E k \in PagesOf(i) : x = Slot(i, k)
<1> PICK n : n = Len(batch.reqs)
  OBVIOUS
<1>1. n \in Nat /\ DOMAIN batch.reqs = 1..n
  BY DEF Inv, QueueTypes
<1> PICK F : F = [i \in 1..n |-> FirstPage(req[batch.reqs[i].uid])]
  OBVIOUS
<1> PICK G : G = [i \in 1..n |-> LastPage(req[batch.reqs[i].uid])]
  OBVIOUS
<1> PICK N : N = Stretches(n, F, G)
  OBVIOUS
<1>2. \A i \in 1..n : /\ F[i] \in Nat /\ G[i] \in Nat /\ F[i] <= G[i]
                      /\ G[i] <= DivCeil(MaxSeqLen) /\ DivCeil(MaxSeqLen) \in Nat
  <2> TAKE i \in 1..n
  <2> PICK q : q = req[batch.reqs[i].uid]
    OBVIOUS
  <2>1. batch.reqs[i].uid \in Req
    BY <1>1, BatchEntries DEF Inv
  <2>2. /\ q.cached_len \in Nat /\ q.device_len \in Nat /\ q.cached_len <= q.device_len
        /\ q.device_len <= MaxSeqLen
    BY <1>1, <2>1 DEF ObjectInv, WellFormed, FitInv, FitsRow
  <2>3. MaxSeqLen \in Nat
    <3>1. NumPages * PageSize \in Int
      BY SchedulerAssumptions, PageSizeAssumption
    <3> QED
      BY <3>1, SchedulerAssumptions
  <2>4. /\ DivCeil(q.cached_len) \in Nat /\ DivCeil(q.device_len) \in Nat
        /\ DivCeil(q.cached_len) <= DivCeil(q.device_len)
        /\ DivCeil(q.device_len) <= DivCeil(MaxSeqLen) /\ DivCeil(MaxSeqLen) \in Nat
    BY ONLY <2>2, <2>3, CeilIsMonotone
  <2>5. F[i] = DivCeil(q.cached_len) /\ G[i] = DivCeil(q.device_len)
    BY DEF FirstPage, LastPage
  <2> QED
    BY <2>4, <2>5
<1>3. \A i \in 1..n : PagesOf(i) = F[i]..(G[i] - 1)
  BY DEF PagesOf
<1>4. Needed = N
  <2> PICK c : c = [i \in 1..n |-> {i} \X PagesOf(i)]
    OBVIOUS
  <2> PICK f : f = [i \in 1..n |-> {i} \X (F[i]..(G[i] - 1))]
    OBVIOUS
  <2>1. \A i \in 1..n : c[i] = f[i]
    BY <1>3
  <2>2. Needed = UNION {c[i] : i \in 1..n}
    BY ONLY <1>1, c = [i \in 1..n |-> {i} \X PagesOf(i)] DEF Needed
  <2>3. N = UNION {f[i] : i \in 1..n}
    BY ONLY N = Stretches(n, F, G), f = [i \in 1..n |-> {i} \X (F[i]..(G[i] - 1))] DEF Stretches
  <2> QED
    BY ONLY <2>1, <2>2, <2>3
<1>5. \A i \in 1..n : OffsetOf(i) = Cardinality(Earlier(N, i))
  BY <1>4 DEF OffsetOf, Earlier
<1>6. /\ IsFiniteSet(N) /\ Cardinality(N) \in Nat
      /\ \A i \in 1..n : \A k \in F[i]..(G[i] - 1) : PlaceOf(N, F, i, k) \in 1..Cardinality(N)
      /\ \A x \in 1..Cardinality(N) : \E i \in 1..n : \E k \in F[i]..(G[i] - 1) :
            x = PlaceOf(N, F, i, k)
  <2>1. \A i \in 1..n : F[i] \in Nat /\ G[i] \in Nat /\ F[i] <= G[i]
    BY <1>2
  <2> QED
    BY ONLY <1>1, <2>1, StretchesFill, N = Stretches(n, F, G)
<1>7. \A i \in 1..n : \A k \in PagesOf(i) :
         Slot(i, k) = PlaceOf(N, F, i, k)
  BY <1>5 DEF Slot, PlaceOf
<1>8. \A i \in 1..n : PagesOf(i) \subseteq 0..(DivCeil(MaxSeqLen) - 1)
  <2> TAKE i \in 1..n
  <2> PICK e : e = DivCeil(MaxSeqLen)
    OBVIOUS
  <2>1. F[i] \in Nat /\ G[i] \in Nat /\ G[i] <= e /\ e \in Nat
    BY <1>2
  <2>2. F[i]..(G[i] - 1) \subseteq 0..(e - 1)
    BY ONLY <2>1
  <2> QED
    BY <1>3, <2>2
<1>9. NeededPages = Cardinality(N)
  BY <1>4 DEF NeededPages
<1>10. \A i \in 1..n : \A k \in PagesOf(i) : Slot(i, k) \in 1..NeededPages
  <2> TAKE i \in 1..n
  <2> TAKE k \in PagesOf(i)
  <2>1. k \in F[i]..(G[i] - 1) /\ Slot(i, k) = PlaceOf(N, F, i, k)
    BY <1>3, <1>7
  <2>2. PlaceOf(N, F, i, k) \in 1..Cardinality(N)
    BY ONLY <1>6, <2>1, i \in 1..n
  <2> QED
    BY ONLY <1>9, <2>1, <2>2
<1>11. \A x \in 1..NeededPages : \E i \in 1..n : \E k \in PagesOf(i) : x = Slot(i, k)
  <2> TAKE x \in 1..NeededPages
  <2>1. x \in 1..Cardinality(N)
    BY <1>9
  <2>2. PICK i \in 1..n : \E k \in F[i]..(G[i] - 1) : x = PlaceOf(N, F, i, k)
    BY ONLY <1>6, <2>1
  <2>3. PICK k \in F[i]..(G[i] - 1) : x = PlaceOf(N, F, i, k)
    BY ONLY <2>2
  <2>4. k \in PagesOf(i) /\ x = Slot(i, k)
    BY <1>3, <1>7, <2>3
  <2> QED
    BY <2>4
<1>12. \A i \in 1..n : /\ FirstPage(req[batch.reqs[i].uid]) \in Nat
                       /\ LastPage(req[batch.reqs[i].uid]) \in Nat
                       /\ FirstPage(req[batch.reqs[i].uid]) <= LastPage(req[batch.reqs[i].uid])
  BY <1>2
<1> QED
  BY ONLY <1>1, <1>4, <1>6, <1>8, <1>9, <1>10, <1>11, <1>12

(* Only the rows of the batch are written, each at the entries that it needs. *)
LEMMA WrittenRows ==
    ASSUME Inv, RowsOwned, TableInv, phase = "allocate", NEW slots, WritePageTable(slots),
           \A i \in DOMAIN batch.reqs : PagesOf(i) \subseteq 0..(DivCeil(MaxSeqLen) - 1)
    PROVE  /\ DOMAIN page_table' = Row
           /\ \A w \in Row : DOMAIN page_table'[w] = 0..(DivCeil(MaxSeqLen) - 1)
           /\ \A i \in DOMAIN batch.reqs : \A k \in PagesOf(i) :
                 page_table'[req[batch.reqs[i].uid].table_idx][k] = slots[Slot(i, k)]
           /\ \A r \in live : \A k \in 0..(DivCeil(MaxSeqLen) - 1) :
                 (\A i \in DOMAIN batch.reqs : batch.reqs[i].uid = r => k \notin PagesOf(i))
                 => page_table'[req[r].table_idx][k] = page_table[req[r].table_idx][k]
<1> DEFINE written(w, k) == {i \in DOMAIN batch.reqs :
                                req[batch.reqs[i].uid].table_idx = w /\ k \in PagesOf(i)}
           D == 0..(DivCeil(MaxSeqLen) - 1)
<1>1. /\ DOMAIN page_table' = Row
      /\ \A w \in Row : DOMAIN page_table'[w] = D
  BY DEF WritePageTable, TableInv
<1>2. \A w \in Row : \A k \in D :
         page_table'[w][k] = IF written(w, k) = {} THEN page_table[w][k]
                             ELSE slots[Slot(Max(written(w, k)), k)]
  BY DEF WritePageTable, TableInv, Slot
<1> HIDE DEF written
<1>3. \A r \in live : r \in Req /\ req[r].table_idx \in Row
  BY DEF Inv, QueueTypes, ObjectTypes
<1>4. \A i \in DOMAIN batch.reqs : batch.reqs[i].uid \in live
  BY DEF Inv, BatchInv
<1>5. ASSUME NEW i \in DOMAIN batch.reqs, NEW k \in PagesOf(i)
      PROVE  page_table'[req[batch.reqs[i].uid].table_idx][k] = slots[Slot(i, k)]
  <2> PICK r : r = batch.reqs[i].uid
    OBVIOUS
  <2> PICK w : w = req[r].table_idx
    OBVIOUS
  <2>1. r \in live /\ w \in Row /\ k \in D
    BY <1>3, <1>4
  <2>2. written(w, k) = {i}
    <3>1. i \in written(w, k)
      BY DEF written
    <3>2. ASSUME NEW j \in written(w, k) PROVE j = i
      <4>1. j \in DOMAIN batch.reqs /\ req[batch.reqs[j].uid].table_idx = w
        BY <3>2 DEF written
      <4>2. batch.reqs[j].uid = r
        BY <1>4, <2>1, <4>1 DEF RowsOwned
      <4> QED
        BY <4>1, <4>2 DEF Inv, BatchInv
    <3> QED
      BY <3>1, <3>2
  <2>3. Max({i}) = i
    <3>1. i \in Int
      BY BatchEntries DEF Inv
    <3> QED
      BY <3>1 DEF Max
  <2>4. page_table'[w][k] = IF written(w, k) = {} THEN page_table[w][k]
                            ELSE slots[Slot(Max(written(w, k)), k)]
    BY <1>2, <2>1
  <2>5. page_table'[w][k] = slots[Slot(i, k)]
    BY ONLY <2>2, <2>3, <2>4
  <2> QED
    BY <2>5
<1>6. ASSUME NEW r \in live, NEW k \in D,
             \A i \in DOMAIN batch.reqs : batch.reqs[i].uid = r => k \notin PagesOf(i)
      PROVE  page_table'[req[r].table_idx][k] = page_table[req[r].table_idx][k]
  <2> PICK w : w = req[r].table_idx
    OBVIOUS
  <2>1. written(w, k) = {}
    <3> SUFFICES ASSUME NEW j \in written(w, k) PROVE FALSE
      OBVIOUS
    <3>1. j \in DOMAIN batch.reqs /\ req[batch.reqs[j].uid].table_idx = w /\ k \in PagesOf(j)
      BY DEF written
    <3>2. batch.reqs[j].uid = r
      BY <1>4, <3>1 DEF RowsOwned
    <3> QED
      BY <1>6, <3>1, <3>2
  <2> QED
    BY <1>2, <1>3, <2>1
<1> QED
  BY <1>1, <1>5, <1>6

(* A request of the batch gets entries after those it has, nobody else any. *)
LEMMA GrownEntries ==
    ASSUME Inv, ObjectInv, HandleInv, FitInv, phase = "allocate", phase' = "forward",
           UNCHANGED <<live, req, batch>>, NEW r \in live
    PROVE  /\ Entries[r] \subseteq 0..(DivCeil(MaxSeqLen) - 1)
           /\ r \notin BatchUids => Entries'[r] = Entries[r]
           /\ \A i \in DOMAIN batch.reqs : batch.reqs[i].uid = r =>
                 Entries'[r] = Entries[r] \cup PagesOf(i) /\ Entries[r] \cap PagesOf(i) = {}
           /\ IsFiniteSet(Entries'[r]) /\ Entries[r] \subseteq Entries'[r]
<1> PICK q : q = req[r]
  OBVIOUS
<1> PICK top : top = DivCeil(MaxSeqLen)
  OBVIOUS
<1>1. PICK a, e \in Nat : a <= e /\ q.handle_len \div PageSize = a /\ DivCeil(Allocated(r)) = e
                          /\ Entries[r] = a..(e - 1)
  BY OwnedEntries
<1>2. Allocated(r) = q.cached_len /\ r \in Req
  BY DEF Allocated, Inv, QueueTypes
<1>3. /\ q.cached_len \in Nat /\ q.device_len \in Nat /\ q.cached_len <= q.device_len
      /\ q.cached_len <= MaxSeqLen /\ MaxSeqLen \in Nat
  <2>1. NumPages * PageSize \in Int
    BY SchedulerAssumptions, PageSizeAssumption
  <2> QED
    BY <1>2, <2>1, SchedulerAssumptions DEF ObjectInv, WellFormed, FitInv
<1> PICK f : f = DivCeil(q.device_len)
  OBVIOUS
<1>4. e = DivCeil(q.cached_len) /\ f \in Nat /\ e <= f /\ top \in Nat /\ e <= top
  <2>1. e = DivCeil(q.cached_len)
    BY <1>1, <1>2
  <2> QED
    BY ONLY <1>3, <2>1, f = DivCeil(q.device_len), top = DivCeil(MaxSeqLen), CeilIsMonotone
<1>5. BatchUids' = BatchUids /\ DOMAIN Entries' = live
  BY DEF BatchUids, Entries
<1>6. Entries'[r] = a..((IF r \in BatchUids THEN f ELSE e) - 1)
  <2>1. Entries'[r] = OwnEntries(r)'
    BY DEF Entries
  <2>2. Allocated(r)' = IF r \in BatchUids THEN q.device_len ELSE q.cached_len
    BY <1>5 DEF Allocated
  <2>3. OwnEntries(r)' = (q.handle_len \div PageSize)..(DivCeil(Allocated(r)') - 1)
    BY DEF OwnEntries
  <2>4. CASE r \in BatchUids
    BY <1>1, <2>1, <2>2, <2>3, <2>4
  <2>5. CASE r \notin BatchUids
    BY <1>1, <1>4, <2>1, <2>2, <2>3, <2>5
  <2> QED
    BY <2>4, <2>5
<1> PICK g : g = Entries'[r]
  OBVIOUS
<1> PICK h : h = Entries[r]
  OBVIOUS
<1>7. ASSUME NEW i \in DOMAIN batch.reqs, batch.reqs[i].uid = r
      PROVE  g = h \cup PagesOf(i) /\ h \cap PagesOf(i) = {}
  <2>1. r \in BatchUids
    BY <1>7 DEF BatchUids
  <2>2. PagesOf(i) = e..(f - 1)
    BY <1>4, <1>7 DEF PagesOf, FirstPage, LastPage
  <2>3. g = a..(f - 1) /\ h = a..(e - 1)
    BY <1>1, <1>6, <2>1
  <2>4. a..(f - 1) = a..(e - 1) \cup e..(f - 1) /\ a..(e - 1) \cap e..(f - 1) = {}
    BY ONLY <1>1, <1>4
  <2> QED
    BY ONLY <2>2, <2>3, <2>4
<1>8. IsFiniteSet(g) /\ h \subseteq g
  <2> PICK m : m = IF r \in BatchUids THEN f ELSE e
    OBVIOUS
  <2>1. m \in Nat /\ a <= m /\ e <= m
    BY ONLY <1>1, <1>4, m = IF r \in BatchUids THEN f ELSE e
  <2>2. g = a..(m - 1)
    BY <1>6
  <2> QED
    BY <1>1, <2>1, <2>2, IntervalCount
<1>9. h \subseteq 0..(top - 1)
  BY <1>1, <1>4
<1>10. r \notin BatchUids => g = h
  BY <1>1, <1>6
<1> QED
  BY <1>7, <1>8, <1>9, <1>10

(* Allocation: the first pages on offer become the entries that the batch needs. *)
LEMMA AllocatedPages ==
    ASSUME Inv, ObjectInv, RowsOwned, HandleInv, TableInv, FitInv, PagesPartitioned,
           phase = "allocate", phase' = "forward",
           UNCHANGED <<live, req, batch, lazy_free_list>>,
           NEW V, NEW slots \in Seq(Page), WritePageTable(slots),
           Taken(free_slots, cache, V, slots, NeededPages, free_slots', cache')
    PROVE  PagesPartitioned' /\ TableInv'
<1> PICK E : E = Entries
  OBVIOUS
<1> PICK G : G = Entries'
  OBVIOUS
<1> PICK T : T = Rows
  OBVIOUS
<1> PICK U : U = Rows'
  OBVIOUS
<1> PICK m : m = NeededPages
  OBVIOUS
<1> PICK D : D = 0..(DivCeil(MaxSeqLen) - 1)
  OBVIOUS
<1>1. /\ IsFiniteSet(Needed) /\ m \in Nat
      /\ \A i \in DOMAIN batch.reqs :
            /\ PagesOf(i) \subseteq D
            /\ \A k \in PagesOf(i) : Slot(i, k) \in 1..m
      /\ \A x \in 1..m : \E i \in DOMAIN batch.reqs : \E k \in PagesOf(i) : x = Slot(i, k)
  BY BatchPages
<1>2. /\ DOMAIN page_table' = Row
      /\ \A w \in Row : DOMAIN page_table'[w] = D
      /\ \A i \in DOMAIN batch.reqs : \A k \in PagesOf(i) :
            page_table'[req[batch.reqs[i].uid].table_idx][k] = slots[Slot(i, k)]
      /\ \A r \in live : \A k \in D :
            (\A i \in DOMAIN batch.reqs : batch.reqs[i].uid = r => k \notin PagesOf(i))
            => page_table'[req[r].table_idx][k] = page_table[req[r].table_idx][k]
  BY <1>1, WrittenRows
<1>3. \A r \in live : T[r] = page_table[req[r].table_idx] /\ U[r] = page_table'[req[r].table_idx]
  BY DEF Rows
<1>4. \A r \in live :
         /\ E[r] \subseteq D /\ IsFiniteSet(G[r]) /\ E[r] \subseteq G[r]
         /\ r \notin BatchUids => G[r] = E[r]
         /\ \A i \in DOMAIN batch.reqs : batch.reqs[i].uid = r =>
               G[r] = E[r] \cup PagesOf(i) /\ E[r] \cap PagesOf(i) = {}
  BY GrownEntries
<1>5. \A i \in DOMAIN batch.reqs : batch.reqs[i].uid \in live
  BY DEF Inv, BatchInv
<1>6. ASSUME NEW r \in live, NEW k \in G[r], k \notin E[r]
      PROVE  \E i \in DOMAIN batch.reqs : batch.reqs[i].uid = r /\ k \in PagesOf(i)
  <2>1. r \in BatchUids
    BY <1>4, <1>6
  <2>2. PICK i \in DOMAIN batch.reqs : batch.reqs[i].uid = r
    BY <2>1 DEF BatchUids
  <2> QED
    BY <1>4, <1>6, <2>2
<1>7. Written(live, E, T, slots, m, G, U)
  <2>1. \A r \in live : \A k \in E[r] : U[r][k] = T[r][k]
    <3> TAKE r \in live
    <3> TAKE k \in E[r]
    <3>1. k \in D /\ \A i \in DOMAIN batch.reqs : batch.reqs[i].uid = r => k \notin PagesOf(i)
      BY <1>4
    <3> QED
      BY <1>2, <1>3, <3>1
  <2>2. \A r \in live : \A k \in G[r] : k \notin E[r] => \E x \in 1..m : U[r][k] = slots[x]
    <3> SUFFICES ASSUME NEW r \in live, NEW k \in G[r], k \notin E[r]
                 PROVE  \E x \in 1..m : U[r][k] = slots[x]
      OBVIOUS
    <3>1. PICK i \in DOMAIN batch.reqs : batch.reqs[i].uid = r /\ k \in PagesOf(i)
      BY <1>6
    <3>2. Slot(i, k) \in 1..m /\ U[r][k] = slots[Slot(i, k)]
      BY <1>1, <1>2, <1>3, <3>1
    <3> QED
      BY <3>2
  <2>3. \A x \in 1..m : \E r \in live : \E k \in G[r] : U[r][k] = slots[x]
    <3> TAKE x \in 1..m
    <3>1. PICK i \in DOMAIN batch.reqs : \E k \in PagesOf(i) : x = Slot(i, k)
      BY <1>1
    <3>2. PICK k \in PagesOf(i) : x = Slot(i, k)
      BY <3>1
    <3> PICK r : r = batch.reqs[i].uid
      OBVIOUS
    <3>3. r \in live /\ k \in G[r]
      BY <1>4, <1>5
    <3>4. U[r][k] = slots[x]
      BY <1>2, <1>3, <3>2, <3>3
    <3> QED
      BY <3>3, <3>4
  <2>4. \A r \in live : IsFiniteSet(G[r]) /\ E[r] \subseteq G[r]
    BY <1>4
  <2> QED
    BY <2>1, <2>2, <2>3, <2>4 DEF Written
<1> PICK need : need = Needed
  OBVIOUS
<1> PICK f : f = [n \in need |-> <<batch.reqs[n[1]].uid, n[2]>>]
  OBVIOUS
<1> PICK X : X = {f[n] : n \in need}
  OBVIOUS
<1>8. IsFiniteSet(X) /\ Cardinality(X) <= m
  <2>1. IsFiniteSet(need) /\ f = [n \in need |-> f[n]] /\ m = Cardinality(need)
    BY <1>1 DEF NeededPages
  <2>2. IsFiniteSet({f[n] : n \in need}) /\ Cardinality({f[n] : n \in need}) <= Cardinality(need)
    BY ONLY <2>1, ImageCount
  <2> QED
    BY ONLY <2>1, <2>2, X = {f[n] : n \in need}
<1>9. Pairs(live, G) \subseteq Pairs(live, E) \cup X
  <2> SUFFICES ASSUME NEW x \in Pairs(live, G), x \notin Pairs(live, E) PROVE x \in X
    OBVIOUS
  <2>1. PICK r \in live : x \in {r} \X G[r]
    BY DEF Pairs
  <2>2. PICK k \in G[r] : x = <<r, k>>
    BY <2>1
  <2>3. k \notin E[r]
    BY <2>2 DEF Pairs
  <2>4. PICK i \in DOMAIN batch.reqs : batch.reqs[i].uid = r /\ k \in PagesOf(i)
    BY <1>6, <2>3
  <2>5. <<i, k>> \in need
    BY <2>4 DEF Needed
  <2>6. f[<<i, k>>] = x
    BY <2>2, <2>4, <2>5
  <2> QED
    BY <2>5, <2>6
<1>10. Partition(free_slots', lazy_free_list, cache', live, G, U)
  <2>1. Partition(free_slots, lazy_free_list, cache, live, E, T)
    BY PartitionIsNow DEF PartitionNow
  <2>2. Countable(free_slots, lazy_free_list, cache, live, E)
    BY CountableNow
  <2>3. Taken(free_slots, cache, V, slots, m, free_slots', cache')
    OBVIOUS
  <2> QED
    BY ONLY <1>1, <1>7, <1>8, <1>9, <2>1, <2>2, <2>3, slots \in Seq(Page), PagesAllocated
<1>11. PagesPartitioned'
  BY <1>10, PartitionIsNow DEF PartitionNow
<1>12. TableInv'
  <2>1. free_slots' \in Seq(Page)
    <3>1. m <= Len(slots) /\ free_slots' = SubSeq(slots, m + 1, Len(slots))
      BY DEF Taken
    <3> QED
      BY <1>1, <3>1, TailOfSeq
  <2>2. IsFiniteSet(DOMAIN cache')
    BY FS_Subset DEF Taken, TableInv
  <2> QED
    BY <1>2, <2>1, <2>2 DEF TableInv
<1> QED
  BY <1>11, <1>12

(* The free list suffices, or what is evicted makes up for it. *)
LEMMA AllocationTakes ==
    ASSUME Inv, ObjectInv, HandleInv, TableInv, FitInv, PagesPartitioned,
           AllocateFree \/ AllocateEvict
    PROVE  /\ phase = "allocate" /\ phase' = "forward"
           /\ UNCHANGED <<live, req, batch, lazy_free_list, running_reqs, pending_list>>
           /\ NeededPages \in Nat
           /\ \E V \in SUBSET Evictable(cache) : \E slots \in Seq(Page) :
                 /\ WritePageTable(slots) /\ Cardinality(V) \in Nat
                 /\ Taken(free_slots, cache, V, slots, NeededPages, free_slots', cache')
                 /\ \A p \in DOMAIN cache' : cache'[p] = cache[p]
<1> PICK m : m = NeededPages
  OBVIOUS
<1> PICK f : f = free_slots
  OBVIOUS
<1>1. /\ phase = "allocate" /\ phase' = "forward"
      /\ UNCHANGED <<live, req, batch, lazy_free_list, running_reqs, pending_list>>
  BY DEF AllocateFree, AllocateEvict, queue_vars, ghost_vars
<1>2. m \in Nat /\ f \in Seq(Page) /\ Len(f) \in Nat
  <2>1. NeededPages \in Nat
    BY <1>1, BatchPages
  <2> QED
    BY <2>1 DEF TableInv
<1>3. CASE AllocateFree
  <2>1. /\ m <= Len(f) /\ WritePageTable(f) /\ free_slots' = SubSeq(f, m + 1, Len(f))
        /\ cache' = cache
    BY <1>3 DEF AllocateFree
  <2>2. Cardinality({}) = 0
    BY FS_EmptySet
  <2>3. Taken(f, cache, {}, f, m, free_slots', cache')
    BY <1>2, <2>1, <2>2 DEF Taken, PrefixPages
  <2> QED
    BY <1>1, <1>2, <2>1, <2>2, <2>3
<1>4. CASE AllocateEvict
  <2>1. PICK V \in Victims(cache, m - Len(f)) :
           /\ cache' = [p \in DOMAIN cache \ V |-> cache[p]]
           /\ WritePageTable(f \o SetToSeq({cache[p].page : p \in V}))
           /\ free_slots' = LET slots == f \o SetToSeq({cache[p].page : p \in V})
                            IN  SubSeq(slots, m + 1, Len(slots))
    BY <1>4 DEF AllocateEvict
  <2> PICK pages : pages = PrefixPages(cache, V)
    OBVIOUS
  <2> PICK order : order = SetToSeq(pages)
    OBVIOUS
  <2> PICK slots : slots = f \o order
    OBVIOUS
  <2>2. WritePageTable(slots) /\ free_slots' = SubSeq(slots, m + 1, Len(slots))
    BY <2>1 DEF PrefixPages
  <2>3. V \in SUBSET Evictable(cache) /\ V \subseteq DOMAIN cache
        /\ Cardinality(V) >= m - Len(f)
    BY <2>1 DEF Victims, Evictable
  <2>4. /\ IsFiniteSet(pages) /\ Cardinality(pages) = Cardinality(V)
        /\ Cardinality(V) \in Nat /\ pages \subseteq Page
    <3>1. Countable(free_slots, lazy_free_list, cache, live, Entries)
      BY CountableNow
    <3>2. Partition(free_slots, lazy_free_list, cache, live, Entries, Rows)
      BY PartitionIsNow DEF PartitionNow
    <3> PICK E : E = Entries
      OBVIOUS
    <3> PICK T : T = Rows
      OBVIOUS
    <3> QED
      BY <2>3, <3>1, <3>2, PagesOfPrefixes
  <2>5. order \in Seq(Page) /\ Len(order) = Cardinality(V) /\ ToSet(order) = pages
    <3>1. order \in Seq(pages) /\ Len(order) = Cardinality(pages) /\ ToSet(order) = pages
      BY <2>4, SeqOfSet
    <3> QED
      BY <2>4, <3>1
  <2>6. slots \in Seq(Page) /\ Len(slots) = Len(f) + Len(order)
        /\ ToSet(slots) = ToSet(f) \cup ToSet(order)
    BY <1>2, <2>5, JoinedElements
  <2>7. m <= Len(slots)
    BY <1>2, <2>3, <2>4, <2>5, <2>6
  <2>8. Taken(f, cache, V, slots, m, free_slots', cache')
    BY <2>1, <2>2, <2>3, <2>5, <2>6, <2>7 DEF Taken
  <2>9. \A p \in DOMAIN cache' : cache'[p] = cache[p]
    BY <2>1
  <2> QED
    BY <1>1, <1>2, <2>2, <2>3, <2>4, <2>6, <2>8, <2>9
<1> QED
  BY <1>3, <1>4

(* So every page stays in one place. *)
LEMMA AllocatePages ==
    ASSUME Inv, ObjectInv, RowsOwned, HandleInv, TableInv, FitInv, PagesPartitioned,
           AllocateFree \/ AllocateEvict
    PROVE  PagesPartitioned' /\ TableInv' /\ DOMAIN cache' \subseteq DOMAIN cache
<1>1. /\ phase = "allocate" /\ phase' = "forward"
      /\ UNCHANGED <<live, req, batch, lazy_free_list>>
  BY AllocationTakes
<1>2. PICK V \in SUBSET Evictable(cache), slots \in Seq(Page) :
         /\ WritePageTable(slots)
         /\ Taken(free_slots, cache, V, slots, NeededPages, free_slots', cache')
  BY AllocationTakes
<1>3. PagesPartitioned' /\ TableInv'
  BY <1>1, <1>2, AllocatedPages
<1>4. DOMAIN cache' \subseteq DOMAIN cache
  BY <1>2 DEF Taken
<1> QED
  BY <1>3, <1>4

-----------------------------------------------------------------------------
(* The step *)

(* What a step does that neither moves pages nor changes objects. *)
QuietStep ==
    /\ UNCHANGED <<pool_vars, live, req>>
    /\ phase # "forward" /\ phase' # "forward"

(* The steps that leave the pool alone. *)
LEMMA QuietStepIs ==
    ASSUME \/ \E r \in Req : ReceiveUser(r)
           \/ StartSchedule \/ SchedulePrefill \/ ScheduleDecode \/ ScheduleNothing
           \/ AllocateFails \/ ProcessChunk \/ ProcessFails
    PROVE  QuietStep
<1>1. ASSUME NEW r \in Req, ReceiveUser(r) PROVE QuietStep
  BY <1>1 DEF QuietStep, ReceiveUser, loop_vars, ghost_vars
<1>2. CASE StartSchedule
  BY <1>2 DEF QuietStep, StartSchedule, queue_vars, ghost_vars
<1>3. CASE SchedulePrefill
  BY <1>3 DEF QuietStep, SchedulePrefill, ghost_vars
<1>4. CASE ScheduleDecode
  BY <1>4 DEF QuietStep, ScheduleDecode, queue_vars, ghost_vars
<1>5. CASE ScheduleNothing
  BY <1>5 DEF QuietStep, ScheduleNothing, queue_vars, ghost_vars
<1>6. CASE AllocateFails
  BY <1>6 DEF QuietStep, AllocateFails, queue_vars, ghost_vars
<1>7. CASE ProcessChunk
  BY <1>7 DEF QuietStep, ProcessChunk, InProcess, queue_vars, ghost_vars
<1>8. CASE ProcessFails
  BY <1>8 DEF QuietStep, ProcessFails, InProcess, queue_vars, ghost_vars
<1> QED
  BY <1>1, <1>2, <1>3, <1>4, <1>5, <1>6, <1>7, <1>8

(* Handles after an admission. *)
LEMMA AdmitHandles ==
    ASSUME Inv, ObjectInv, RefInv, TableInv, HandleInv, cache_type' = cache_type,
           AdmitChunk \/ AdmitNew
    PROVE  TableInv' /\ HandleInv'
<1> PICK r : r = Candidate
  OBVIOUS
<1>1. /\ ObjectInv' /\ r \in Req /\ \A s \in Req : s # r => req'[s] = req[s]
  BY ObjectAdmitted DEF RefInv
<1>2. free_slots' = free_slots /\ lazy_free_list' = lazy_free_list
  BY DEF AdmitChunk, AdmitNew, pool_vars
<1>3. PICK row, n, h : AddOneReq(r, row, n, h) /\ \E k \in Nat : h = PageSize * k
  <2>1. CASE AdmitChunk
    <3>1. AddOneReq(r, req[r].table_idx, req[r].cached_len, req[r].handle_len)
      BY <2>1 DEF AdmitChunk
    <3> QED
      BY <1>1, <3>1 DEF HandleInv
  <2>2. CASE AdmitNew
    <3>1. AddOneReq(r, Last(row_slots), Len(MatchReq(cache, r)), Len(MatchReq(cache, r)))
      BY <2>2 DEF AdmitNew
    <3> QED
      BY <1>1, <3>1, MatchedPages
  <2> QED
    BY <2>1, <2>2
<1>4. /\ req'[r].handle_len = h /\ req'[r].host_len = req'[r].device_len
  BY <1>1, <1>3, AddedFields DEF Inv
<1>5. req'[r].handle_len <= req'[r].host_len
  <2>1. WellFormed(req'[r], Prompt[r])
    BY <1>1 DEF ObjectInv
  <2> QED
    BY <1>4, <2>1 DEF WellFormed
<1>6. DOMAIN cache' = DOMAIN cache
  BY DEF AdmitChunk, AdmitNew, pool_vars, LockHandle
<1>7. /\ DOMAIN page_table' = DOMAIN page_table
      /\ \A w \in DOMAIN page_table : DOMAIN page_table'[w] = DOMAIN page_table[w]
  <2>1. CASE AdmitChunk
    BY <2>1 DEF AdmitChunk, pool_vars
  <2>2. CASE AdmitNew
    BY <2>2 DEF AdmitNew
  <2> QED
    BY <2>1, <2>2
<1>8. HandleInv'
  BY <1>1, <1>3, <1>4, <1>5, <1>6 DEF HandleInv
<1>9. TableInv'
  BY <1>2, <1>6, <1>7 DEF TableInv
<1> QED
  BY <1>8, <1>9

(* A batch changes no handle. *)
LEMMA ForwardHandles ==
    ASSUME Inv, TableInv, HandleInv, cache_type' = cache_type, Forward
    PROVE  TableInv' /\ HandleInv'
<1>1. PICK token :
         req' = [s \in Req |->
                   IF s \notin BatchUids THEN req[s]
                   ELSE Completed(req[s], IF req[s].chunked THEN Eos ELSE token[s])]
  BY DEF Forward
<1>2. UNCHANGED pool_vars
  BY DEF Forward
<1>3. \A s \in Req : req'[s].handle_len = req[s].handle_len /\ req'[s].host_len = req[s].host_len
  BY <1>1 DEF Completed, Fields, Inv, ObjectTypes
<1> QED
  BY <1>2, <1>3 DEF TableInv, HandleInv, pool_vars

(* Every step keeps each page in one place. *)
LEMMA PageStep ==
    ASSUME CacheInv, RowsOwned, PageInv, [Next]_vars
    PROVE  PagesPartitioned' /\ TableInv' /\ HandleInv'
<1> USE DEF CacheInv, PageInv
<1>1. CASE UNCHANGED vars
  <2>1. PartitionNow' = PartitionNow
    BY <1>1 DEF vars, loop_vars, queue_vars, pool_vars, ghost_vars, PartitionNow, Entries, Rows,
                OwnEntries, Allocated, BatchUids
  <2> QED
    BY <1>1, <2>1, PartitionIsNow
       DEF vars, queue_vars, pool_vars, ghost_vars, TableInv, HandleInv
<1>2. SUFFICES ASSUME Receive \/ Loop, cache_type' = cache_type
               PROVE  PagesPartitioned' /\ TableInv' /\ HandleInv'
  BY <1>1 DEF Next
<1>3. CASE QuietStep
  <2>1. PagesPartitioned'
    BY <1>3, QuietPages DEF QuietStep, pool_vars
  <2> QED
    BY <1>2, <1>3, <2>1 DEF QuietStep, pool_vars, TableInv, HandleInv
<1>4. ASSUME NEW r \in Req, ReceiveAbort(r)
      PROVE  PagesPartitioned' /\ TableInv' /\ HandleInv'
  BY <1>2, <1>4, AbortPages DEF HandleInv
<1>5. CASE AdmitChunk \/ AdmitNew
  BY <1>2, <1>5, AdmitPages, AdmitHandles
<1>6. CASE AllocateFree \/ AllocateEvict
  <2>1. req' = req
    BY <1>6 DEF AllocateFree, AllocateEvict, queue_vars
  <2> QED
    BY <1>2, <1>6, <2>1, AllocatePages DEF HandleInv
<1>7. CASE Forward
  BY <1>2, <1>7, ForwardPages, ForwardHandles
<1>8. CASE ProcessFinished \/ ProcessPrefilled \/ ProcessDecoded
  BY <1>2, <1>8, ProcessedPages
<1>9. CASE EndIteration
  <2>1. /\ free_slots' = free_slots \o lazy_free_list /\ lazy_free_list' = <<>>
        /\ UNCHANGED <<req, page_table, cache>>
    BY <1>9 DEF EndIteration
  <2>2. free_slots' \in Seq(Page) /\ lazy_free_list' \in Seq(Page)
    BY <2>1, JoinedElements DEF TableInv
  <2> QED
    BY <1>2, <1>9, <2>1, <2>2, EndPages DEF TableInv, HandleInv
<1> QED
  BY <1>2, <1>3, <1>4, <1>5, <1>6, <1>7, <1>8, <1>9, QuietStepIs
     DEF Receive, Loop, Admit, Allocate, Process

-----------------------------------------------------------------------------
(* Lengths *)

SameLengths ==
    \A r \in Req : /\ req'[r].cached_len = req[r].cached_len
                   /\ req'[r].device_len = req[r].device_len
                   /\ req'[r].max_device_len = req[r].max_device_len

(* What is about to run fits. *)
AddedFit == phase = "admit" => \A i \in DOMAIN adder.reqs : FitsRow(req[adder.reqs[i].uid])

BatchFits ==
    phase \in {"allocate", "forward"} => \A i \in DOMAIN batch.reqs : FitsRow(req[batch.reqs[i].uid])

(* In most steps lengths stay and requests at most leave. *)
LEMMA FitKept ==
    ASSUME Inv, FitInv, SameLengths, live' \subseteq live, running_reqs' \subseteq running_reqs,
           \A r \in ToSet(pending_list') : r \in ToSet(pending_list) \/ MaxOutputLen(r) > 0,
           AddedFit', BatchFits'
    PROVE  FitInv'
<1>1. live \subseteq Req /\ running_reqs \subseteq Req
  BY DEF Inv, QueueTypes
<1>2. \A r \in ToSet(pending_list') : MaxOutputLen(r) > 0
  BY DEF FitInv
<1>3. \A r \in live' : /\ req'[r].cached_len <= MaxSeqLen
                       /\ req'[r].max_device_len \in Int /\ req'[r].max_device_len <= MaxSeqLen
  BY <1>1 DEF FitInv, SameLengths
<1>4. \A r \in running_reqs' : FitsRow(req'[r])
  BY <1>1 DEF FitInv, SameLengths, FitsRow
<1> QED
  BY <1>2, <1>3, <1>4 DEF FitInv, AddedFit, BatchFits, MaxOutputLen

(* Who leaves the waiting requests lets nobody in. *)
LEMMA LeavingWaits ==
    ASSUME Inv, NEW r \in Req
    PROVE  ToSet(RemoveFirst(pending_list, r)) \subseteq ToSet(pending_list)
<1>1. CASE r \in ToSet(pending_list)
  <2> PICK t : t = RemoveFirst(pending_list, r)
    OBVIOUS
  <2> PICK s : s = pending_list
    OBVIOUS
  <2>1. PICK k \in 1..Len(s) :
           /\ t \in Seq(Req) /\ Len(t) = Len(s) - 1
           /\ \A i \in 1..Len(t) : t[i] = IF i < k THEN s[i] ELSE s[i + 1]
    <3>1. IsInjective(s) /\ s \in Seq(Req) /\ r \in ToSet(s) /\ t = RemoveFirst(s, r)
      BY <1>1 DEF Inv, PlacesDisjoint, QueueTypes
    <3>2. PICK k \in 1..Len(s) :
             /\ s[k] = r
             /\ t \in Seq(Req)
             /\ Len(t) = Len(s) - 1
             /\ \A i \in 1..Len(t) : t[i] = IF i < k THEN s[i] ELSE s[i + 1]
      BY ONLY <3>1, RemovedElement
    <3> QED
      BY <3>2
  <2>2. /\ Len(s) \in Nat /\ Len(t) \in Nat
        /\ DOMAIN s = 1..Len(s) /\ DOMAIN t = 1..Len(t)
    <3>1. s \in Seq(Req)
      BY DEF Inv, QueueTypes
    <3> QED
      BY <2>1, <3>1
  <2>3. \A i \in 1..Len(t) : \E j \in 1..Len(s) : t[i] = s[j]
    <3> TAKE i \in 1..Len(t)
    <3>1. i \in 1..Len(s) /\ i + 1 \in 1..Len(s)
      BY <2>1, <2>2
    <3> QED
      BY <2>1, <3>1
  <2> QED
    BY <2>2, <2>3 DEF ToSet
<1>2. CASE r \notin ToSet(pending_list)
  <2>1. ~\E i \in 1..Len(pending_list) : pending_list[i] = r
    BY <1>2 DEF ToSet, Inv, QueueTypes
  <2> QED
    BY <2>1 DEF RemoveFirst
<1> QED
  BY <1>1, <1>2

(* Waiting requests that leave the list, or one that joins it. *)
LEMMA ReceivedFit ==
    ASSUME Inv, ObjectInv, RefInv, HandleInv, TableInv, PagesPartitioned, FitInv, Receive
    PROVE  FitInv'
<1>1. pending_list \in Seq(Req)
  BY DEF Inv, QueueTypes
<1>2. ASSUME NEW r \in Req, ReceiveUser(r) PROVE FitInv'
  <2>1. /\ UNCHANGED <<live, req, running_reqs>> /\ phase = "receive" /\ phase' = "receive"
        /\ pending_list' = IF MaxOutputLen(r) <= 0 THEN pending_list ELSE Append(pending_list, r)
    BY <1>2 DEF ReceiveUser, loop_vars, ghost_vars
  <2>2. ToSet(Append(pending_list, r)) = ToSet(pending_list) \cup {r}
    <3> PICK s : s = pending_list
      OBVIOUS
    <3> PICK t : t = Append(s, r)
      OBVIOUS
    <3>1. /\ Len(s) \in Nat /\ DOMAIN s = 1..Len(s) /\ DOMAIN t = 1..(Len(s) + 1)
          /\ \A i \in 1..Len(s) : t[i] = s[i]
          /\ t[Len(s) + 1] = r
      BY <1>1
    <3>2. \A i \in 1..(Len(s) + 1) : t[i] \in ToSet(s) \cup {r}
      BY <3>1 DEF ToSet
    <3>3. \A x \in ToSet(s) : x \in ToSet(t)
      BY <3>1 DEF ToSet
    <3>4. r \in ToSet(t)
      BY <3>1 DEF ToSet
    <3>5. ToSet(t) \subseteq ToSet(s) \cup {r}
      <4> PICK S : S = ToSet(s) \cup {r}
        OBVIOUS
      <4> QED
        BY <3>1, <3>2 DEF ToSet
    <3> QED
      BY <3>3, <3>4, <3>5
  <2>3. MaxOutputLen(r) \in Int
    <3>1. NumPages * PageSize \in Int /\ Len(Prompt[r]) \in Nat
      BY SchedulerAssumptions, PageSizeAssumption
    <3> QED
      BY <3>1, SchedulerAssumptions DEF MaxOutputLen
  <2>4. \A s \in ToSet(pending_list') : s \in ToSet(pending_list) \/ MaxOutputLen(s) > 0
    BY <2>1, <2>2, <2>3
  <2> QED
    BY <2>1, <2>4, FitKept DEF SameLengths, AddedFit, BatchFits
<1>3. ASSUME NEW r \in Req, ReceiveAbort(r) PROVE FitInv'
  <2>1. req' = req
    BY <1>3, AbortPages
  <2>2. /\ live' \subseteq live /\ running_reqs' \subseteq running_reqs
        /\ pending_list' = RemoveFirst(pending_list, r) /\ phase' \in {"receive", "failed"}
    BY <1>3 DEF ReceiveAbort, FreeNow, RemoveReq
  <2>3. ToSet(pending_list') \subseteq ToSet(pending_list)
    BY <2>2, LeavingWaits
  <2> QED
    BY <2>1, <2>2, <2>3, FitKept DEF SameLengths, AddedFit, BatchFits
<1> QED
  BY <1>2, <1>3 DEF Receive

(* An admitted request computes at most its prompt now, and room for its output is left. *)
LEMMA AdmittedFit ==
    ASSUME Inv, ObjectInv, RefInv, FitInv, AdmitChunk \/ AdmitNew
    PROVE  FitInv'
<1> PICK r : r = Candidate
  OBVIOUS
<1>1. /\ ObjectInv' /\ r \in Req /\ \A s \in Req : s # r => req'[s] = req[s]
  BY ObjectAdmitted DEF RefInv
<1>2. /\ phase = "admit" /\ phase' = "admit" /\ Len(adder.reqs) + 1 \in DOMAIN pending_list
      /\ live' = live \cup {r} /\ running_reqs' = running_reqs /\ pending_list' = pending_list
  BY AdmittedRequest
<1>3. PICK row \in Row, n \in Int : \E h : AddOneReq(r, row, n, h)
  BY AdmittedRequest
<1>4. PICK h : AddOneReq(r, row, n, h)
  BY <1>3
<1> PICK q : q = req'[r]
  OBVIOUS
<1> PICK size : size = ChunkSize(Len(Prompt[r]) - n)
  OBVIOUS
<1> PICK p : p = Len(Prompt[r])
  OBVIOUS
<1> PICK out : out = OutputLen(r)
  OBVIOUS
<1>5. q.cached_len = n /\ q.device_len = n + size /\ q.max_device_len = n + size + out
  BY <1>1, <1>4, AddedFields DEF Inv
<1>6. p \in Nat /\ MaxSeqLen \in Int /\ MaxTokens[r] \in Nat /\ MaxTokens[r] > 0
  <2>1. NumPages * PageSize \in Int
    BY SchedulerAssumptions, PageSizeAssumption
  <2> QED
    BY <1>1, <2>1, SchedulerAssumptions
<1>7. size \in Int /\ size <= p - n
  <2>1. adder.token_budget \in Int /\ p - n \in Int
    BY <1>6 DEF Inv, QueueTypes
  <2>2. size = IF adder.token_budget <= p - n THEN adder.token_budget ELSE p - n
    BY <2>1, MinOfTwo DEF ChunkSize
  <2> QED
    BY ONLY <2>1, <2>2
<1>8. MaxOutputLen(r) > 0 /\ MaxOutputLen(r) = MaxSeqLen - p
  <2>1. r = pending_list[Len(adder.reqs) + 1]
    BY DEF Candidate
  <2>2. r \in ToSet(pending_list)
    BY <1>2, <2>1 DEF ToSet
  <2> QED
    BY <2>2 DEF FitInv, MaxOutputLen
<1>9. out \in Int /\ out > 0 /\ out <= MaxSeqLen - p
  BY <1>6, <1>8 DEF OutputLen
<1>10. q.cached_len <= q.device_len
  BY <1>1 DEF ObjectInv, WellFormed
<1>11. /\ q.device_len <= MaxSeqLen /\ q.cached_len <= MaxSeqLen
       /\ q.max_device_len \in Int /\ q.max_device_len <= MaxSeqLen
  <2>1. \A c, d, m \in Int : c = n /\ d = n + size /\ m = n + size + out /\ c <= d
                              => d <= MaxSeqLen /\ c <= MaxSeqLen /\ m <= MaxSeqLen
    BY ONLY <1>6, <1>7, <1>8, <1>9, n \in Int
  <2>2. n + size \in Int /\ n + size + out \in Int
    BY <1>7, <1>9
  <2> QED
    BY <1>5, <1>10, <2>1, <2>2
<1>12. \A s \in Req : FitsRow(req[s]) => FitsRow(req'[s])
  BY <1>1, <1>11 DEF FitsRow
<1>13. live \subseteq Req /\ running_reqs \subseteq Req
  BY DEF Inv, QueueTypes
<1>14. AddedFit'
  <2>1. adder'.reqs = Append(adder.reqs, [uid |-> r, chunked |-> req'[r].chunked])
    BY <1>1, <1>4, AddedRequest DEF Inv, QueueTypes
  <2> PICK a : a = adder.reqs
    OBVIOUS
  <2> PICK x : x = [uid |-> r, chunked |-> req'[r].chunked]
    OBVIOUS
  <2>2. a \in Seq(Entry) /\ Len(a) \in Nat /\ DOMAIN a = 1..Len(a)
    BY LenProperties DEF Inv, QueueTypes
  <2>3. /\ DOMAIN Append(a, x) = 1..(Len(a) + 1)
        /\ \A i \in 1..Len(a) : Append(a, x)[i] = a[i]
        /\ Append(a, x)[Len(a) + 1] = x /\ x.uid = r
    BY <2>2
  <2>4. \A i \in 1..Len(a) : a[i].uid \in Req /\ FitsRow(req[a[i].uid])
    <3>1. \A i \in 1..Len(a) : a[i] \in Entry
      BY <2>2
    <3>2. \A i \in 1..Len(a) : FitsRow(req[a[i].uid])
      BY <1>2, <2>2 DEF FitInv
    <3> QED
      BY <3>1, <3>2 DEF Entry
  <2>5. \A i \in 1..(Len(a) + 1) : FitsRow(req'[Append(a, x)[i].uid])
    <3> TAKE i \in 1..(Len(a) + 1)
    <3>1. CASE i = Len(a) + 1
      BY <1>11, <2>3, <3>1 DEF FitsRow
    <3>2. CASE i \in 1..Len(a)
      BY <1>12, <2>3, <2>4, <3>2
    <3> QED
      BY <2>2, <3>1, <3>2
  <2> QED
    BY <2>1, <2>3, <2>5 DEF AddedFit
<1>15. \A s \in live' : /\ req'[s].cached_len <= MaxSeqLen
                        /\ req'[s].max_device_len \in Int /\ req'[s].max_device_len <= MaxSeqLen
  BY <1>1, <1>2, <1>11, <1>13 DEF FitInv
<1>16. \A s \in running_reqs' : FitsRow(req'[s])
  BY <1>2, <1>12, <1>13 DEF FitInv
<1> QED
  BY <1>2, <1>14, <1>15, <1>16 DEF FitInv, AddedFit, MaxOutputLen

(* What still waits waited before. *)
LEMMA StillPendingWaits ==
    ASSUME Inv, phase = "admit"
    PROVE  ToSet(StillPending) \subseteq ToSet(pending_list)
<1> PICK t : t = StillPending
  OBVIOUS
<1> PICK s : s = pending_list
  OBVIOUS
<1>1. PICK m \in {Len(adder.reqs), Len(adder.reqs) + 1} :
         /\ m \in 1..(Len(s) + 1) /\ t \in Seq(Req) /\ Len(t) = Len(s) + 1 - m
         /\ \A i \in 1..Len(t) : t[i] = s[i + m - 1]
  BY StillPendingTail
<1>2. s \in Seq(Req) /\ Len(s) \in Nat /\ DOMAIN s = 1..Len(s)
  BY DEF Inv, QueueTypes
<1>3. DOMAIN t = 1..Len(t) /\ Len(t) \in Nat
  BY <1>1
<1>4. \A i \in 1..Len(t) : i + m - 1 \in 1..Len(s)
  BY <1>1, <1>2, <1>3
<1>5. \A i \in 1..Len(t) : t[i] \in ToSet(s)
  BY <1>1, <1>2, <1>4 DEF ToSet
<1> QED
  BY <1>3, <1>5 DEF ToSet

(* The batch is what was admitted, or what runs. *)
LEMMA ScheduledFit ==
    ASSUME Inv, FitInv, SchedulePrefill \/ ScheduleDecode
    PROVE  FitInv'
<1>1. CASE SchedulePrefill
  <2>1. /\ phase = "admit" /\ phase' = "allocate" /\ batch'.reqs = adder.reqs
        /\ UNCHANGED <<live, req, running_reqs>> /\ pending_list' = StillPending
    BY <1>1 DEF SchedulePrefill, ghost_vars
  <2>2. ToSet(StillPending) \subseteq ToSet(pending_list)
    BY <2>1, StillPendingWaits
  <2>3. BatchFits' /\ AddedFit'
    BY <2>1 DEF FitInv, BatchFits, AddedFit
  <2> QED
    BY <2>1, <2>2, <2>3, FitKept DEF SameLengths
<1>2. CASE ScheduleDecode
  <2>1. /\ phase' = "allocate" /\ UNCHANGED <<live, req, running_reqs, pending_list>>
    BY <1>2 DEF ScheduleDecode, queue_vars, ghost_vars
  <2>2. PICK order \in [1..Cardinality(running_reqs) -> running_reqs] :
           batch' = [phase |-> "decode",
                     reqs |-> [i \in DOMAIN order |-> [uid |-> order[i], chunked |-> FALSE]]]
    BY <1>2 DEF ScheduleDecode
  <2>3. \A i \in DOMAIN batch'.reqs : batch'.reqs[i].uid \in running_reqs
    BY <2>2
  <2>4. BatchFits' /\ AddedFit'
    BY <2>1, <2>3 DEF FitInv, BatchFits, AddedFit
  <2> QED
    BY <2>1, <2>4, FitKept DEF SameLengths
<1> QED
  BY <1>1, <1>2

(* Who goes on decoding has computed less than it may; the others are not run again. *)
LEMMA ForwardFit ==
    ASSUME Inv, ObjectInv, FitInv, Forward
    PROVE  FitInv'
<1>1. PICK token :
         LET done == [s \in Req |->
                        IF s \notin BatchUids THEN req[s]
                        ELSE Completed(req[s], IF req[s].chunked THEN Eos ELSE token[s])]
         IN  /\ req' = done
             /\ running_reqs' = {s \in running_reqs \cup BatchUids : CanDecode(done[s])}
  BY DEF Forward
<1>2. /\ phase = "forward" /\ phase' = "process" /\ live' = live /\ pending_list' = pending_list
  BY DEF Forward
<1>3. running_reqs' = {s \in running_reqs \cup BatchUids : CanDecode(req'[s])}
  BY <1>1
<1>4. BatchUids \subseteq live /\ running_reqs \subseteq live /\ live \subseteq Req
  BY <1>2 DEF BatchUids, Inv, BatchInv, PlacesDisjoint, QueueTypes
<1>5. \A s \in BatchUids : FitsRow(req[s])
  BY <1>2 DEF FitInv, BatchUids
<1>6. \A s \in live : /\ req'[s].max_device_len = req[s].max_device_len
                      /\ req'[s].cached_len = IF s \in BatchUids THEN req[s].device_len
                                              ELSE req[s].cached_len
                      /\ req'[s].device_len \in Int
  <2> TAKE s \in live
  <2>1. s \in Req /\ DOMAIN req[s] = Fields /\ req[s].device_len \in Int
    BY <1>4 DEF Inv, ObjectTypes
  <2>2. CASE s \in BatchUids
    <3>1. req'[s] = Completed(req[s], IF req[s].chunked THEN Eos ELSE token[s])
      BY <1>1, <2>1, <2>2
    <3> QED
      BY <2>1, <2>2, <3>1 DEF Completed, Fields
  <2>3. CASE s \notin BatchUids
    BY <1>1, <2>1, <2>3
  <2> QED
    BY <2>2, <2>3
<1>7. \A s \in live : /\ req'[s].cached_len <= MaxSeqLen
                      /\ req'[s].max_device_len \in Int /\ req'[s].max_device_len <= MaxSeqLen
  BY <1>5, <1>6 DEF FitInv, FitsRow
<1>8. \A s \in running_reqs' : FitsRow(req'[s])
  <2> TAKE s \in running_reqs'
  <2>1. s \in live /\ req'[s].max_device_len - req'[s].device_len > 0
    BY <1>3, <1>4 DEF CanDecode, RemainLen
  <2>2. MaxSeqLen \in Int
    <3>1. NumPages * PageSize \in Int
      BY SchedulerAssumptions, PageSizeAssumption
    <3> QED
      BY <3>1, SchedulerAssumptions
  <2>3. \A d, m \in Int : m - d > 0 /\ m <= MaxSeqLen => d <= MaxSeqLen
    BY ONLY <2>2
  <2> QED
    BY <1>6, <1>7, <2>1, <2>3 DEF FitsRow
<1> QED
  BY <1>2, <1>7, <1>8 DEF FitInv, MaxOutputLen

(* No request ever computes beyond the end of its row. *)
LEMMA FitStep ==
    ASSUME CacheInv, PageInv, [Next]_vars
    PROVE  FitInv'
<1> USE DEF CacheInv, PageInv
<1>1. CASE UNCHANGED vars
  <2>1. SameLengths /\ UNCHANGED <<live, running_reqs, pending_list, phase, adder, batch, req>>
    BY <1>1 DEF vars, loop_vars, queue_vars, ghost_vars, SameLengths
  <2>2. AddedFit' /\ BatchFits'
    BY <2>1 DEF FitInv, AddedFit, BatchFits
  <2> QED
    BY <2>1, <2>2, FitKept
<1>2. SUFFICES ASSUME Receive \/ Loop PROVE FitInv'
  BY <1>1 DEF Next
<1>3. CASE Receive
  BY <1>3, ReceivedFit
<1>4. CASE AdmitChunk \/ AdmitNew
  BY <1>4, AdmittedFit
<1>5. CASE SchedulePrefill \/ ScheduleDecode
  BY <1>5, ScheduledFit
<1>6. CASE Forward
  BY <1>6, ForwardFit
<1>7. CASE AllocateFree \/ AllocateEvict
  <2>1. /\ phase = "allocate" /\ phase' = "forward"
        /\ UNCHANGED <<live, req, running_reqs, pending_list, batch>>
    BY <1>7 DEF AllocateFree, AllocateEvict, queue_vars, ghost_vars
  <2> QED
    BY <2>1, FitKept DEF SameLengths, AddedFit, BatchFits, FitInv
<1>8. CASE StartSchedule
  <2>1. /\ phase' = "admit" /\ adder'.reqs = <<>>
        /\ UNCHANGED <<live, req, running_reqs, pending_list>>
    BY <1>8 DEF StartSchedule, queue_vars, ghost_vars
  <2> QED
    BY <2>1, FitKept DEF SameLengths, AddedFit, BatchFits
<1>9. CASE ScheduleNothing \/ AllocateFails \/ ProcessChunk \/ ProcessFails \/ EndIteration
  <2>1. /\ phase' \in {"process", "failed", "receive"}
        /\ UNCHANGED <<live, req, running_reqs, pending_list>>
    BY <1>9 DEF ScheduleNothing, AllocateFails, ProcessChunk, ProcessFails, EndIteration,
                InProcess, queue_vars, ghost_vars
  <2> QED
    BY <2>1, FitKept DEF SameLengths, AddedFit, BatchFits
<1>10. CASE ProcessFinished \/ ProcessPrefilled \/ ProcessDecoded
  <2>1. /\ phase' = "process" /\ pending_list' = pending_list
        /\ live' \subseteq live /\ running_reqs' \subseteq running_reqs
    BY <1>10 DEF ProcessFinished, ProcessPrefilled, ProcessDecoded, InProcess, RemoveReq
  <2>2. SameLengths
    <3>1. DOMAIN req = Req /\ \A r \in Req : DOMAIN req[r] = Fields
      BY DEF Inv, ObjectTypes
    <3> PICK r : r = Work.reqs[next].uid
      OBVIOUS
    <3>2. PICK n : \/ req' = [req EXCEPT ![r] = Appended(@)]
                   \/ req' = [req EXCEPT ![r] = [Appended(@) EXCEPT !.handle_len = n]]
      BY <1>10 DEF ProcessFinished, ProcessPrefilled, ProcessDecoded, Deliver
    <3>3. CASE req' = [req EXCEPT ![r] = Appended(@)]
      BY <3>1, <3>3 DEF SameLengths, Appended, Fields
    <3>4. CASE req' = [req EXCEPT ![r] = [Appended(@) EXCEPT !.handle_len = n]]
      BY <3>1, <3>4 DEF SameLengths, Appended, Fields
    <3> QED
      BY <3>2, <3>3, <3>4
  <2> QED
    BY <2>1, <2>2, FitKept DEF AddedFit, BatchFits
<1> QED
  BY <1>2, <1>3, <1>4, <1>5, <1>6, <1>7, <1>8, <1>9, <1>10 DEF Loop, Admit, Allocate, Process

-----------------------------------------------------------------------------
(* The initial states *)

(* All pages are free. *)
LEMMA InitPages ==
    ASSUME Init
    PROVE  PageInv
<1>1. /\ NumPages \in Nat \ {0} /\ MaxSeqLen \in Int
      /\ free_slots = [i \in 1..NumPages |-> i - 1] /\ lazy_free_list = <<>>
      /\ DOMAIN cache = {} /\ live = {} /\ pending_list = <<>> /\ running_reqs = {}
      /\ phase = "receive" /\ req = [r \in Req |-> NoReq]
      /\ page_table = [w \in Row |-> [i \in 0..(DivCeil(MaxSeqLen) - 1) |-> 0]]
  <2>1. NumPages * PageSize \in Int
    BY SchedulerAssumptions, PageSizeAssumption
  <2> QED
    BY <2>1, SchedulerAssumptions DEF Init
<1>2. /\ free_slots \in Seq(Page) /\ Len(free_slots) = NumPages /\ ToSet(free_slots) = Page
  <2>1. free_slots \in [1..NumPages -> Page]
    BY <1>1 DEF Page
  <2>2. free_slots \in Seq(Page) /\ Len(free_slots) = NumPages
    BY <1>1, <2>1, FunctionIsSeq
  <2>3. \A g \in Page : g + 1 \in 1..NumPages /\ free_slots[g + 1] = g
    BY <1>1 DEF Page
  <2>4. ToSet(free_slots) \subseteq Page
    BY <1>1, <2>1 DEF ToSet
  <2>5. Page \subseteq ToSet(free_slots)
    BY <1>1, <2>3 DEF ToSet
  <2> QED
    BY <2>2, <2>4, <2>5
<1>3. Len(<<>>) = 0 /\ ToSet(<<>>) = {} /\ Cardinality({}) = 0 /\ IsFiniteSet({})
  BY FS_EmptySet DEF ToSet
<1>4. PagesPartitioned
  <2>1. {cache[p].page : p \in DOMAIN cache} = {} /\ UNION {Own(r) : r \in live} = {}
        /\ UNION {{r} \X OwnEntries(r) : r \in live} = {}
    BY <1>1
  <2>2. Page = ToSet(free_slots) \cup ToSet(lazy_free_list)
               \cup {cache[p].page : p \in DOMAIN cache} \cup UNION {Own(r) : r \in live}
    BY <1>1, <1>2, <1>3, <2>1
  <2>3. /\ Len(free_slots) = NumPages /\ Len(lazy_free_list) = 0
        /\ Cardinality(DOMAIN cache) = 0
        /\ Cardinality(UNION {{r} \X OwnEntries(r) : r \in live}) = 0
    BY <1>1, <1>2, <1>3, <2>1
  <2>4. NumPages = Len(free_slots) + Len(lazy_free_list) + Cardinality(DOMAIN cache)
                   + Cardinality(UNION {{r} \X OwnEntries(r) : r \in live})
    BY <1>1, <2>3
  <2> QED
    BY <2>2, <2>4 DEF PagesPartitioned
<1>5. TableInv
  BY <1>1, <1>2, <1>3 DEF TableInv
<1>6. HandleInv
  <2>1. 0 = PageSize * 0
    BY PageSizeAssumption
  <2> QED
    BY <1>1, <2>1 DEF HandleInv, NoReq
<1>7. FitInv
  BY <1>1, <1>3 DEF FitInv
<1> QED
  BY <1>4, <1>5, <1>6, <1>7 DEF PageInv

-----------------------------------------------------------------------------
(* The theorem *)

(* Everything about rows, handles and pages, always. *)
LEMMA PageInvariance ==
    ASSUME NoAbortInFlight
    PROVE  Spec => [](CacheInv /\ RowsOwned /\ PageInv)
<1>1. Spec => []CacheInv
  BY CacheInvariance
<1>2. Init => RowsOwned /\ PageInv
  BY InitRowInv, InitPages DEF RowInv
<1>3. CacheInv /\ RowsOwned /\ [Next]_vars => RowsOwned'
  BY RowStep DEF CacheInv, RowInv
<1>4. CacheInv /\ RowsOwned /\ PageInv /\ [Next]_vars => PageInv'
  BY PageStep, FitStep DEF PageInv
<1> QED
  BY <1>1, <1>2, <1>3, <1>4, PTL DEF Spec

(* Every page of the KV pool is always in exactly one place: free, about to  *)
(* be freed, cached, or one entry of one request's row.  None is lost and    *)
(* none is handed out twice, through admissions, chunks, duplicate prefixes, *)
(* evictions, finishes and aborts.                                           *)
THEOREM EveryPageHasOnePlace ==
    ASSUME NoAbortInFlight
    PROVE  Spec => []PagesPartitioned
<1>1. Spec => [](CacheInv /\ RowsOwned /\ PageInv)
  BY PageInvariance
<1>2. PageInv => PagesPartitioned
  BY DEF PageInv
<1> QED
  BY <1>1, <1>2, PTL

-----------------------------------------------------------------------------
(* What pages hold *)

(* Position pos of r is in a page that holds its KV. *)
Holds(r, pos) == kv[SlotPage(req[r], pos)][pos % PageSize] = SubSeq(req[r].ids, 1, pos + 1)

OwnValid == \A r \in live : \A pos \in req[r].handle_len..(req[r].cached_len - 1) : Holds(r, pos)

(* Under its handle the row of r names the cached pages. *)
RowOfHandle(r) ==
    \A k \in 0..((req[r].handle_len \div PageSize) - 1) :
        page_table[req[r].table_idx][k] = cache[SubSeq(req[r].ids, 1, PageSize * (k + 1))].page

HandleRows == \A r \in live : RowOfHandle(r)

KVInv == OwnValid /\ CacheValid

(* A request that goes on was not computed where the cache had its prefix by now. *)
NoDuplicates ==
    ProcessPrefilled =>
        LET r == Work.reqs[next].uid
        IN  CacheReq(cache, Appended(req[r]), FALSE).freed = <<>>

-----------------------------------------------------------------------------
(* One page, one place *)

(* As many places as pages: entries of rows have pages of their own. *)
LEMMA EntriesDiffer ==
    ASSUME NEW fr, NEW lz, NEW cc, NEW L, NEW E, NEW T, Partition(fr, lz, cc, L, E, T),
           Countable(fr, lz, cc, L, E)
    PROVE  /\ \A r, s \in L : \A k \in E[r], l \in E[s] : T[r][k] = T[s][l] => r = s /\ k = l
           /\ \A r \in L : \A k \in E[r] : \A p \in DOMAIN cc : T[r][k] # cc[p].page
           /\ \A r \in L : \A k \in E[r] : T[r][k] \in Page
           /\ \A p \in DOMAIN cc : cc[p].page \in Page
<1> PICK P : P = Pairs(L, E)
  OBVIOUS
<1> PICK D : D = DOMAIN cc
  OBVIOUS
<1> PICK f : f = [x \in P |-> T[x[1]][x[2]]]
  OBVIOUS
<1> PICK g : g = [p \in D |-> cc[p].page]
  OBVIOUS
<1> PICK hp : hp = {f[x] : x \in P}
  OBVIOUS
<1> PICK cp : cp = {g[p] : p \in D}
  OBVIOUS
<1>1. /\ fr \in Seq(Page) /\ lz \in Seq(Page) /\ IsFiniteSet(D) /\ IsFiniteSet(L)
      /\ \A r \in L : IsFiniteSet(E[r])
  BY DEF Countable
<1>2. IsFiniteSet(P) /\ Cardinality(P) \in Nat
  BY <1>1, PairsCount
<1>3. \A r \in L : \A k \in E[r] : <<r, k>> \in P /\ f[<<r, k>>] = T[r][k]
  BY DEF Pairs
<1>4. RowPages(L, E, T) = hp
  <2>1. \A r \in L : \A k \in E[r] : T[r][k] \in hp
    BY <1>3
  <2>2. \A x \in P : \E r \in L : \E k \in E[r] : f[x] = T[r][k]
    <3> TAKE x \in P
    <3>1. PICK r \in L : x \in {r} \X E[r]
      BY DEF Pairs
    <3>2. x[1] = r /\ x[2] \in E[r] /\ f[x] = T[r][x[2]]
      BY <3>1
    <3> QED
      BY <3>2
  <2>3. hp \subseteq RowPages(L, E, T)
    <3> SUFFICES ASSUME NEW y \in hp PROVE y \in RowPages(L, E, T)
      OBVIOUS
    <3>1. PICK x \in P : y = f[x]
      OBVIOUS
    <3>2. PICK r \in L : \E k \in E[r] : f[x] = T[r][k]
      BY <2>2
    <3> QED
      BY <3>1, <3>2 DEF RowPages
  <2>4. RowPages(L, E, T) \subseteq hp
    <3> SUFFICES ASSUME NEW y \in RowPages(L, E, T) PROVE y \in hp
      OBVIOUS
    <3>1. PICK r \in L : y \in {T[r][k] : k \in E[r]}
      BY DEF RowPages
    <3> QED
      BY <2>1, <3>1
  <2> QED
    BY <2>3, <2>4
<1>5. {cc[p].page : p \in DOMAIN cc} = cp
  OBVIOUS
<1>6. /\ Page = ToSet(fr) \cup ToSet(lz) \cup cp \cup hp
      /\ NumPages = Len(fr) + Len(lz) + Cardinality(D) + Cardinality(P)
  BY <1>4, <1>5 DEF Partition, Places, PlaceCount
<1>7. /\ IsFiniteSet(hp) /\ Cardinality(hp) \in Nat /\ Cardinality(hp) <= Cardinality(P)
      /\ IsFiniteSet(cp) /\ Cardinality(cp) \in Nat /\ Cardinality(cp) <= Cardinality(D)
      /\ Cardinality(D) \in Nat
  <2>1. f = [x \in P |-> f[x]] /\ g = [p \in D |-> g[p]]
    OBVIOUS
  <2>2. /\ IsFiniteSet({f[x] : x \in P}) /\ Cardinality({f[x] : x \in P}) \in Nat
        /\ Cardinality({f[x] : x \in P}) <= Cardinality(P)
    BY ONLY <1>2, <2>1, ImageCount
  <2>3. /\ IsFiniteSet({g[p] : p \in D}) /\ Cardinality({g[p] : p \in D}) \in Nat
        /\ Cardinality({g[p] : p \in D}) <= Cardinality(D)
    BY ONLY <1>1, <2>1, ImageCount
  <2>4. Cardinality(D) \in Nat
    BY ONLY <1>1, FS_CardinalityType
  <2> QED
    BY ONLY <2>2, <2>3, <2>4, hp = {f[x] : x \in P}, cp = {g[p] : p \in D}
<1>8. Cardinality(hp) = Cardinality(P) /\ cp \cap hp = {}
  <2> PICK both : both = cp \cup hp
    OBVIOUS
  <2> PICK meet : meet = cp \cap hp
    OBVIOUS
  <2>1. IsFiniteSet(both) /\ Cardinality(both) = Cardinality(cp) + Cardinality(hp) - Cardinality(meet)
    BY ONLY <1>7, both = cp \cup hp, meet = cp \cap hp, FS_Union
  <2>2. IsFiniteSet(meet) /\ Cardinality(meet) \in Nat
    BY ONLY <1>7, meet = cp \cap hp, FS_Intersection, FS_CardinalityType
  <2>3. Page = ToSet(fr) \cup ToSet(lz) \cup both \cup {}
    BY <1>6
  <2>4. IsFiniteSet({}) /\ Cardinality({}) = 0
    BY FS_EmptySet
  <2>5. NumPages <= Len(fr) + Len(lz) + Cardinality(both) + Cardinality({})
    BY ONLY <1>1, <2>1, <2>3, <2>4, PlacesForAll
  <2>6. Len(fr) \in Nat /\ Len(lz) \in Nat
    BY <1>1
  <2>7. Cardinality(hp) = Cardinality(P) /\ Cardinality(meet) = 0
    <3> PICK x : x = Len(fr) + Len(lz)
      OBVIOUS
    <3> PICK d : d = Cardinality(D)
      OBVIOUS
    <3> PICK p : p = Cardinality(P)
      OBVIOUS
    <3> PICK c : c = Cardinality(cp)
      OBVIOUS
    <3> PICK h : h = Cardinality(hp)
      OBVIOUS
    <3> PICK m : m = Cardinality(meet)
      OBVIOUS
    <3>1. /\ x \in Nat /\ d \in Nat /\ p \in Nat /\ c \in Nat /\ h \in Nat /\ m \in Nat
          /\ c <= d /\ h <= p
      BY ONLY <1>2, <1>7, <2>2, <2>6, x = Len(fr) + Len(lz), d = Cardinality(D),
              p = Cardinality(P), c = Cardinality(cp), h = Cardinality(hp),
              m = Cardinality(meet)
    <3>2. NumPages = x + d + p
      BY ONLY <1>6, x = Len(fr) + Len(lz), d = Cardinality(D), p = Cardinality(P)
    <3>3. Cardinality(both) = c + h - m
      BY ONLY <2>1, c = Cardinality(cp), h = Cardinality(hp), m = Cardinality(meet)
    <3>4. NumPages <= x + Cardinality(both) + 0
      BY ONLY <2>4, <2>5, x = Len(fr) + Len(lz)
    <3>5. x + d + p <= x + (c + h - m) + 0
      BY ONLY <3>2, <3>3, <3>4
    <3>6. h = p /\ m = 0
      BY ONLY <3>1, <3>5
    <3> QED
      BY ONLY <3>6, h = Cardinality(hp), p = Cardinality(P), m = Cardinality(meet)
  <2> QED
    BY ONLY <2>2, <2>7, meet = cp \cap hp, FS_EmptySet
<1>9. f \in Injection(P, hp)
  <2>1. f \in [P -> hp] /\ \A t \in hp : \E s \in P : f[s] = t
    OBVIOUS
  <2>2. f \in Surjection(P, hp)
    BY ONLY <2>1, Fun_IsSurj
  <2> QED
    BY ONLY <1>2, <1>8, <2>2, FS_Surjection
<1>10. \A x, y \in P : f[x] = f[y] => x = y
  BY ONLY <1>9 DEF Injection, IsInjective
<1>11. ASSUME NEW r \in L, NEW s \in L, NEW k \in E[r], NEW l \in E[s], T[r][k] = T[s][l]
       PROVE  r = s /\ k = l
  <2> PICK x : x = <<r, k>>
    OBVIOUS
  <2> PICK y : y = <<s, l>>
    OBVIOUS
  <2>1. x \in P /\ y \in P /\ f[x] = f[y]
    BY <1>3, <1>11
  <2>2. x = y
    BY ONLY <1>10, <2>1
  <2> QED
    BY <2>2
<1>12. \A r \in L : \A k \in E[r] : T[r][k] \in hp
  BY <1>3
<1>13. \A p \in DOMAIN cc : cc[p].page \in cp
  OBVIOUS
<1>14. cp \subseteq Page /\ hp \subseteq Page
  BY <1>6
<1> QED
  BY <1>8, <1>11, <1>12, <1>13, <1>14

-----------------------------------------------------------------------------
(* Positions and entries *)

(* A position is in the entry whose page covers it. *)
LEMMA PositionEntry ==
    ASSUME NEW pos \in Nat, NEW k, k = pos \div PageSize, NEW o, o = pos % PageSize
    PROVE  /\ k \in Nat /\ o \in 0..(PageSize - 1) /\ pos = PageSize * k + o
           /\ \A a \in Nat : a <= k <=> PageSize * a <= pos
           /\ \A n \in Nat : pos < n => k <= DivCeil(n) - 1
<1>1. PageSize \in Nat \ {0}
  BY PageSizeAssumption
<1>2. k \in Nat
  BY <1>1
<1>3. o \in 0..(PageSize - 1)
  BY <1>1
<1>4. pos = PageSize * k + o
  <2> PICK m : m = PageSize * k
    OBVIOUS
  <2>1. m \in Nat
    BY <1>1, <1>2
  <2>2. pos % PageSize = pos - PageSize * (pos \div PageSize)
    BY <1>1
  <2>3. o = pos - m
    BY <2>2
  <2>4. o \in Int
    BY <1>1, <1>3
  <2>5. pos = m + o
    BY ONLY <2>1, <2>3, <2>4, pos \in Nat
  <2> QED
    BY ONLY <2>5, m = PageSize * k
<1>5. \A a \in Nat : a <= k <=> PageSize * a <= pos
  BY PageArithmetic
<1>6. ASSUME NEW n \in Nat, pos < n
      PROVE  k <= DivCeil(n) - 1
  <2>1. k + 1 \in Nat /\ PageSize * k <= pos
    BY <1>2, <1>5
  <2>2. PageSize * (k + 1) = PageSize * k + PageSize /\ PageSize * k \in Nat
    BY <1>1, <1>2
  <2> PICK m : m = n + PageSize - 1
    OBVIOUS
  <2>3. m \in Nat /\ PageSize * (k + 1) <= m
    BY <1>1, <1>6, <2>1, <2>2
  <2>4. k + 1 <= m \div PageSize /\ m \div PageSize \in Nat
    BY <2>1, <2>3, PageArithmetic
  <2> QED
    BY <1>2, <2>4 DEF DivCeil
<1> QED
  BY <1>2, <1>3, <1>4, <1>5, <1>6

(* The entry of a position, from the entry and the offset. *)
LEMMA EntryPosition ==
    ASSUME NEW k \in Nat, NEW o \in 0..(PageSize - 1), NEW pos, pos = PageSize * k + o
    PROVE  /\ pos \in Nat /\ pos \div PageSize = k /\ pos % PageSize = o
           /\ PageSize * (k + 1) = PageSize * k + PageSize /\ pos + 1 <= PageSize * (k + 1)
<1>1. PageSize \in Nat \ {0} /\ PageSize * k \in Nat /\ o \in Nat
  BY PageSizeAssumption
<1>2. PageSize * (k + 1) = PageSize * k + PageSize
  BY <1>1
<1>3. pos \in Nat /\ PageSize * k <= pos /\ pos + 1 <= PageSize * (k + 1)
  BY <1>1, <1>2
<1> PICK q : q = pos \div PageSize
  OBVIOUS
<1> PICK t : t = pos % PageSize
  OBVIOUS
<1>4. /\ q \in Nat /\ pos = PageSize * q + t /\ t \in 0..(PageSize - 1)
      /\ \A a \in Nat : a <= q <=> PageSize * a <= pos
  BY ONLY <1>3, PositionEntry, q = pos \div PageSize, t = pos % PageSize
<1>5. q = k
  <2>1. k <= q /\ k + 1 \in Nat
    BY <1>3, <1>4
  <2>2. ~(k + 1 <= q)
    <3>1. PageSize * (k + 1) \in Nat
      BY <1>1, <1>2
    <3>2. ~(PageSize * (k + 1) <= pos)
      BY <1>3, <3>1
    <3> QED
      BY <1>4, <2>1, <3>2
  <2> QED
    BY <1>4, <2>1, <2>2
<1>6. t = o
  <2> PICK m : m = PageSize * k
    OBVIOUS
  <2>1. m \in Nat /\ pos = m + o /\ pos = m + t /\ t \in Int
    BY <1>1, <1>4, <1>5
  <2> QED
    BY ONLY <1>1, <2>1
<1> QED
  BY <1>2, <1>3, <1>5, <1>6

(* The page prefixes of a handle. *)
LEMMA HandlePages ==
    ASSUME NEW q, NEW prompt, WellFormed(q, prompt), NEW k \in 0..((q.handle_len \div PageSize) - 1)
    PROVE  /\ k \in Nat /\ PageSize * (k + 1) \in Nat /\ PageSize * (k + 1) <= q.handle_len
           /\ SubSeq(q.ids, 1, PageSize * (k + 1)) \in PagePrefixes(HandleOf(q))
           /\ SubSeq(q.ids, 1, PageSize * (k + 1)) = SubSeq(HandleOf(q), 1, PageSize * (k + 1))
           /\ k <= DivCeil(q.cached_len) - 1
<1> PICK s : s = q.ids
  OBVIOUS
<1> PICK n : n = q.handle_len
  OBVIOUS
<1> PICK h : h = HandleOf(q)
  OBVIOUS
<1>1. /\ s \in Seq(Nat) /\ n \in Nat /\ q.cached_len \in Nat /\ Len(s) \in Nat
      /\ n <= q.cached_len /\ q.cached_len <= Len(s)
  BY DEF WellFormed
<1>2. n <= Len(s)
  BY <1>1
<1>3. h = SubSeq(s, 1, n) /\ h \in Seq(Nat) /\ Len(h) = n
  BY <1>1, <1>2, FirstTokens DEF HandleOf
<1>4. n \div PageSize \in Nat
  BY <1>1, PageArithmetic
<1> PICK x : x = k + 1
  OBVIOUS
<1>5. x \in Nat /\ x \in 1..(n \div PageSize) /\ k \in Nat
  BY <1>4
<1>6. PageSize * x \in Nat /\ PageSize * x <= n
  <2>1. x <= n \div PageSize
    BY <1>4, <1>5
  <2> QED
    BY ONLY <1>1, <1>5, <2>1, PageArithmetic
<1>7. SubSeq(h, 1, PageSize * x) = SubSeq(s, 1, PageSize * x)
  BY ONLY <1>1, <1>2, <1>3, <1>6, FirstOfFirst
<1>8. SubSeq(h, 1, PageSize * x) \in PagePrefixes(h)
  BY <1>3, <1>5 DEF PagePrefixes
<1>9. k <= DivCeil(q.cached_len) - 1
  <2>1. PageSize * x <= q.cached_len
    BY ONLY <1>1, <1>6
  <2>2. x <= DivCeil(q.cached_len) /\ DivCeil(q.cached_len) \in Nat
    BY <1>1, <1>5, <2>1, PagesWithin
  <2> QED
    BY <1>5, <2>2
<1> QED
  BY <1>5, <1>6, <1>7, <1>8, <1>9

(* So with its row naming the cached pages there, a request finds all of its KV. *)
LEMMA RowsFollow ==
    ASSUME ObjectInv, HandleInv, RefInv, live \subseteq Req, KVInv, HandleRows
    PROVE  RowsValid
<1> SUFFICES ASSUME NEW r \in live, NEW pos \in 0..(req[r].cached_len - 1)
             PROVE  Holds(r, pos)
  BY DEF RowsValid, Holds
<1> PICK s : s = req[r].ids
  OBVIOUS
<1> PICK n : n = req[r].handle_len
  OBVIOUS
<1>1. /\ r \in Req /\ s \in Seq(Nat) /\ n \in Nat /\ req[r].cached_len \in Nat /\ Len(s) \in Nat
      /\ n <= req[r].cached_len /\ req[r].cached_len <= Len(s)
  BY DEF ObjectInv, WellFormed
<1>2. CASE n <= pos
  BY <1>1, <1>2 DEF KVInv, OwnValid
<1>3. CASE pos < n
  <2> PICK k : k = pos \div PageSize
    OBVIOUS
  <2> PICK o : o = pos % PageSize
    OBVIOUS
  <2>1. /\ pos \in Nat /\ k \in Nat /\ o \in 0..(PageSize - 1) /\ pos = PageSize * k + o
    <3>1. pos \in Nat
      BY <1>1
    <3> QED
      BY ONLY <3>1, PositionEntry, k = pos \div PageSize, o = pos % PageSize
  <2>2. /\ PageSize * (k + 1) = PageSize * k + PageSize /\ pos + 1 <= PageSize * (k + 1)
    BY <2>1, EntryPosition
  <2>3. k \in 0..((n \div PageSize) - 1)
    <3>1. PICK a \in Nat : n = PageSize * a
      BY <1>1 DEF HandleInv
    <3>2. n \div PageSize = a
      BY <3>1, PageArithmetic
    <3>3. ~(a <= k)
      <4>1. \A x \in Nat : x <= k <=> PageSize * x <= pos
        BY ONLY <2>1, PositionEntry, k = pos \div PageSize, o = pos % PageSize
      <4> QED
        BY <1>1, <1>3, <2>1, <3>1, <4>1
    <3> QED
      BY <2>1, <3>2, <3>3
  <2> PICK m : m = PageSize * (k + 1)
    OBVIOUS
  <2> PICK p : p = SubSeq(s, 1, m)
    OBVIOUS
  <2>4. m \in Nat /\ m <= n /\ p \in DOMAIN cache
    <3> PICK q : q = req[r]
      OBVIOUS
    <3>1. WellFormed(q, Prompt[r]) /\ k \in 0..((q.handle_len \div PageSize) - 1)
      BY <1>1, <2>3 DEF ObjectInv
    <3>2. m \in Nat /\ m <= n /\ p \in PagePrefixes(HandleOf(q))
      BY <3>1, HandlePages
    <3> QED
      BY <3>2 DEF RefInv, RefCountsExact
  <2>5. page_table[req[r].table_idx][k] = cache[p].page
    BY <2>3 DEF HandleRows, RowOfHandle
  <2>6. p \in Seq(Nat) /\ Len(p) = m /\ m <= Len(s)
    <3>1. m <= Len(s)
      BY ONLY <1>1, <2>4
    <3> QED
      BY <1>1, <2>4, <3>1, FirstTokens
  <2>7. kv[cache[p].page][o] = SubSeq(p, 1, Len(p) - PageSize + o + 1)
    BY <2>1, <2>4 DEF KVInv, CacheValid
  <2>8. Len(p) - PageSize + o + 1 = pos + 1
    <3>1. PageSize \in Nat /\ PageSize * k \in Nat
      BY <2>1, PageSizeAssumption
    <3> QED
      BY <2>1, <2>2, <2>6, <3>1
  <2>9. SubSeq(p, 1, pos + 1) = SubSeq(s, 1, pos + 1)
    <3> PICK x : x = pos + 1
      OBVIOUS
    <3>1. x \in Nat /\ x <= m
      BY ONLY <2>1, <2>2, x = pos + 1, m = PageSize * (k + 1)
    <3>2. SubSeq(p, 1, x) = SubSeq(s, 1, x)
      BY ONLY <1>1, <2>4, <2>6, <3>1, p = SubSeq(s, 1, m), FirstOfFirst
    <3> QED
      BY ONLY <3>2, x = pos + 1
  <2> QED
    BY <2>5, <2>7, <2>8, <2>9 DEF Holds, SlotPage
<1> QED
  BY <1>1, <1>2, <1>3

-----------------------------------------------------------------------------
(* Steps that compute nothing *)

(* The first n entries of the row of r stay, and it keeps its row. *)
RowStays(r, n) ==
    /\ r \in live /\ req'[r].table_idx = req[r].table_idx
    /\ \A k \in 0..(n - 1) :
          page_table'[req[r].table_idx][k] = page_table[req[r].table_idx][k]

(* What r computed is still its own, unless the cache took some of it. *)
StillOwns(r) ==
    /\ RowStays(r, DivCeil(req[r].cached_len))
    /\ req'[r].ids = req[r].ids /\ req'[r].cached_len = req[r].cached_len
    /\ req'[r].handle_len \in Nat /\ req'[r].handle_len >= req[r].handle_len

(* Its handle is what it was. *)
StillShares(r) ==
    /\ RowStays(r, DivCeil(req[r].cached_len))
    /\ req'[r].handle_len = req[r].handle_len
    /\ HandleOf(req'[r]) = HandleOf(req[r])

(* While nothing is written to the pool, what is there stays valid. *)
LEMMA OwnKept ==
    ASSUME OwnValid, ObjectInv, live \subseteq Req, kv' = kv,
           \A r \in live' : \/ req'[r].handle_len = req'[r].cached_len /\ req'[r].cached_len \in Nat
                            \/ StillOwns(r)
    PROVE  OwnValid'
<1> SUFFICES ASSUME NEW r \in live', NEW pos \in req'[r].handle_len..(req'[r].cached_len - 1)
             PROVE  Holds(r, pos)'
  BY DEF OwnValid
<1>1. StillOwns(r)
  <2>1. ~(req'[r].handle_len = req'[r].cached_len /\ req'[r].cached_len \in Nat)
    OBVIOUS
  <2> QED
    BY <2>1
<1>2. r \in live /\ r \in Req
  BY <1>1 DEF StillOwns, RowStays
<1>3. /\ req[r].handle_len \in Nat /\ req[r].cached_len \in Nat
      /\ req[r].handle_len <= req'[r].handle_len /\ req'[r].handle_len \in Nat
      /\ req'[r].cached_len = req[r].cached_len
  BY <1>1, <1>2 DEF StillOwns, ObjectInv, WellFormed
<1>4. pos \in Nat /\ pos < req[r].cached_len /\ pos \in req[r].handle_len..(req[r].cached_len - 1)
  BY <1>3
<1>5. Holds(r, pos)
  BY <1>2, <1>4 DEF OwnValid
<1> PICK k : k = pos \div PageSize
  OBVIOUS
<1> PICK o : o = pos % PageSize
  OBVIOUS
<1>6. k \in Nat /\ \A n \in Nat : pos < n => k <= DivCeil(n) - 1
  BY ONLY <1>4, PositionEntry, k = pos \div PageSize, o = pos % PageSize
<1>7. k \in 0..(DivCeil(req[r].cached_len) - 1)
  <2>1. DivCeil(req[r].cached_len) \in Nat
    BY <1>3, CeilIsMonotone
  <2> QED
    BY <1>3, <1>4, <1>6, <2>1
<1>8. page_table'[req'[r].table_idx][k] = page_table[req[r].table_idx][k]
  BY <1>1, <1>7 DEF StillOwns, RowStays
<1> QED
  BY <1>1, <1>5, <1>8 DEF Holds, SlotPage, StillOwns

(* Rows go on naming the cached pages. *)
LEMMA HandleKept ==
    ASSUME HandleRows, ObjectInv, ObjectInv', RefInv, RefInv',
           live \subseteq Req, live' \subseteq Req,
           \A p \in DOMAIN cache : p \in DOMAIN cache' => cache'[p].page = cache[p].page,
           \A r \in live' : RowOfHandle(r)' \/ StillShares(r)
    PROVE  HandleRows'
<1> SUFFICES ASSUME NEW r \in live', StillShares(r) PROVE RowOfHandle(r)'
  BY DEF HandleRows
<1>1. r \in live /\ r \in Req /\ RowOfHandle(r)
  BY DEF StillShares, RowStays, HandleRows
<1> PICK q : q = req[r]
  OBVIOUS
<1> PICK x : x = req'[r]
  OBVIOUS
<1>2. WellFormed(q, Prompt[r]) /\ WellFormed(x, Prompt[r])
  BY <1>1 DEF ObjectInv
<1>3. /\ x.handle_len = q.handle_len /\ HandleOf(x) = HandleOf(q) /\ x.table_idx = q.table_idx
  BY DEF StillShares, RowStays
<1>4. ASSUME NEW k \in 0..((x.handle_len \div PageSize) - 1)
      PROVE  page_table'[x.table_idx][k] = cache'[SubSeq(x.ids, 1, PageSize * (k + 1))].page
  <2> PICK p : p = SubSeq(q.ids, 1, PageSize * (k + 1))
    OBVIOUS
  <2>1. /\ k \in Nat /\ k <= DivCeil(q.cached_len) - 1
        /\ p \in PagePrefixes(HandleOf(q)) /\ p = SubSeq(HandleOf(q), 1, PageSize * (k + 1))
    BY <1>2, <1>3, HandlePages
  <2>2. SubSeq(x.ids, 1, PageSize * (k + 1)) = SubSeq(HandleOf(x), 1, PageSize * (k + 1))
    BY <1>2, HandlePages
  <2>3. SubSeq(x.ids, 1, PageSize * (k + 1)) = p
    BY <1>3, <2>1, <2>2
  <2>4. p \in DOMAIN cache /\ p \in DOMAIN cache'
    <3>1. PagePrefixes(HandleOf(q)) \subseteq DOMAIN cache
      BY <1>1 DEF RefInv, RefCountsExact
    <3>2. PagePrefixes(HandleOf(x)) \subseteq DOMAIN cache'
      BY DEF RefInv, RefCountsExact
    <3> QED
      BY <1>3, <2>1, <3>1, <3>2
  <2>5. cache'[p].page = cache[p].page
    BY <2>4
  <2>6. page_table[q.table_idx][k] = cache[p].page
    BY <1>1, <1>3 DEF RowOfHandle
  <2>7. page_table'[q.table_idx][k] = page_table[q.table_idx][k]
    <3>1. DivCeil(q.cached_len) \in Nat
      BY <1>2, CeilIsMonotone DEF WellFormed
    <3>2. k \in 0..(DivCeil(q.cached_len) - 1)
      BY <2>1, <3>1
    <3> QED
      BY <3>2 DEF StillShares, RowStays
  <2> QED
    BY <1>3, <2>3, <2>5, <2>6, <2>7
<1> QED
  BY <1>4 DEF RowOfHandle

(* The cache's pages stay where they are. *)
LEMMA CacheKept ==
    ASSUME CacheValid, kv' = kv, DOMAIN cache' \subseteq DOMAIN cache,
           \A p \in DOMAIN cache' : cache'[p].page = cache[p].page
    PROVE  CacheValid'
BY DEF CacheValid

-----------------------------------------------------------------------------
(* A batch runs *)

(* Position pos of r is in a page of its own. *)
HasOwn(r, pos) == r \in live /\ pos \in req[r].handle_len..(Allocated(r) - 1)

(* Entry i of the batch writes the KV of its position pos at offset o of page g. *)
LandsAt(q, pos, g, o) == SlotPage(q, pos) = g /\ pos % PageSize = o

Writes(i, pos, g, o) ==
    LET q == req[batch.reqs[i].uid]
    IN  pos \in q.cached_len..(q.device_len - 1) /\ LandsAt(q, pos, g, o)

(* Own positions are apart from each other and from what is cached. *)
LEMMA OwnApart ==
    ASSUME Inv, ObjectInv, HandleInv, TableInv, PagesPartitioned
    PROVE  /\ \A r, s, pos, at :
                 /\ HasOwn(r, pos) /\ HasOwn(s, at)
                 /\ SlotPage(req[r], pos) = SlotPage(req[s], at)
                 /\ pos % PageSize = at % PageSize
                 => r = s /\ pos = at
           /\ \A r, pos : HasOwn(r, pos) =>
                 /\ SlotPage(req[r], pos) \in Page /\ pos % PageSize \in 0..(PageSize - 1)
                 /\ \A p \in DOMAIN cache : SlotPage(req[r], pos) # cache[p].page
           /\ \A p \in DOMAIN cache : cache[p].page \in Page
<1> PICK E : E = Entries
  OBVIOUS
<1> PICK T : T = Rows
  OBVIOUS
<1>1. /\ \A r, s \in live : \A k \in E[r], l \in E[s] : T[r][k] = T[s][l] => r = s /\ k = l
      /\ \A r \in live : \A k \in E[r] : \A p \in DOMAIN cache : T[r][k] # cache[p].page
      /\ \A r \in live : \A k \in E[r] : T[r][k] \in Page
      /\ \A p \in DOMAIN cache : cache[p].page \in Page
  <2> PICK fr : fr = free_slots
    OBVIOUS
  <2> PICK lz : lz = lazy_free_list
    OBVIOUS
  <2> PICK cc : cc = cache
    OBVIOUS
  <2> PICK L : L = live
    OBVIOUS
  <2>1. Countable(fr, lz, cc, L, E)
    BY CountableNow
  <2>2. Partition(fr, lz, cc, L, E, T)
    BY PartitionIsNow DEF PartitionNow
  <2>3. /\ \A r, s \in L : \A k \in E[r], l \in E[s] : T[r][k] = T[s][l] => r = s /\ k = l
        /\ \A r \in L : \A k \in E[r] : \A p \in DOMAIN cc : T[r][k] # cc[p].page
        /\ \A r \in L : \A k \in E[r] : T[r][k] \in Page
        /\ \A p \in DOMAIN cc : cc[p].page \in Page
    BY ONLY <2>1, <2>2, EntriesDiffer
  <2> QED
    BY <2>3
<1>2. ASSUME NEW r, NEW pos, HasOwn(r, pos)
      PROVE  \E k \in E[r], o \in 0..(PageSize - 1) :
                pos = PageSize * k + o /\ o = pos % PageSize /\ T[r][k] = SlotPage(req[r], pos)
  <2> PICK k : k = pos \div PageSize
    OBVIOUS
  <2> PICK o : o = pos % PageSize
    OBVIOUS
  <2>1. r \in live /\ WellFormed(req[r], Prompt[r]) /\ r \in Req
    BY <1>2 DEF HasOwn, ObjectInv, Inv, QueueTypes
  <2>2. PICK a \in Nat : req[r].handle_len = PageSize * a
    BY <2>1 DEF HandleInv
  <2>3. PageSize * a \in Nat /\ (PageSize * a) \div PageSize = a
    BY PageArithmetic
  <2> PICK n : n = Allocated(r)
    OBVIOUS
  <2>4. n \in Nat
    BY <2>1 DEF Allocated, WellFormed
  <2>5. pos \in Nat /\ PageSize * a <= pos /\ pos < n
    BY <1>2, <2>2, <2>3, <2>4 DEF HasOwn
  <2>6. /\ k \in Nat /\ o \in 0..(PageSize - 1) /\ pos = PageSize * k + o
        /\ \A x \in Nat : x <= k <=> PageSize * x <= pos
        /\ \A x \in Nat : pos < x => k <= DivCeil(x) - 1
    BY ONLY <2>5, PositionEntry, k = pos \div PageSize, o = pos % PageSize
  <2>7. a <= k /\ k <= DivCeil(n) - 1
    BY <2>4, <2>5, <2>6
  <2>8. DivCeil(n) \in Nat
    BY <2>4, CeilIsMonotone
  <2>9. k \in a..(DivCeil(n) - 1)
    BY <2>6, <2>7, <2>8
  <2>10. k \in E[r]
    BY <2>1, <2>2, <2>3, <2>9 DEF Entries, OwnEntries
  <2>11. T[r][k] = SlotPage(req[r], pos)
    BY <2>1 DEF Rows, SlotPage
  <2> QED
    BY <2>6, <2>10, <2>11
<1>3. ASSUME NEW r, NEW s, NEW pos, NEW at, HasOwn(r, pos), HasOwn(s, at),
             SlotPage(req[r], pos) = SlotPage(req[s], at), pos % PageSize = at % PageSize
      PROVE  r = s /\ pos = at
  <2>1. PICK k \in E[r], o \in 0..(PageSize - 1) :
           pos = PageSize * k + o /\ o = pos % PageSize /\ T[r][k] = SlotPage(req[r], pos)
    BY <1>2, <1>3
  <2>2. PICK l \in E[s], u \in 0..(PageSize - 1) :
           at = PageSize * l + u /\ u = at % PageSize /\ T[s][l] = SlotPage(req[s], at)
    BY <1>2, <1>3
  <2>3. T[r][k] = T[s][l] /\ o = u
    BY <1>3, <2>1, <2>2
  <2>4. r \in live /\ s \in live
    BY <1>3 DEF HasOwn
  <2>5. r = s /\ k = l
    BY ONLY <1>1, <2>3, <2>4, k \in E[r], l \in E[s]
  <2> QED
    BY <2>1, <2>2, <2>3, <2>5
<1>4. ASSUME NEW r, NEW pos, HasOwn(r, pos)
      PROVE  /\ SlotPage(req[r], pos) \in Page /\ pos % PageSize \in 0..(PageSize - 1)
             /\ \A p \in DOMAIN cache : SlotPage(req[r], pos) # cache[p].page
  <2>1. PICK k \in E[r], o \in 0..(PageSize - 1) :
           o = pos % PageSize /\ T[r][k] = SlotPage(req[r], pos)
    BY <1>2, <1>4
  <2>2. r \in live
    BY <1>4 DEF HasOwn
  <2> QED
    BY <1>1, <2>1, <2>2
<1> QED
  BY <1>1, <1>3, <1>4

(* What a batch entry computes is where its row says, and the rest of the pool stays. *)
LEMMA StoredKV ==
    ASSUME Inv, ObjectInv, HandleInv, TableInv, PagesPartitioned, phase = "forward", StoreKV
    PROVE  /\ \A i \in DOMAIN batch.reqs : \A pos, g, o : Writes(i, pos, g, o) =>
                 kv'[g][o] = SubSeq(req[batch.reqs[i].uid].ids, 1, pos + 1)
           /\ \A g \in Page : \A o \in 0..(PageSize - 1) :
                 (\A i \in DOMAIN batch.reqs : \A pos : ~Writes(i, pos, g, o))
                 => kv'[g][o] = kv[g][o]
<1> DEFINE writers(g, o) == {i \in DOMAIN batch.reqs :
                                \E pos \in req[batch.reqs[i].uid].cached_len
                                              ..(req[batch.reqs[i].uid].device_len - 1) :
                                    LandsAt(req[batch.reqs[i].uid], pos, g, o)}
           chosen(i, g, o) == CHOOSE pos \in req[batch.reqs[i].uid].cached_len
                                              ..(req[batch.reqs[i].uid].device_len - 1) :
                                    LandsAt(req[batch.reqs[i].uid], pos, g, o)
<1>1. \A g \in Page : \A o \in 0..(PageSize - 1) :
         kv'[g][o] = IF writers(g, o) = {} THEN kv[g][o]
                     ELSE SubSeq(req[batch.reqs[Max(writers(g, o))].uid].ids, 1,
                                 chosen(Max(writers(g, o)), g, o) + 1)
  BY DEF StoreKV, LandsAt
<1> HIDE DEF writers, chosen
<1>2. \A i \in DOMAIN batch.reqs : batch.reqs[i].uid \in live /\ batch.reqs[i].uid \in Req
  BY DEF Inv, BatchInv, QueueTypes
<1>3. ASSUME NEW i \in DOMAIN batch.reqs, NEW pos, NEW g, NEW o, Writes(i, pos, g, o)
      PROVE  HasOwn(batch.reqs[i].uid, pos)
  <2> PICK r : r = batch.reqs[i].uid
    OBVIOUS
  <2>1. r \in live /\ WellFormed(req[r], Prompt[r]) /\ Allocated(r) = req[r].device_len
    BY <1>2 DEF ObjectInv, Allocated, BatchUids
  <2>2. pos \in req[r].cached_len..(req[r].device_len - 1)
    BY <1>3 DEF Writes
  <2> QED
    BY <2>1, <2>2 DEF HasOwn, WellFormed
<1>4. ASSUME NEW i \in DOMAIN batch.reqs, NEW pos, NEW g, NEW o, Writes(i, pos, g, o),
             NEW j \in DOMAIN batch.reqs, NEW at, Writes(j, at, g, o)
      PROVE  j = i /\ at = pos
  <2>1. HasOwn(batch.reqs[i].uid, pos) /\ HasOwn(batch.reqs[j].uid, at)
    BY <1>3, <1>4
  <2>2. /\ SlotPage(req[batch.reqs[i].uid], pos) = SlotPage(req[batch.reqs[j].uid], at)
        /\ pos % PageSize = at % PageSize
    BY <1>4 DEF Writes, LandsAt
  <2>3. batch.reqs[i].uid = batch.reqs[j].uid /\ at = pos
    BY <2>1, <2>2, OwnApart
  <2> QED
    BY <2>3 DEF Inv, BatchInv
<1>5. ASSUME NEW i \in DOMAIN batch.reqs, NEW pos, NEW g, NEW o, Writes(i, pos, g, o)
      PROVE  kv'[g][o] = SubSeq(req[batch.reqs[i].uid].ids, 1, pos + 1)
  <2>1. HasOwn(batch.reqs[i].uid, pos)
    BY <1>3, <1>5
  <2>2. g \in Page /\ o \in 0..(PageSize - 1)
    BY <1>5, <2>1, OwnApart DEF Writes, LandsAt
  <2>3. pos \in req[batch.reqs[i].uid].cached_len..(req[batch.reqs[i].uid].device_len - 1)
    BY <1>5 DEF Writes
  <2>4. writers(g, o) = {i}
    <3>1. i \in writers(g, o)
      BY <1>5, <2>3 DEF writers, Writes
    <3>2. \A j \in writers(g, o) : j = i
      BY <1>4, <1>5 DEF writers, Writes
    <3> QED
      BY <3>1, <3>2
  <2>5. Max({i}) = i
    <3>1. i \in Int
      BY BatchEntries DEF Inv
    <3> QED
      BY <3>1 DEF Max
  <2>6. chosen(i, g, o) = pos
    <3>1. Writes(i, chosen(i, g, o), g, o)
      BY <1>5, <2>3 DEF chosen, Writes
    <3> PICK at : at = chosen(i, g, o)
      OBVIOUS
    <3> QED
      BY <1>4, <1>5, <3>1
  <2>7. kv'[g][o] = IF writers(g, o) = {} THEN kv[g][o]
                    ELSE SubSeq(req[batch.reqs[Max(writers(g, o))].uid].ids, 1,
                                chosen(Max(writers(g, o)), g, o) + 1)
    BY <1>1, <2>2
  <2> QED
    BY ONLY <2>4, <2>5, <2>6, <2>7
<1>6. ASSUME NEW g \in Page, NEW o \in 0..(PageSize - 1),
             \A i \in DOMAIN batch.reqs : \A pos : ~Writes(i, pos, g, o)
      PROVE  kv'[g][o] = kv[g][o]
  <2>1. writers(g, o) = {}
    BY <1>6 DEF writers, Writes
  <2> QED
    BY <1>1, <2>1
<1> QED
  BY <1>5, <1>6

(* Whoever is in the batch then has what it computed, everybody else what there was. *)
LEMMA ForwardKV ==
    ASSUME Inv, ObjectInv, HandleInv, TableInv, PagesPartitioned, KVInv, Forward
    PROVE  KVInv' /\ \A r \in live' : StillShares(r)
<1>1. /\ phase = "forward" /\ StoreKV
      /\ UNCHANGED <<live, page_table, cache>>
  BY DEF Forward, pool_vars
<1>2. PICK token \in [{s \in BatchUids : ~req[s].chunked} -> Sampled] :
         req' = [s \in Req |->
                   IF s \notin BatchUids THEN req[s]
                   ELSE Completed(req[s], IF req[s].chunked THEN Eos ELSE token[s])]
  BY DEF Forward
<1>3. \A i \in DOMAIN batch.reqs : batch.reqs[i].uid \in live /\ batch.reqs[i].uid \in Req
  BY <1>1 DEF Inv, BatchInv, QueueTypes
<1>4. ASSUME NEW r \in live
      PROVE  /\ r \in Req /\ DOMAIN req[r] = Fields /\ WellFormed(req[r], Prompt[r])
             /\ r \in BatchUids => req[r].device_len <= Len(req[r].ids)
  <2>1. r \in Req /\ DOMAIN req[r] = Fields /\ WellFormed(req[r], Prompt[r])
    BY DEF Inv, QueueTypes, ObjectTypes, ObjectInv
  <2>2. ASSUME r \in BatchUids PROVE req[r].device_len <= Len(req[r].ids)
    <3>1. PICK i \in DOMAIN batch.reqs : batch.reqs[i].uid = r
      BY <2>2 DEF BatchUids
    <3>2. batch.reqs[i].chunked <=> req[r].chunked
      BY <1>1, <3>1 DEF Inv, BatchInv, Continuing
    <3>3. batch.reqs[i].chunked => req[r].device_len < Len(req[r].ids)
      BY <1>1, <3>1 DEF ObjectInv, CutShort
    <3>4. req[r].device_len \in Nat /\ Len(req[r].ids) \in Nat
      BY <2>1 DEF WellFormed
    <3>5. ~req[r].chunked => req[r].device_len = Len(req[r].ids)
      BY <2>1 DEF WellFormed
    <3> QED
      BY ONLY <3>2, <3>3, <3>4, <3>5
  <2> QED
    BY <2>1, <2>2
<1>5. ASSUME NEW r \in live
      PROVE  /\ req'[r].handle_len = req[r].handle_len /\ req'[r].table_idx = req[r].table_idx
             /\ req'[r].cached_len = IF r \in BatchUids THEN req[r].device_len
                                     ELSE req[r].cached_len
             /\ \A n \in Nat : n <= Len(req[r].ids) =>
                   SubSeq(req'[r].ids, 1, n) = SubSeq(req[r].ids, 1, n)
  <2>1. r \in Req /\ DOMAIN req[r] = Fields /\ WellFormed(req[r], Prompt[r])
    BY <1>4
  <2>2. CASE r \notin BatchUids
    BY <1>2, <2>1, <2>2
  <2>3. CASE r \in BatchUids
    <3> PICK t : t = IF req[r].chunked THEN Eos ELSE token[r]
      OBVIOUS
    <3>1. req'[r] = Completed(req[r], t)
      BY <1>2, <2>1, <2>3
    <3>2. t \in Nat
      <4>1. ~req[r].chunked => token[r] \in Sampled
        BY <1>2, <2>3
      <4> QED
        BY <4>1, SchedulerAssumptions
    <3>3. /\ req'[r].ids = IF req[r].chunked THEN req[r].ids ELSE Append(req[r].ids, t)
          /\ req'[r].handle_len = req[r].handle_len /\ req'[r].table_idx = req[r].table_idx
          /\ req'[r].cached_len = req[r].device_len
      BY <2>1, <3>1 DEF Completed, Fields
    <3>4. ASSUME NEW n \in Nat, n <= Len(req[r].ids)
          PROVE  SubSeq(req'[r].ids, 1, n) = SubSeq(req[r].ids, 1, n)
      <4>1. SubSeq(Append(req[r].ids, t), 1, n) = SubSeq(req[r].ids, 1, n)
        BY <2>1, <3>2, <3>4, FirstTokensStay DEF WellFormed
      <4> QED
        BY <3>3, <4>1
    <3> QED
      BY <2>3, <3>3, <3>4
  <2> QED
    BY <2>2, <2>3
<1>6. /\ \A i \in DOMAIN batch.reqs : \A pos, g, o : Writes(i, pos, g, o) =>
            kv'[g][o] = SubSeq(req[batch.reqs[i].uid].ids, 1, pos + 1)
      /\ \A g \in Page : \A o \in 0..(PageSize - 1) :
            (\A i \in DOMAIN batch.reqs : \A pos : ~Writes(i, pos, g, o))
            => kv'[g][o] = kv[g][o]
  BY <1>1, StoredKV
<1>7. ASSUME NEW i \in DOMAIN batch.reqs, NEW pos, NEW g, NEW o, Writes(i, pos, g, o)
      PROVE  /\ HasOwn(batch.reqs[i].uid, pos) /\ pos >= req[batch.reqs[i].uid].cached_len
             /\ SlotPage(req[batch.reqs[i].uid], pos) = g /\ pos % PageSize = o
  <2> PICK r : r = batch.reqs[i].uid
    OBVIOUS
  <2>1. r \in live /\ WellFormed(req[r], Prompt[r]) /\ Allocated(r) = req[r].device_len
    BY <1>1, <1>3, <1>4 DEF Allocated, BatchUids
  <2>2. pos \in req[r].cached_len..(req[r].device_len - 1)
    BY <1>7 DEF Writes
  <2> QED
    BY <1>7, <2>1, <2>2 DEF HasOwn, WellFormed, Writes, LandsAt
<1>8. ASSUME NEW r \in live, NEW pos \in req'[r].handle_len..(req'[r].cached_len - 1)
      PROVE  Holds(r, pos)'
  <2> PICK q : q = req[r]
    OBVIOUS
  <2> PICK g : g = SlotPage(q, pos)
    OBVIOUS
  <2> PICK o : o = pos % PageSize
    OBVIOUS
  <2>1. /\ WellFormed(q, Prompt[r]) /\ q.handle_len \in Nat /\ q.cached_len \in Nat
        /\ q.device_len \in Nat /\ q.cached_len <= q.device_len
        /\ q.cached_len <= Len(q.ids) /\ Len(q.ids) \in Nat
    BY <1>4 DEF WellFormed
  <2>2. pos \in Nat /\ pos + 1 \in Nat /\ pos + 1 <= Len(q.ids)
    <3>1. req'[r].cached_len \in Nat /\ req'[r].cached_len <= Len(q.ids)
      BY <1>4, <1>5, <2>1
    <3>2. req'[r].handle_len \in Nat
      BY <1>5, <2>1
    <3> QED
      BY ONLY <2>1, <3>1, <3>2, pos \in req'[r].handle_len..(req'[r].cached_len - 1)
  <2>3. SubSeq(req'[r].ids, 1, pos + 1) = SubSeq(q.ids, 1, pos + 1)
    BY <1>5, <2>2
  <2>4. HasOwn(r, pos)
    <3>1. Allocated(r) = IF r \in BatchUids THEN q.device_len ELSE q.cached_len
      BY <1>1 DEF Allocated
    <3> QED
      BY <1>5, <3>1 DEF HasOwn
  <2>5. g \in Page /\ o \in 0..(PageSize - 1)
    BY <2>4, OwnApart
  <2>6. kv'[g][o] = SubSeq(q.ids, 1, pos + 1)
    <3>1. CASE r \in BatchUids /\ pos >= q.cached_len
      <4>1. PICK i \in DOMAIN batch.reqs : batch.reqs[i].uid = r
        BY <3>1 DEF BatchUids
      <4>2. pos \in q.cached_len..(q.device_len - 1)
        BY <1>5, <2>1, <3>1
      <4>3. Writes(i, pos, g, o)
        BY <4>1, <4>2 DEF Writes, LandsAt
      <4>4. kv'[g][o] = SubSeq(req[batch.reqs[i].uid].ids, 1, pos + 1)
        BY <1>6, <4>3
      <4> QED
        BY <4>1, <4>4
    <3>2. CASE ~(r \in BatchUids /\ pos >= q.cached_len)
      <4>1. pos < q.cached_len
        BY <1>5, <2>1, <2>2, <3>2
      <4>2. Holds(r, pos)
        <5>1. pos \in q.handle_len..(q.cached_len - 1)
          BY <1>5, <2>1, <4>1
        <5> QED
          BY <5>1 DEF KVInv, OwnValid
      <4>3. \A i \in DOMAIN batch.reqs : \A at : ~Writes(i, at, g, o)
        <5> SUFFICES ASSUME NEW i \in DOMAIN batch.reqs, NEW at, Writes(i, at, g, o) PROVE FALSE
          OBVIOUS
        <5>1. /\ HasOwn(batch.reqs[i].uid, at) /\ at >= req[batch.reqs[i].uid].cached_len
              /\ SlotPage(req[batch.reqs[i].uid], at) = g /\ at % PageSize = o
          BY <1>7
        <5>2. batch.reqs[i].uid = r /\ at = pos
          BY <2>4, <5>1, OwnApart
        <5> QED
          BY <2>1, <2>2, <4>1, <5>1, <5>2
      <4>4. kv'[g][o] = kv[g][o]
        BY <1>6, <2>5, <4>3
      <4> QED
        BY <4>2, <4>4 DEF Holds
    <3> QED
      BY <3>1, <3>2
  <2>7. kv'[SlotPage(req[r], pos)'][o] = SubSeq(req'[r].ids, 1, pos + 1)
    <3>1. SlotPage(req[r], pos)' = g
      BY <1>1, <1>5 DEF SlotPage
    <3> QED
      BY <2>3, <2>6, <3>1
  <2> QED
    BY <2>7 DEF Holds
<1>9. CacheValid'
  <2> SUFFICES ASSUME NEW p \in DOMAIN cache, NEW o \in 0..(PageSize - 1)
               PROVE  kv'[cache[p].page][o] = kv[cache[p].page][o]
    BY <1>1 DEF KVInv, CacheValid
  <2> PICK g : g = cache[p].page
    OBVIOUS
  <2>1. g \in Page
    BY OwnApart
  <2>2. \A i \in DOMAIN batch.reqs : \A at : ~Writes(i, at, g, o)
    <3> SUFFICES ASSUME NEW i \in DOMAIN batch.reqs, NEW at, Writes(i, at, g, o) PROVE FALSE
      OBVIOUS
    <3>1. HasOwn(batch.reqs[i].uid, at) /\ SlotPage(req[batch.reqs[i].uid], at) = g
      BY <1>7
    <3> QED
      BY <3>1, OwnApart
  <2> QED
    BY <1>6, <2>1, <2>2
<1>10. \A r \in live : StillShares(r)
  <2> TAKE r \in live
  <2>1. /\ req'[r].handle_len \in Nat /\ req'[r].handle_len <= Len(req[r].ids)
    BY <1>4, <1>5 DEF WellFormed
  <2>2. HandleOf(req'[r]) = HandleOf(req[r])
    BY <1>5, <2>1 DEF HandleOf
  <2> QED
    BY <1>1, <1>5, <2>2 DEF StillShares, RowStays
<1> QED
  BY <1>1, <1>8, <1>9, <1>10 DEF KVInv, OwnValid

-----------------------------------------------------------------------------
(* What cache_req caches *)

(* The first b pages of q are cached already, of which its handle covers a; the pages *)
(* of its row after these become the cache's, up to d.                                *)
Inserts(q, c, a, b, d) ==
    /\ a <= b /\ b <= d
    /\ q.handle_len = PageSize * a /\ c.handle_len = PageSize * d
    /\ c.handle_len <= q.cached_len
    /\ \A x \in 1..d : SubSeq(q.ids, 1, PageSize * x) \in DOMAIN cache <=> x <= b
    /\ \A x \in 1..d : x > b =>
          c.cache[SubSeq(q.ids, 1, PageSize * x)].page = page_table[q.table_idx][x - 1]
    /\ DOMAIN c.cache = DOMAIN cache \cup {SubSeq(q.ids, 1, PageSize * x) : x \in 1..d}
    /\ \A p \in DOMAIN cache : c.cache[p].page = cache[p].page

(* Such an a, b and d exist, and the pages of the duplicates are freed. *)
LEMMA Inserted ==
    ASSUME Inv, ObjectInv, RefInv, HandleInv, NEW r \in live, NEW q, ObjectOf(r, q),
           NEW finished \in BOOLEAN, NEW c, c = CacheReq(cache, q, finished)
    PROVE  \E a, b, d \in Nat :
              /\ Inserts(q, c, a, b, d)
              /\ c.freed = <<>> => a = b
              /\ Len(c.freed) \in Nat /\ Len(c.freed) >= b - a
<1> PICK ids : ids = InsertedIds(q)
  OBVIOUS
<1> PICK n : n = c.handle_len
  OBVIOUS
<1>1. PICK a, b, d, e \in Nat :
         /\ a <= b /\ b <= d /\ d <= e
         /\ q.handle_len \div PageSize = a /\ DivCeil(q.cached_len) = e
         /\ Len(Longest(cache, ids)) \div PageSize = b
         /\ InsertLen(ids) = PageSize * d
         /\ InsertLen(ids) <= q.host_len
         /\ d <= Len(ids) \div PageSize
         /\ \A x \in 1..d : SubSeq(ids, 1, PageSize * x) \in DOMAIN cache <=> x <= b
  <2>1. /\ WellFormed(q, Prompt[r]) /\ q.ids = req[r].ids
        /\ q.handle_len = req[r].handle_len /\ q.host_len >= req[r].host_len
    BY DEF ObjectOf
  <2> QED
    BY <2>1, CacheReqLengths
<1>2. /\ n = InsertLen(ids) /\ n = PageSize * d
      /\ c.freed = Duplicates(q, Len(Longest(cache, ids))) \o Leftover(q, n, finished)
  BY <1>1 DEF CacheReq, InsertedIds
<1>3. /\ q.ids \in Seq(Nat) /\ q.cached_len \in Nat /\ q.handle_len \in Nat
      /\ q.cached_len <= Len(q.ids) /\ WellFormed(q, Prompt[r])
  BY DEF ObjectOf, WellFormed
<1>4. /\ ids \in Seq(Nat) /\ n \in Nat /\ n <= q.cached_len /\ n <= Len(ids)
      /\ SubSeq(ids, 1, n) = SubSeq(q.ids, 1, n)
  BY <1>2, <1>3, InsertedLength
<1>5. n <= Len(q.ids)
  <2>1. Len(q.ids) \in Nat
    BY <1>3
  <2> QED
    BY ONLY <1>3, <1>4, <2>1
<1> PICK s : s = SubSeq(q.ids, 1, n)
  OBVIOUS
<1>6. ASSUME NEW x \in 1..d
      PROVE  /\ PageSize * x \in Nat /\ PageSize * x <= n /\ x \in Nat
             /\ (PageSize * x) \div PageSize = x
             /\ SubSeq(ids, 1, PageSize * x) = SubSeq(q.ids, 1, PageSize * x)
             /\ SubSeq(s, 1, PageSize * x) = SubSeq(q.ids, 1, PageSize * x)
             /\ Len(SubSeq(q.ids, 1, PageSize * x)) = PageSize * x
  <2> PICK m : m = PageSize * x
    OBVIOUS
  <2>1. x \in Nat /\ x <= d
    OBVIOUS
  <2>2. m \in Nat /\ m \div PageSize = x /\ n \div PageSize = d
    BY <1>2, <2>1, PageArithmetic
  <2>3. m <= n
    <3>1. x <= n \div PageSize <=> PageSize * x <= n
      BY ONLY <1>4, <2>1, PageArithmetic
    <3> QED
      BY <2>1, <2>2, <3>1
  <2>4. SubSeq(SubSeq(ids, 1, n), 1, m) = SubSeq(ids, 1, m)
    BY <1>4, <2>2, <2>3, FirstOfFirst
  <2>5. SubSeq(s, 1, m) = SubSeq(q.ids, 1, m)
    BY <1>3, <1>4, <1>5, <2>2, <2>3, FirstOfFirst
  <2>6. m <= Len(q.ids)
    <3>1. Len(q.ids) \in Nat
      BY <1>3
    <3> QED
      BY ONLY <1>4, <1>5, <2>2, <2>3, <3>1
  <2>7. Len(SubSeq(q.ids, 1, m)) = m
    BY <1>3, <2>2, <2>6, FirstTokens
  <2> QED
    BY <1>4, <2>1, <2>2, <2>3, <2>4, <2>5, <2>7
<1>7. PagePrefixes(s) = {SubSeq(q.ids, 1, PageSize * x) : x \in 1..d}
  <2>1. Len(s) = n /\ n \div PageSize = d
    BY <1>2, <1>3, <1>4, <1>5, FirstTokens, PageArithmetic
  <2>2. PagePrefixes(s) = {SubSeq(s, 1, PageSize * x) : x \in 1..d}
    BY <2>1 DEF PagePrefixes
  <2> QED
    BY ONLY <1>6, <2>2
<1>8. /\ DOMAIN c.cache = DOMAIN cache \cup PagePrefixes(s)
      /\ \A p \in DOMAIN c.cache : c.cache[p].page = IF p \in DOMAIN cache THEN cache[p].page
                                                     ELSE NewPage(q, p)
  BY <1>3, CacheReqEffect
<1>9. ASSUME NEW x \in 1..d, x > b
      PROVE  c.cache[SubSeq(q.ids, 1, PageSize * x)].page = page_table[q.table_idx][x - 1]
  <2> PICK p : p = SubSeq(q.ids, 1, PageSize * x)
    OBVIOUS
  <2>1. p \notin DOMAIN cache
    <3>1. ~(x <= b)
      BY <1>9
    <3>2. SubSeq(ids, 1, PageSize * x) \notin DOMAIN cache
      BY <1>1, <3>1
    <3> QED
      BY <1>6, <3>2
  <2>2. p \in DOMAIN c.cache
    BY <1>7, <1>8
  <2>3. Len(p) \div PageSize = x
    BY <1>6
  <2> QED
    BY <1>8, <2>1, <2>2, <2>3 DEF NewPage
<1>10. q.handle_len = PageSize * a
  <2>1. PICK k \in Nat : q.handle_len = PageSize * k
    BY DEF ObjectOf, HandleInv, Inv, QueueTypes
  <2>2. (PageSize * k) \div PageSize = k
    BY PageArithmetic
  <2> QED
    BY <1>1, <2>1, <2>2
<1>11. /\ c.freed = <<>> => a = b
       /\ Len(c.freed) \in Nat /\ Len(c.freed) >= b - a
  <2> PICK dup : dup = Duplicates(q, Len(Longest(cache, ids)))
    OBVIOUS
  <2> PICK rest : rest = Leftover(q, n, finished)
    OBVIOUS
  <2> PICK P : P = PagesAt(page_table[q.table_idx], Nat)
    OBVIOUS
  <2>1. dup \in Seq(P) /\ Len(dup) = b - a
    BY <1>1, SlicePages DEF Duplicates
  <2>2. rest \in Seq(P)
    <3>1. n \div PageSize = d /\ DivCeil(q.cached_len) = e
      BY <1>1, <1>2, PageArithmetic
    <3>2. RowSlice(q, d, e) \in Seq(P)
      BY <1>1, SlicePages
    <3>3. <<>> \in Seq(P)
      OBVIOUS
    <3> QED
      BY <3>1, <3>2, <3>3 DEF Leftover
  <2>3. Len(dup \o rest) = Len(dup) + Len(rest) /\ Len(<<>>) = 0
    BY <2>1, <2>2, JoinedElements
  <2>4. Len(dup) \in Nat /\ Len(rest) \in Nat
    BY <2>1, <2>2
  <2>5. dup \o rest = c.freed
    BY <1>2
  <2>6. c.freed = <<>> => Len(dup) = 0
    BY <2>3, <2>4, <2>5
  <2>7. Len(c.freed) \in Nat /\ Len(c.freed) >= Len(dup)
    BY <2>3, <2>4, <2>5
  <2> QED
    BY <1>1, <2>1, <2>6, <2>7
<1>12. \A x \in 1..d : SubSeq(q.ids, 1, PageSize * x) \in DOMAIN cache <=> x <= b
  BY <1>1, <1>6
<1>13. \A p \in DOMAIN cache : c.cache[p].page = cache[p].page
  BY <1>8
<1>14. Inserts(q, c, a, b, d)
  <2>1. a <= b /\ b <= d /\ c.handle_len = PageSize * d /\ c.handle_len <= q.cached_len
    BY <1>1, <1>2, <1>4
  <2> QED
    BY <1>7, <1>8, <1>9, <1>10, <1>12, <1>13, <2>1 DEF Inserts
<1> QED
  BY <1>11, <1>14

(* The pages that the cache takes hold the KV of what it takes them for. *)
LEMMA CachedContents ==
    ASSUME Inv, ObjectInv, RefInv, HandleInv, KVInv, kv' = kv,
           NEW r \in live, NEW q, ObjectOf(r, q),
           NEW finished \in BOOLEAN, cache' = CacheReq(cache, q, finished).cache
    PROVE  CacheValid'
<1> PICK c : c = CacheReq(cache, q, finished)
  OBVIOUS
<1>1. PICK a, b, d \in Nat : Inserts(q, c, a, b, d)
  BY Inserted
<1>2. /\ q.ids \in Seq(Nat) /\ q.cached_len \in Nat /\ q.cached_len <= Len(q.ids)
      /\ Len(q.ids) \in Nat
  BY DEF ObjectOf, WellFormed
<1>3. ASSUME NEW x \in 1..d, x > b, NEW o \in 0..(PageSize - 1),
             NEW p, p = SubSeq(q.ids, 1, PageSize * x)
      PROVE  kv[c.cache[p].page][o] = SubSeq(p, 1, Len(p) - PageSize + o + 1)
  <2> PICK k : k = x - 1
    OBVIOUS
  <2> PICK pos : pos = PageSize * k + o
    OBVIOUS
  <2> PICK m : m = PageSize * x
    OBVIOUS
  <2>1. k \in Nat /\ x = k + 1 /\ x \in Nat /\ x <= d /\ b <= k /\ a <= k
    BY <1>1, <1>3 DEF Inserts
  <2>2. /\ pos \in Nat /\ pos \div PageSize = k /\ pos % PageSize = o
        /\ m = PageSize * k + PageSize /\ pos + 1 <= m
    BY <2>1, EntryPosition
  <2>3. /\ PageSize \in Nat /\ PageSize * k \in Nat /\ PageSize * a \in Nat /\ m \in Nat
        /\ PageSize * a <= pos
    <3>1. PageSize \in Nat /\ PageSize * k \in Nat /\ PageSize * a \in Nat /\ m \in Nat
      BY <2>1, PageSizeAssumption
    <3>2. \A y \in Nat : y <= k <=> PageSize * y <= pos
      BY ONLY <2>2, PositionEntry
    <3> QED
      BY <2>1, <3>1, <3>2
  <2>4. m <= q.cached_len
    <3>1. PageSize * d \in Nat /\ PageSize * d <= q.cached_len /\ (PageSize * d) \div PageSize = d
      BY <1>1, PageArithmetic DEF Inserts
    <3> PICK n : n = PageSize * d
      OBVIOUS
    <3>2. x <= n \div PageSize <=> PageSize * x <= n
      BY ONLY <2>1, <3>1, PageArithmetic, n = PageSize * d
    <3>3. m <= n
      BY <2>1, <3>1, <3>2
    <3> QED
      BY ONLY <1>2, <2>3, <3>1, <3>3, n = PageSize * d
  <2>5. Holds(r, pos)
    <3>1. q.handle_len = req[r].handle_len /\ q.cached_len = req[r].cached_len
      BY DEF ObjectOf
    <3>2. pos \in q.handle_len..(q.cached_len - 1)
      <4>1. q.handle_len = PageSize * a
        BY <1>1 DEF Inserts
      <4> PICK t : t = PageSize * a
        OBVIOUS
      <4>2. t \in Nat /\ t <= pos /\ q.handle_len = t /\ pos \in Nat
        BY <2>2, <2>3, <4>1
      <4>3. pos + 1 <= q.cached_len
        BY ONLY <1>2, <2>2, <2>3, <2>4
      <4> QED
        BY ONLY <1>2, <4>2, <4>3
    <3> QED
      BY <3>1, <3>2 DEF KVInv, OwnValid
  <2>6. kv[page_table[q.table_idx][k]][o] = SubSeq(q.ids, 1, pos + 1)
    BY <2>2, <2>5 DEF Holds, SlotPage, ObjectOf
  <2>7. c.cache[p].page = page_table[q.table_idx][k]
    BY <1>1, <1>3 DEF Inserts
  <2>8. m <= Len(q.ids)
    BY ONLY <1>2, <2>3, <2>4
  <2>9. Len(p) = m /\ Len(p) - PageSize + o + 1 = pos + 1
    <3>1. Len(p) = m
      BY <1>2, <1>3, <2>3, <2>8, FirstTokens
    <3> PICK t : t = PageSize * k
      OBVIOUS
    <3>2. m = t + PageSize /\ pos = t + o /\ t \in Nat
      BY <2>2, <2>3
    <3> QED
      BY ONLY <2>3, <3>1, <3>2, o \in 0..(PageSize - 1)
  <2>10. SubSeq(p, 1, pos + 1) = SubSeq(q.ids, 1, pos + 1)
    BY <1>2, <1>3, <2>2, <2>3, <2>8, FirstOfFirst
  <2> QED
    BY <2>6, <2>7, <2>9, <2>10
<1>4. ASSUME NEW p \in DOMAIN c.cache, NEW o \in 0..(PageSize - 1)
      PROVE  kv[c.cache[p].page][o] = SubSeq(p, 1, Len(p) - PageSize + o + 1)
  <2>1. CASE p \in DOMAIN cache
    <3>1. c.cache[p].page = cache[p].page
      BY <1>1, <2>1 DEF Inserts
    <3>2. kv[cache[p].page][o] = SubSeq(p, 1, Len(p) - PageSize + o + 1)
      BY <2>1 DEF KVInv, CacheValid
    <3> QED
      BY <3>1, <3>2
  <2>2. CASE p \notin DOMAIN cache
    <3>1. PICK x \in 1..d : p = SubSeq(q.ids, 1, PageSize * x)
      BY <1>1, <2>2 DEF Inserts
    <3>2. x > b
      BY <1>1, <2>2, <3>1 DEF Inserts
    <3> QED
      BY <1>3, <3>1, <3>2
  <2> QED
    BY <2>1, <2>2
<1> QED
  BY <1>4 DEF CacheValid

-----------------------------------------------------------------------------
(* The steps *)

(* Rows name the cached pages under their handles, or did and nothing moved. *)
KeepsSharing ==
    /\ \A p \in DOMAIN cache : p \in DOMAIN cache' => cache'[p].page = cache[p].page
    /\ \A r \in live' : RowOfHandle(r)' \/ StillShares(r)

(* Only the engine writes to the pool. *)
LEMMA PoolWrites ==
    ASSUME Receive \/ Loop
    PROVE  Forward \/ kv' = kv
<1>1. ASSUME NEW r \in Req, ReceiveUser(r) \/ ReceiveAbort(r) PROVE kv' = kv
  BY <1>1 DEF ReceiveUser, ReceiveAbort, ghost_vars
<1>2. CASE StartSchedule
  BY <1>2 DEF StartSchedule, ghost_vars
<1>3. CASE Admit
  BY <1>3 DEF Admit, AdmitChunk, AdmitNew, SchedulePrefill, ScheduleDecode, ScheduleNothing,
              ghost_vars
<1>4. CASE Allocate
  BY <1>4 DEF Allocate, AllocateFree, AllocateEvict, AllocateFails, ghost_vars
<1>5. CASE Process
  BY <1>5 DEF Process, ProcessChunk, ProcessFinished, ProcessPrefilled, ProcessDecoded,
              ProcessFails, EndIteration, ghost_vars
<1> QED
  BY <1>1, <1>2, <1>3, <1>4, <1>5 DEF Receive, Loop

(* Steps that touch neither the objects nor the pages they have. *)
LEMMA QuietKV ==
    ASSUME Inv, ObjectInv, KVInv, UNCHANGED <<kv, live, req, page_table, cache>>
    PROVE  KVInv' /\ KeepsSharing
<1>1. KVInv'
  BY DEF KVInv, OwnValid, CacheValid, Holds, SlotPage
<1>2. KeepsSharing
  BY DEF KeepsSharing, StillShares, RowStays
<1> QED
  BY <1>1, <1>2

(* Steps in which nobody's pages move. *)
LEMMA FrameKV ==
    ASSUME Inv, ObjectInv, KVInv, kv' = kv, DOMAIN cache' \subseteq DOMAIN cache,
           \A p \in DOMAIN cache' : cache'[p].page = cache[p].page,
           live' = live, \A r \in live : StillOwns(r) /\ StillShares(r)
    PROVE  KVInv' /\ KeepsSharing
<1>1. live \subseteq Req
  BY DEF Inv, QueueTypes
<1>2. OwnValid'
  BY <1>1, OwnKept DEF KVInv
<1>3. CacheValid'
  BY CacheKept DEF KVInv
<1>4. KeepsSharing
  BY DEF KeepsSharing
<1> QED
  BY <1>2, <1>3, <1>4 DEF KVInv

(* An object that a step leaves as it is, with its row. *)
LEMMA Unmoved ==
    ASSUME ObjectInv, NEW r \in live, r \in Req,
           /\ req'[r].ids = req[r].ids /\ req'[r].cached_len = req[r].cached_len
           /\ req'[r].handle_len = req[r].handle_len /\ req'[r].table_idx = req[r].table_idx,
           page_table'[req[r].table_idx] = page_table[req[r].table_idx]
    PROVE  StillOwns(r) /\ StillShares(r)
<1>1. req[r].handle_len \in Nat /\ HandleOf(req'[r]) = HandleOf(req[r])
  BY DEF ObjectInv, WellFormed, HandleOf
<1> QED
  BY <1>1 DEF StillOwns, StillShares, RowStays

(* A step that decodes, or computes the next chunk of a prompt. *)
LEMMA DecodedKV ==
    ASSUME Inv, FlightInv, ObjectInv, KVInv, kv' = kv, ProcessDecoded
    PROVE  KVInv' /\ KeepsSharing
<1> PICK r : r = Work.reqs[next].uid
  OBVIOUS
<1>1. r \in Req
  BY ProcessedEntry DEF ProcessDecoded
<1>2. /\ req' = [req EXCEPT ![r] = Appended(@)]
      /\ UNCHANGED <<live, cache, page_table>>
  BY DEF ProcessDecoded, Deliver, pool_vars
<1>3. \A s \in live : StillOwns(s) /\ StillShares(s)
  <2> TAKE s \in live
  <2>1. s \in Req /\ DOMAIN req = Req /\ DOMAIN req[s] = Fields
    BY DEF Inv, QueueTypes, ObjectTypes
  <2>2. /\ req'[s].ids = req[s].ids /\ req'[s].cached_len = req[s].cached_len
        /\ req'[s].handle_len = req[s].handle_len /\ req'[s].table_idx = req[s].table_idx
    BY <1>1, <1>2, <2>1 DEF Appended, Fields
  <2> QED
    BY <1>2, <2>1, <2>2, Unmoved
<1> QED
  BY <1>2, <1>3, FrameKV

(* A further chunk touches no page. *)
LEMMA AdmitChunkKV ==
    ASSUME Inv, ObjectInv, RefInv, KVInv, kv' = kv, AdmitChunk
    PROVE  KVInv' /\ KeepsSharing
<1> PICK r : r = Candidate
  OBVIOUS
<1>1. /\ r \in Req /\ \A s \in Req : s # r => req'[s] = req[s]
  BY ObjectAdmitted DEF RefInv
<1>2. /\ AddOneReq(r, req[r].table_idx, req[r].cached_len, req[r].handle_len)
      /\ req[r].chunked /\ UNCHANGED <<live, page_table, cache>>
  BY DEF AdmitChunk, Continuing, pool_vars, ghost_vars
<1>3. /\ req'[r].table_idx = req[r].table_idx /\ req'[r].cached_len = req[r].cached_len
      /\ req'[r].handle_len = req[r].handle_len
  BY <1>1, <1>2, AddedFields DEF Inv
<1>4. req'[r].ids = req[r].ids
  <2>1. req'[r].ids = Prompt[r]
    BY <1>1, <1>2 DEF AddOneReq, Inv, ObjectTypes
  <2>2. req[r].ids = Prompt[r]
    BY <1>1, <1>2 DEF ObjectInv, WellFormed
  <2> QED
    BY <2>1, <2>2
<1>5. \A s \in live : StillOwns(s) /\ StillShares(s)
  <2> TAKE s \in live
  <2>1. s \in Req
    BY DEF Inv, QueueTypes
  <2>2. /\ req'[s].ids = req[s].ids /\ req'[s].cached_len = req[s].cached_len
        /\ req'[s].handle_len = req[s].handle_len /\ req'[s].table_idx = req[s].table_idx
    BY <1>1, <1>3, <1>4, <2>1
  <2> QED
    BY <1>2, <2>1, <2>2, Unmoved
<1> QED
  BY <1>2, <1>5, FrameKV

(* A new request computed nothing yet, and its row begins with what it shares. *)
LEMMA AdmitNewKV ==
    ASSUME Inv, RowsOwned, ObjectInv, RefInv, TableInv, FitInv, KVInv, kv' = kv, AdmitNew
    PROVE  KVInv' /\ KeepsSharing
<1> PICK r : r = Candidate
  OBVIOUS
<1> PICK h : h = MatchReq(cache, r)
  OBVIOUS
<1> PICK n : n = Len(h)
  OBVIOUS
<1> PICK row : row = Last(row_slots)
  OBVIOUS
<1> PICK prompt : prompt = Prompt[r]
  OBVIOUS
<1>1. /\ r \in Req /\ \A s \in Req : s # r => req'[s] = req[s]
  BY ObjectAdmitted DEF RefInv
<1>2. /\ AddOneReq(r, row, n, n) /\ row_slots # <<>> /\ ~Continuing(r) /\ phase = "admit"
      /\ cache' = LockHandle(cache, h) /\ live' = live \cup {r}
      /\ page_table' = [page_table EXCEPT ![row] =
            [i \in DOMAIN @ |-> IF PageSize * (i + 1) <= n
                                THEN cache[SubSeq(h, 1, PageSize * (i + 1))].page ELSE @[i]]]
  BY DEF AdmitNew, CanAllocate
<1>3. row \in ToSet(row_slots) /\ row \in Row
  <2>1. row_slots \in Seq(Row)
    BY DEF Inv, QueueTypes
  <2> QED
    BY <1>2, <2>1 DEF Last, ToSet
<1>4. DOMAIN cache' = DOMAIN cache /\ \A p \in DOMAIN cache : cache'[p].page = cache[p].page
  BY <1>2 DEF LockHandle, RefInv, CacheEntries
<1>5. /\ prompt \in Seq(Nat) /\ n \in Nat /\ n < Len(prompt) /\ Len(prompt) \in Nat
      /\ SubSeq(prompt, 1, n) = h
  BY <1>1, MatchedPrefix, SchedulerAssumptions DEF RefInv
<1>6. /\ req'[r].cached_len = n /\ req'[r].handle_len = n /\ req'[r].table_idx = row
      /\ req'[r].ids = prompt
  <2>1. req'[r].ids = prompt
    BY <1>1, <1>2 DEF AddOneReq, Inv, ObjectTypes
  <2> QED
    BY <1>1, <1>2, <2>1, AddedFields DEF Inv
<1>7. r \in ToSet(pending_list) /\ r \notin live
  <2>1. Len(adder.reqs) + 1 \in DOMAIN pending_list /\ r = pending_list[Len(adder.reqs) + 1]
    BY AdmittedRequest DEF Candidate
  <2>2. r \notin live
    BY <1>2, <2>1 DEF Inv, HeadIsChunked, Admitted, QueueTypes
  <2> QED
    BY <2>1, <2>2 DEF ToSet
<1>8. n <= MaxSeqLen /\ MaxSeqLen \in Nat
  <2>1. NumPages * PageSize \in Int
    BY SchedulerAssumptions, PageSizeAssumption
  <2>2. MaxSeqLen \in Nat
    BY <2>1, SchedulerAssumptions
  <2>3. MaxSeqLen - Len(prompt) > 0
    BY <1>7 DEF FitInv, MaxOutputLen
  <2> QED
    BY <1>5, <2>2, <2>3
<1>9. \A s \in live : StillOwns(s) /\ StillShares(s)
  <2> TAKE s \in live
  <2>1. s \in Req /\ s # r /\ req[s].table_idx \in Row /\ req[s].table_idx # row
    BY <1>3, <1>7 DEF RowsOwned, Inv, QueueTypes, ObjectTypes
  <2>2. page_table'[req[s].table_idx] = page_table[req[s].table_idx]
    BY <1>2, <2>1 DEF TableInv
  <2>3. req'[s] = req[s]
    BY <1>1, <2>1
  <2> QED
    BY <2>1, <2>2, <2>3, Unmoved
<1>10. ASSUME NEW k \in 0..((n \div PageSize) - 1)
       PROVE  page_table'[row][k] = cache'[SubSeq(prompt, 1, PageSize * (k + 1))].page
  <2> PICK m : m = PageSize * (k + 1)
    OBVIOUS
  <2>1. n \div PageSize \in Nat
    BY <1>5, PageArithmetic
  <2>2. k \in Nat /\ k + 1 \in Nat /\ k + 1 <= n \div PageSize
    BY <2>1
  <2>3. m \in Nat /\ m <= n
    BY <1>5, <2>2, PageArithmetic
  <2>4. SubSeq(h, 1, m) = SubSeq(prompt, 1, m) /\ Len(h) = n /\ h \in Seq(Nat)
    <3>1. n <= Len(prompt)
      BY <1>5
    <3>2. SubSeq(SubSeq(prompt, 1, n), 1, m) = SubSeq(prompt, 1, m)
      BY ONLY <1>5, <2>3, <3>1, FirstOfFirst
    <3>3. SubSeq(prompt, 1, n) \in Seq(Nat) /\ Len(SubSeq(prompt, 1, n)) = n
      BY ONLY <1>5, <3>1, FirstTokens
    <3> QED
      BY <1>5, <3>2, <3>3
  <2>5. SubSeq(h, 1, m) \in DOMAIN cache
    <3>1. k + 1 \in 1..(Len(h) \div PageSize)
      BY <2>1, <2>2, <2>4
    <3>2. SubSeq(h, 1, m) \in PagePrefixes(h)
      BY <3>1 DEF PagePrefixes
    <3>3. PagePrefixes(h) \subseteq DOMAIN cache
      BY <1>1, MatchedPrefix DEF RefInv
    <3> QED
      BY <3>2, <3>3
  <2>6. k \in DOMAIN page_table[row]
    <3>1. m <= MaxSeqLen
      BY ONLY <1>5, <1>8, <2>3
    <3>2. k + 1 <= DivCeil(MaxSeqLen) /\ DivCeil(MaxSeqLen) \in Nat
      BY <1>8, <2>2, <3>1, PagesWithin
    <3>3. k \in 0..(DivCeil(MaxSeqLen) - 1)
      BY <2>2, <3>2
    <3> QED
      BY <1>3, <3>3 DEF TableInv
  <2>7. page_table'[row][k] = cache[SubSeq(h, 1, m)].page
    BY <1>2, <1>3, <2>3, <2>6 DEF TableInv
  <2> QED
    BY <1>4, <2>4, <2>5, <2>7
<1>11. RowOfHandle(r)'
  BY <1>6, <1>10 DEF RowOfHandle
<1>12. KeepsSharing
  BY <1>2, <1>4, <1>9, <1>11 DEF KeepsSharing
<1>13. OwnValid'
  <2>1. live \subseteq Req
    BY DEF Inv, QueueTypes
  <2> QED
    BY <1>2, <1>5, <1>6, <1>9, <2>1, OwnKept DEF KVInv
<1>14. CacheValid'
  BY <1>4, CacheKept DEF KVInv
<1> QED
  BY <1>12, <1>13, <1>14 DEF KVInv

(* Pages are allocated to entries that hold nothing yet. *)
LEMMA AllocateKV ==
    ASSUME Inv, RowsOwned, ObjectInv, TableInv, FitInv, KVInv, kv' = kv,
           AllocateFree \/ AllocateEvict
    PROVE  KVInv' /\ KeepsSharing
<1>1. phase = "allocate" /\ UNCHANGED <<live, req>>
  BY DEF AllocateFree, AllocateEvict, queue_vars, ghost_vars
<1>2. PICK slots : WritePageTable(slots)
  BY DEF AllocateFree, AllocateEvict
<1>3. /\ DOMAIN cache' \subseteq DOMAIN cache
      /\ \A p \in DOMAIN cache' : cache'[p].page = cache[p].page
  <2>1. CASE AllocateFree
    BY <2>1 DEF AllocateFree
  <2>2. CASE AllocateEvict
    <3>1. PICK V : cache' = [p \in DOMAIN cache \ V |-> cache[p]]
      BY <2>2 DEF AllocateEvict
    <3> QED
      BY <3>1
  <2> QED
    BY <2>1, <2>2
<1>4. \A i \in DOMAIN batch.reqs : PagesOf(i) \subseteq 0..(DivCeil(MaxSeqLen) - 1)
  BY <1>1, BatchPages
<1>5. \A r \in live : \A k \in 0..(DivCeil(MaxSeqLen) - 1) :
         (\A i \in DOMAIN batch.reqs : batch.reqs[i].uid = r => k \notin PagesOf(i))
         => page_table'[req[r].table_idx][k] = page_table[req[r].table_idx][k]
  BY <1>1, <1>2, <1>4, WrittenRows
<1>6. \A r \in live : StillOwns(r) /\ StillShares(r)
  <2> TAKE r \in live
  <2>1. r \in Req /\ WellFormed(req[r], Prompt[r]) /\ req[r].cached_len <= MaxSeqLen
    BY DEF ObjectInv, Inv, QueueTypes, FitInv
  <2> PICK n : n = DivCeil(req[r].cached_len)
    OBVIOUS
  <2>2. MaxSeqLen \in Nat /\ req[r].cached_len \in Nat
    <3>1. NumPages * PageSize \in Int
      BY SchedulerAssumptions, PageSizeAssumption
    <3> QED
      BY <2>1, <3>1, SchedulerAssumptions DEF WellFormed
  <2>3. n \in Nat /\ n <= DivCeil(MaxSeqLen) /\ DivCeil(MaxSeqLen) \in Nat
    BY <2>1, <2>2, CeilIsMonotone
  <2>4. ASSUME NEW k \in 0..(n - 1)
        PROVE  page_table'[req[r].table_idx][k] = page_table[req[r].table_idx][k]
    <3>1. k \in 0..(DivCeil(MaxSeqLen) - 1) /\ k < n /\ k \in Nat
      BY <2>3
    <3>2. ASSUME NEW i \in DOMAIN batch.reqs, batch.reqs[i].uid = r PROVE k \notin PagesOf(i)
      <4>1. \A j \in PagesOf(i) : n <= j
        <5>1. PagesOf(i) = n..(LastPage(req[r]) - 1)
          BY <3>2 DEF PagesOf, FirstPage
        <5>2. DivCeil(req[r].device_len) \in Nat
          BY <2>1, CeilIsMonotone DEF WellFormed
        <5> QED
          BY <2>3, <5>1, <5>2 DEF LastPage
      <4> QED
        BY <2>3, <3>1, <4>1
    <3> QED
      BY <1>5, <3>1, <3>2
  <2>5. RowStays(r, n)
    BY <1>1, <2>4 DEF RowStays
  <2> QED
    BY <1>1, <2>1, <2>5 DEF StillOwns, StillShares, WellFormed
<1> QED
  BY <1>1, <1>3, <1>6, FrameKV

(* A request that gives pages to the cache, keeping its row or giving it back: nobody *)
(* else's move, and it names the cached pages when none of its own was freed.         *)
LEMMA ReleasedKV ==
    ASSUME Inv, ObjectInv, RefInv, HandleInv, KVInv, kv' = kv,
           NEW r \in live, NEW q, ObjectOf(r, q),
           NEW finished \in BOOLEAN, NEW c, c = CacheReq(cache, q, finished),
           Releases(r, c, finished), ~finished => req'[r].ids = req[r].ids
    PROVE  /\ KVInv'
           /\ \A p \in DOMAIN cache : p \in DOMAIN cache' => cache'[p].page = cache[p].page
           /\ \A s \in live' : s # r => StillShares(s)
           /\ ~finished /\ c.freed = <<>> /\ RowOfHandle(r) => RowOfHandle(r)'
<1>1. PICK a, b, d \in Nat : Inserts(q, c, a, b, d) /\ (c.freed = <<>> => a = b)
  BY Inserted
<1>2. /\ cache' = c.cache /\ page_table' = page_table
      /\ live' = IF finished THEN live \ {r} ELSE live
      /\ \A s \in live : s # r => req'[s] = req[s]
      /\ ~finished => /\ req'[r].handle_len = c.handle_len
                      /\ req'[r].cached_len = req[r].cached_len
                      /\ req'[r].table_idx = req[r].table_idx
  BY DEF Releases
<1>3. live \subseteq Req
  BY DEF Inv, QueueTypes
<1>4. CacheValid'
  BY <1>2, CachedContents
<1>5. \A p \in DOMAIN cache : cache'[p].page = cache[p].page
  BY <1>1, <1>2 DEF Inserts
<1>6. ASSUME NEW s \in live, s # r PROVE StillOwns(s) /\ StillShares(s)
  BY <1>2, <1>3, <1>6, Unmoved
<1>7. /\ q.handle_len = req[r].handle_len /\ q.ids = req[r].ids
      /\ q.cached_len = req[r].cached_len /\ q.table_idx = req[r].table_idx
  BY DEF ObjectOf
<1>8. ASSUME ~finished PROVE StillOwns(r)
  <2> PICK x : x = PageSize * a
    OBVIOUS
  <2> PICK y : y = PageSize * d
    OBVIOUS
  <2>1. x \in Nat /\ y \in Nat /\ x <= y
    <3>1. PageSize \in Nat /\ a <= d
      BY <1>1, PageSizeAssumption DEF Inserts
    <3>2. x \in Nat /\ y \in Nat /\ y \div PageSize = d
      BY <3>1, PageArithmetic
    <3>3. a <= y \div PageSize <=> PageSize * a <= y
      BY ONLY <1>1, <3>2, PageArithmetic
    <3> QED
      BY <3>1, <3>2, <3>3
  <2>2. req[r].handle_len = x /\ req'[r].handle_len = y
    BY <1>1, <1>2, <1>7, <1>8 DEF Inserts
  <2> QED
    BY <1>2, <1>8, <2>1, <2>2 DEF StillOwns, RowStays
<1>9. OwnValid'
  <2>1. \A s \in live' : StillOwns(s)
    BY <1>2, <1>6, <1>8
  <2> QED
    BY <1>3, <2>1, OwnKept DEF KVInv
<1>10. ASSUME ~finished, c.freed = <<>>, RowOfHandle(r) PROVE RowOfHandle(r)'
  <2> PICK w : w = req[r].table_idx
    OBVIOUS
  <2> PICK ids : ids = req[r].ids
    OBVIOUS
  <2>1. ASSUME NEW k \in 0..(d - 1)
        PROVE  page_table[w][k] = c.cache[SubSeq(ids, 1, PageSize * (k + 1))].page
    <3> PICK x : x = k + 1
      OBVIOUS
    <3>1. x \in 1..d /\ k \in Nat /\ k = x - 1
      OBVIOUS
    <3>2. CASE x <= b
      <4>1. k \in 0..(a - 1)
        BY <1>1, <1>10, <3>1, <3>2
      <4>2. (PageSize * a) \div PageSize = a /\ req[r].handle_len = PageSize * a
        BY <1>1, <1>7, PageArithmetic DEF Inserts
      <4>3. page_table[w][k] = cache[SubSeq(ids, 1, PageSize * x)].page
        BY <1>10, <4>1, <4>2 DEF RowOfHandle
      <4>4. SubSeq(ids, 1, PageSize * x) \in DOMAIN cache
        BY <1>1, <1>7, <3>1, <3>2 DEF Inserts
      <4> QED
        BY <1>2, <1>5, <4>3, <4>4
    <3>3. CASE ~(x <= b)
      <4>1. x > b
        BY <1>1, <3>1, <3>3
      <4> QED
        BY <1>1, <1>7, <3>1, <4>1 DEF Inserts
    <3> QED
      BY <3>2, <3>3
  <2>2. req'[r].handle_len \div PageSize = d
    <3>1. req'[r].handle_len = PageSize * d
      BY <1>1, <1>2, <1>10 DEF Inserts
    <3> QED
      BY <1>1, <3>1, PageArithmetic
  <2> QED
    BY <1>2, <1>10, <2>1, <2>2 DEF RowOfHandle
<1> QED
  BY <1>2, <1>4, <1>5, <1>6, <1>9, <1>10 DEF KVInv

(* So it is for an abort and a finish, which leave the others alone, ... *)
LEMMA AbortKV ==
    ASSUME Inv, ObjectInv, RefInv, HandleInv, KVInv, kv' = kv, NEW r \in Req, ReceiveAbort(r)
    PROVE  KVInv' /\ KeepsSharing
<1>1. phase = "receive" /\ req' = req
  BY DEF ReceiveAbort
<1>2. CASE UNCHANGED <<pool_vars, live>>
  <2>1. UNCHANGED <<kv, live, req, page_table, cache>>
    BY <1>1, <1>2 DEF pool_vars
  <2> QED
    BY <2>1, QuietKV
<1>3. CASE /\ FreeNow(r) /\ CacheReq(cache, req[r], TRUE).ok
           /\ \/ Contains(pending_list, r) /\ Continuing(r)
              \/ r \in running_reqs
  <2> PICK q : q = req[r]
    OBVIOUS
  <2> PICK over : over = TRUE
    OBVIOUS
  <2> PICK c : c = CacheReq(cache, q, over)
    OBVIOUS
  <2>1. r \in live
    BY <1>1, <1>3, AbortedHoldsRow
  <2>2. /\ phase' = "receive" /\ free_slots' = free_slots \o c.freed
        /\ lazy_free_list' = lazy_free_list /\ cache' = c.cache /\ page_table' = page_table
        /\ live' = live \ {r}
    BY <1>1, <1>3 DEF FreeNow
  <2>3. ObjectOf(r, q)
    BY DEF ObjectInv, WellFormed, ObjectOf
  <2>4. over \in BOOLEAN
    OBVIOUS
  <2>5. \A s \in live : s # r => req'[s] = req[s]
    BY <1>1
  <2>6. Releases(r, c, over)
    BY <1>1, <2>2, <2>5 DEF Releases
  <2>7. /\ KVInv'
        /\ \A p \in DOMAIN cache : p \in DOMAIN cache' => cache'[p].page = cache[p].page
        /\ \A s \in live' : s # r => StillShares(s)
    BY <2>1, <2>3, <2>4, <2>6, ReleasedKV
  <2> QED
    BY <2>2, <2>7 DEF KeepsSharing
<1> QED
  BY <1>2, <1>3 DEF ReceiveAbort, FreeNow

(* Pages a request gives to the cache keep what they hold. *)
LEMMA FinishedKV ==
    ASSUME Inv, FlightInv, ObjectInv, RefInv, HandleInv, KVInv, kv' = kv,
           ProcessFinished \/ ProcessPrefilled
    PROVE  /\ KVInv'
           /\ NoDuplicates /\ HandleRows => KeepsSharing
<1> PICK r : r = Work.reqs[next].uid
  OBVIOUS
<1> PICK q : q = Appended(req[r])
  OBVIOUS
<1>1. r \in Req /\ r \in live /\ phase = "process" /\ phase' = "process" /\ page_table' = page_table
  BY ProcessedEntry, ProcessedHoldsRow
     DEF ProcessFinished, ProcessPrefilled, InProcess, pool_vars, Inv, QueueTypes
<1>2. /\ DOMAIN req = Req /\ DOMAIN req[r] = Fields /\ \A s \in live : s \in Req
  BY <1>1 DEF Inv, ObjectTypes, QueueTypes
<1>3. /\ q.host_len = req[r].host_len + 1 /\ q.ids = req[r].ids
      /\ q.cached_len = req[r].cached_len /\ q.device_len = req[r].device_len
      /\ q.handle_len = req[r].handle_len /\ q.table_idx = req[r].table_idx
      /\ DOMAIN q = Fields
  BY <1>2 DEF Appended, Fields
<1>4. WellFormed(req[r], Prompt[r]) /\ req[r].host_len \in Nat
  BY <1>1 DEF ObjectInv, WellFormed
<1>5. WellFormed(q, Prompt[r]) /\ q.host_len >= req[r].host_len
  <2>1. WellFormed(q, Prompt[r])
    BY ONLY <1>2, <1>4, q = Appended(req[r]), AppendedIsWellFormed
  <2> QED
    BY ONLY <1>3, <1>4, <2>1
<1>6. ObjectOf(r, q)
  BY <1>3, <1>5 DEF ObjectOf
<1>7. \A s \in live : s # r => req'[s] = req[s]
  BY <1>2, ObjectProcessed
<1>8. CASE ProcessFinished
  <2> PICK over : over = TRUE
    OBVIOUS
  <2> PICK c : c = CacheReq(cache, q, over)
    OBVIOUS
  <2>1. /\ live' = live \ {r} /\ cache' = c.cache
        /\ lazy_free_list' = lazy_free_list \o c.freed /\ free_slots' = free_slots
    BY <1>8 DEF ProcessFinished, Deliver
  <2>2. over \in BOOLEAN
    OBVIOUS
  <2>3. Releases(r, c, over)
    BY <1>1, <1>7, <2>1 DEF Releases
  <2>4. /\ KVInv'
        /\ \A p \in DOMAIN cache : p \in DOMAIN cache' => cache'[p].page = cache[p].page
        /\ \A s \in live' : s # r => StillShares(s)
    BY <1>1, <1>6, <2>2, <2>3, ReleasedKV
  <2> QED
    BY <2>1, <2>4 DEF KeepsSharing
<1>9. CASE ProcessPrefilled
  <2> PICK over : over = FALSE
    OBVIOUS
  <2> PICK c : c = CacheReq(cache, q, over)
    OBVIOUS
  <2>1. /\ req' = [req EXCEPT ![r] = [q EXCEPT !.handle_len = c.handle_len]] /\ live' = live
        /\ cache' = c.cache
        /\ lazy_free_list' = lazy_free_list \o c.freed /\ free_slots' = free_slots
    BY <1>9 DEF ProcessPrefilled
  <2>2. /\ req'[r].handle_len = c.handle_len /\ req'[r].ids = q.ids
        /\ req'[r].cached_len = q.cached_len /\ req'[r].table_idx = q.table_idx
    BY <1>1, <1>2, <1>3, <2>1 DEF Fields
  <2>3. over \in BOOLEAN /\ ~over
    OBVIOUS
  <2>4. Releases(r, c, over) /\ req'[r].ids = req[r].ids
    BY <1>1, <1>3, <1>7, <2>1, <2>2 DEF Releases
  <2>5. /\ KVInv'
        /\ \A p \in DOMAIN cache : p \in DOMAIN cache' => cache'[p].page = cache[p].page
        /\ \A s \in live' : s # r => StillShares(s)
        /\ c.freed = <<>> /\ RowOfHandle(r) => RowOfHandle(r)'
    BY <1>1, <1>6, <2>3, <2>4, ReleasedKV
  <2>6. NoDuplicates => c.freed = <<>>
    BY <1>9 DEF NoDuplicates
  <2>7. HandleRows => RowOfHandle(r)
    BY <1>1 DEF HandleRows
  <2> QED
    BY <2>5, <2>6, <2>7 DEF KeepsSharing
<1> QED
  BY <1>8, <1>9

(* Every step keeps what is computed, and what is shared unless it frees a page in use. *)
LEMMA KVStep ==
    ASSUME CacheInv, RowsOwned, PageInv, KVInv, [Next]_vars
    PROVE  /\ KVInv'
           /\ NoDuplicates /\ HandleRows => KeepsSharing
<1> USE DEF CacheInv, PageInv
<1>1. CASE UNCHANGED vars
  <2>1. UNCHANGED <<kv, live, req, page_table, cache>>
    BY <1>1 DEF vars, queue_vars, pool_vars, ghost_vars
  <2> QED
    BY <2>1, QuietKV
<1>2. CASE Forward
  <2>1. KVInv' /\ \A r \in live' : StillShares(r)
    BY <1>2, ForwardKV
  <2>2. cache' = cache
    BY <1>2 DEF Forward, pool_vars
  <2> QED
    BY <2>1, <2>2 DEF KeepsSharing
<1>3. SUFFICES ASSUME Receive \/ Loop, kv' = kv, ~Forward
               PROVE  /\ KVInv'
                      /\ NoDuplicates /\ HandleRows => KeepsSharing
  BY <1>1, <1>2, PoolWrites DEF Next
<1>4. CASE QuietStep \/ EndIteration
  <2>1. UNCHANGED <<kv, live, req, page_table, cache>>
    BY <1>3, <1>4 DEF QuietStep, EndIteration, pool_vars, ghost_vars
  <2> QED
    BY <2>1, QuietKV
<1>5. ASSUME NEW r \in Req, ReceiveAbort(r)
      PROVE  KVInv' /\ KeepsSharing
  BY <1>3, <1>5, AbortKV
<1>6. CASE AdmitChunk
  BY <1>3, <1>6, AdmitChunkKV
<1>7. CASE AdmitNew
  BY <1>3, <1>7, AdmitNewKV
<1>8. CASE AllocateFree \/ AllocateEvict
  BY <1>3, <1>8, AllocateKV
<1>9. CASE ProcessFinished \/ ProcessPrefilled
  BY <1>3, <1>9, FinishedKV
<1>10. CASE ProcessDecoded
  BY <1>3, <1>10, DecodedKV
<1> QED
  BY <1>3, <1>4, <1>5, <1>6, <1>7, <1>8, <1>9, <1>10, QuietStepIs
     DEF Receive, Loop, Admit, Allocate, Process

(* Without duplicates the rows keep naming the cached pages. *)
LEMMA HandleStep ==
    ASSUME CacheInv, CacheInv', RowsOwned, PageInv, KVInv, HandleRows, NoDuplicates, [Next]_vars
    PROVE  HandleRows'
<1>1. KeepsSharing
  BY KVStep
<1>2. live \subseteq Req /\ live' \subseteq Req
  BY DEF CacheInv, Inv, QueueTypes
<1> QED
  BY <1>1, <1>2, HandleKept DEF KeepsSharing, CacheInv

(* Without a request nothing is computed and nothing cached. *)
LEMMA InitKV ==
    ASSUME Init
    PROVE  KVInv /\ HandleRows
BY DEF Init, KVInv, OwnValid, CacheValid, HandleRows

(* The naive cache has no prefix that a page could be a duplicate for. *)
LEMMA NaiveFreesNothing ==
    ASSUME CacheInv, PageInv, cache_type # "radix", ~NoDuplicates
    PROVE  FALSE
<1> USE DEF CacheInv, PageInv
<1> PICK r : r = Work.reqs[next].uid
  OBVIOUS
<1> PICK q : q = Appended(req[r])
  OBVIOUS
<1> PICK over : over = FALSE
  OBVIOUS
<1> PICK c : c = CacheReq(cache, q, over)
  OBVIOUS
<1>1. ProcessPrefilled /\ c.freed # <<>>
  BY DEF NoDuplicates
<1>2. r \in live /\ r \in Req
  BY <1>1, ProcessedHoldsRow DEF Inv, QueueTypes
<1>3. DOMAIN req[r] = Fields /\ WellFormed(req[r], Prompt[r]) /\ req[r].host_len \in Nat
  BY <1>2 DEF Inv, ObjectTypes, ObjectInv, WellFormed
<1>4. /\ q.host_len = req[r].host_len + 1 /\ q.ids = req[r].ids
      /\ q.cached_len = req[r].cached_len /\ q.handle_len = req[r].handle_len
      /\ q.table_idx = req[r].table_idx
  BY <1>3 DEF Appended, Fields
<1>5. WellFormed(q, Prompt[r]) /\ q.host_len >= req[r].host_len
  <2>1. WellFormed(q, Prompt[r])
    BY ONLY <1>3, q = Appended(req[r]), AppendedIsWellFormed
  <2> QED
    BY ONLY <1>3, <1>4, <2>1
<1>6. PICK a, b, d, e \in Nat :
         /\ a <= b /\ b <= d /\ q.handle_len \div PageSize = a
         /\ Len(Longest(cache, InsertedIds(q))) \div PageSize = b
         /\ InsertLen(InsertedIds(q)) = PageSize * d
  <2>1. \E a, b, d, e \in Nat :
           /\ a <= b /\ b <= d /\ d <= e
           /\ q.handle_len \div PageSize = a /\ DivCeil(q.cached_len) = e
           /\ Len(Longest(cache, InsertedIds(q))) \div PageSize = b
           /\ InsertLen(InsertedIds(q)) = PageSize * d
           /\ InsertLen(InsertedIds(q)) <= q.host_len
           /\ d <= Len(InsertedIds(q)) \div PageSize
           /\ \A x \in 1..d : SubSeq(InsertedIds(q), 1, PageSize * x) \in DOMAIN cache <=> x <= b
    BY <1>2, <1>4, <1>5, CacheReqLengths
  <2> QED
    BY <2>1
<1>7. d = 0
  <2>1. InsertLen(InsertedIds(q)) = 0
    BY DEF InsertLen
  <2>2. PageSize \in Nat \ {0} /\ (PageSize * d) \div PageSize = d
    BY PageSizeAssumption, PageArithmetic
  <2>3. 0 \div PageSize = 0
    BY <2>2
  <2> QED
    BY <1>6, <2>1, <2>2, <2>3
<1>8. a = b
  BY <1>6, <1>7
<1>9. c.freed = RowSlice(q, a, a) \o <<>>
  <2>1. c.freed = Duplicates(q, Len(Longest(cache, InsertedIds(q))))
                    \o Leftover(q, InsertLen(InsertedIds(q)), over)
    BY DEF CacheReq, InsertedIds
  <2>2. Leftover(q, InsertLen(InsertedIds(q)), over) = <<>>
    BY DEF Leftover
  <2>3. Duplicates(q, Len(Longest(cache, InsertedIds(q)))) = RowSlice(q, a, a)
    BY <1>6, <1>8 DEF Duplicates
  <2> QED
    BY <2>1, <2>2, <2>3
<1>10. RowSlice(q, a, a) = <<>>
  BY DEF RowSlice
<1> QED
  BY <1>1, <1>9, <1>10

-----------------------------------------------------------------------------
(* The theorems *)

(* What pages hold, always. *)
LEMMA KVInvariance ==
    ASSUME NoAbortInFlight
    PROVE  Spec => []KVInv
<1>1. Spec => [](CacheInv /\ RowsOwned /\ PageInv)
  BY PageInvariance
<1>2. Init => KVInv
  BY InitKV
<1>3. CacheInv /\ RowsOwned /\ PageInv /\ KVInv /\ [Next]_vars => KVInv'
  BY KVStep
<1> QED
  BY <1>1, <1>2, <1>3, PTL DEF Spec

(* The page of a cached prefix always holds the KV of exactly that prefix,   *)
(* so that a request whose prompt matches it is given its own context.       *)
THEOREM CachedPagesHoldTheirPrefix ==
    ASSUME NoAbortInFlight
    PROVE  Spec => []CacheValid
<1>1. Spec => []KVInv
  BY KVInvariance
<1>2. KVInv => CacheValid
  BY DEF KVInv
<1> QED
  BY <1>1, <1>2, PTL

(* As long as cache_req finds no duplicate when a prompt is computed, every  *)
(* request finds the KV of exactly its own tokens through its row: nothing   *)
(* else overwrites, evicts or reallocates a page that somebody reads.        *)
THEOREM OnlyDuplicatesSpoilRows ==
    ASSUME NoAbortInFlight
    PROVE  Spec /\ [][NoDuplicates]_vars => []RowsValid
<1>1. Spec => [](CacheInv /\ RowsOwned /\ PageInv)
  BY PageInvariance
<1>2. Spec => []KVInv
  BY KVInvariance
<1>3. Init => HandleRows
  BY InitKV
<1>4. /\ CacheInv /\ CacheInv' /\ RowsOwned /\ PageInv /\ KVInv /\ HandleRows
      /\ [Next]_vars /\ [NoDuplicates]_vars
      => HandleRows'
  <2>1. CASE UNCHANGED vars
    BY <2>1 DEF vars, queue_vars, pool_vars, ghost_vars, HandleRows, RowOfHandle
  <2>2. CASE NoDuplicates
    BY <2>2, HandleStep
  <2> QED
    BY <2>1, <2>2
<1>5. CacheInv /\ PageInv /\ KVInv /\ HandleRows => RowsValid
  BY RowsFollow DEF CacheInv, PageInv, Inv, QueueTypes
<1> QED
  BY <1>1, <1>2, <1>3, <1>4, <1>5, PTL DEF Spec

(* With the naive cache there are no duplicates, and every request always    *)
(* finds the KV of exactly its own tokens through its row.                   *)
THEOREM NaiveRowsAreValid ==
    ASSUME NoAbortInFlight, "radix" \notin CacheTypes
    PROVE  Spec => []RowsValid
<1>1. Spec => [](CacheInv /\ RowsOwned /\ PageInv)
  BY PageInvariance
<1>2. Init => cache_type # "radix"
  BY DEF Init
<1>3. cache_type # "radix" /\ [Next]_vars => (cache_type # "radix")'
  BY DEF Next, vars
<1>4. CacheInv /\ PageInv /\ cache_type # "radix" => NoDuplicates
  BY NaiveFreesNothing
<1>5. Spec /\ [][NoDuplicates]_vars => []RowsValid
  BY OnlyDuplicatesSpoilRows
<1> QED
  BY <1>1, <1>2, <1>3, <1>4, <1>5, PTL DEF Spec

-----------------------------------------------------------------------------
(***************************************************************************)
(* Enough pages.  With pages of one token, what an admission reserves is   *)
(* enough for every batch that is chosen (ReservationHolds), so that no    *)
(* allocation fails (NoAssertionFails).  With larger pages it is not: see  *)
(* FindOvercommit.  First, the sums that admission takes as the sizes of   *)
(* sets of pairs, and what a step does to the pages that can be had.       *)
(***************************************************************************)

(* InflightTokens counts what the running requests may still extend by. *)
LEMMA InflightCount ==
    ASSUME IsFiniteSet(running_reqs),
           NEW E, \A r \in running_reqs : IsFiniteSet(E[r]) /\ Cardinality(E[r]) = RemainLen(req[r])
    PROVE  MapThenSumSet(LAMBDA r : RemainLen(req[r]), running_reqs)
            = Cardinality(Pairs(running_reqs, E))
<1> DEFINE Body(it) ==
        [s \in SUBSET running_reqs |->
            IF s = {} THEN 0
            ELSE RemainLen(req[CHOOSE x \in s : TRUE]) + it[s \ {CHOOSE x \in s : TRUE}]]
<1> DEFINE sum == CHOOSE it : it = Body(it)
<1>1. MapThenSumSet(LAMBDA r : RemainLen(req[r]), running_reqs) = sum[running_reqs]
  BY DEF MapThenSumSet, MapThenFoldSet
<1>2. ASSUME NEW it
      PROVE  it = Body(it) <=> Recurs(it, running_reqs, E)
  <2>1. ASSUME NEW s \in SUBSET running_reqs, s # {}
        PROVE  RemainLen(req[CHOOSE x \in s : TRUE]) = Cardinality(E[CHOOSE x \in s : TRUE])
    <3>1. (CHOOSE x \in s : TRUE) \in running_reqs
      BY <2>1
    <3> QED
      BY <3>1
  <2>2. Body(it) = [s \in SUBSET running_reqs |->
            IF s = {} THEN 0
            ELSE Cardinality(E[CHOOSE x \in s : TRUE]) + it[s \ {CHOOSE x \in s : TRUE}]]
    BY <2>1
  <2> QED
    BY <2>2 DEF Recurs
<1>3. \E it : it = Body(it)
  BY <1>2, PairsRecur
<1>4. sum = Body(sum)
  <2> HIDE DEF Body
  <2> QED
    BY <1>3, Zenon
<1>5. Recurs(sum, running_reqs, E)
  BY <1>2, <1>4
<1> HIDE DEF sum
<1> QED
  BY <1>1, <1>5, RecurrenceIsCount

(* The same for the request that is partly prefilled. *)
LEMMA ContinuingCount ==
    ASSUME NEW C, C = {r \in ToSet(pending_list) : Continuing(r)}, IsFiniteSet(C),
           NEW E, \A r \in C : /\ IsFiniteSet(E[r])
                               /\ Cardinality(E[r]) = Len(Prompt[r]) - req[r].cached_len + OutputLen(r)
    PROVE  ContinuingTokens = Cardinality(Pairs(C, E))
<1> DEFINE S == {r \in ToSet(pending_list) : Continuing(r)}
<1> DEFINE Size(r) == Len(Prompt[r]) - req[r].cached_len + OutputLen(r)
<1> DEFINE Body(it) ==
        [s \in SUBSET S |->
            IF s = {} THEN 0
            ELSE Size(CHOOSE x \in s : TRUE) + it[s \ {CHOOSE x \in s : TRUE}]]
<1> DEFINE sum == CHOOSE it : it = Body(it)
<1>1. ContinuingTokens = sum[S]
  BY DEF ContinuingTokens, MapThenSumSet, MapThenFoldSet
<1>0. S = C
  OBVIOUS
<1> HIDE DEF S
<1>2. ASSUME NEW it
      PROVE  it = Body(it) <=> Recurs(it, S, E)
  <2>1. ASSUME NEW s \in SUBSET S, s # {}
        PROVE  Size(CHOOSE x \in s : TRUE) = Cardinality(E[CHOOSE x \in s : TRUE])
    <3>1. (CHOOSE x \in s : TRUE) \in S
      BY <2>1
    <3> QED
      BY <1>0, <3>1
  <2> HIDE DEF Size
  <2>2. Body(it) = [s \in SUBSET S |->
            IF s = {} THEN 0
            ELSE Cardinality(E[CHOOSE x \in s : TRUE]) + it[s \ {CHOOSE x \in s : TRUE}]]
    BY <2>1
  <2> QED
    BY <2>2 DEF Recurs
<1>3. \E it : it = Body(it)
  <2>1. IsFiniteSet(S) /\ \A r \in S : IsFiniteSet(E[r])
    BY <1>0
  <2>2. Recurs([s \in SUBSET S |-> Cardinality(Pairs(s, E))], S, E)
    BY ONLY <2>1, PairsRecur
  <2> HIDE DEF Body
  <2> QED
    BY <1>2, <2>2
<1>4. sum = Body(sum)
  <2> HIDE DEF Body
  <2> QED
    BY <1>3, Zenon
<1>5. Recurs(sum, S, E)
  BY <1>2, <1>4
<1> HIDE DEF sum
<1>6. sum[S] = Cardinality(Pairs(S, E))
  BY <1>0, <1>5, RecurrenceIsCount
<1> QED
  BY <1>0, <1>1, <1>6

-----------------------------------------------------------------------------
(* What is free, and what can be made free *)

(* The pages a request can be given, now or when the lazy_free_region ends. *)
FreePages == Cardinality(Evictable(cache)) + Len(free_slots) + Len(lazy_free_list)

(* How much there is of it, as whole numbers. *)
LEMMA FreeTypes ==
    ASSUME TableInv
    PROVE  /\ IsFiniteSet(Evictable(cache)) /\ Cardinality(Evictable(cache)) \in Nat
           /\ Len(free_slots) \in Nat /\ Len(lazy_free_list) \in Nat /\ FreePages \in Nat
<1>1. IsFiniteSet(DOMAIN cache) /\ Evictable(cache) \in SUBSET DOMAIN cache
  BY DEF TableInv, Evictable
<1>2. IsFiniteSet(Evictable(cache)) /\ Cardinality(Evictable(cache)) \in Nat
  BY <1>1, FS_Subset, FS_CardinalityType
<1>3. Len(free_slots) \in Nat /\ Len(lazy_free_list) \in Nat
  BY DEF TableInv
<1> QED
  BY <1>2, <1>3 DEF FreePages

(* The same after a step. *)
LEMMA FreeTypesAfter ==
    ASSUME TableInv'
    PROVE  FreePages' \in Nat
<1>1. IsFiniteSet(DOMAIN cache') /\ Evictable(cache') \in SUBSET DOMAIN cache'
  BY DEF TableInv, Evictable
<1>2. Cardinality(Evictable(cache')) \in Nat
  BY <1>1, FS_Subset, FS_CardinalityType
<1>3. Len(free_slots') \in Nat /\ Len(lazy_free_list') \in Nat
  BY DEF TableInv
<1> QED
  BY <1>2, <1>3 DEF FreePages

(* The page prefixes of the first n pages. *)
LEMMA PrefixesOfPages ==
    ASSUME NEW S, NEW ids \in Seq(S), NEW n \in Nat, PageSize * n <= Len(ids)
    PROVE  PagePrefixes(SubSeq(ids, 1, PageSize * n)) = {SubSeq(ids, 1, PageSize * x) : x \in 1..n}
<1>0. Len(ids) \in Nat /\ ids \in Seq(S)
  OBVIOUS
<1>1. CASE n = 0
  <2>1. PageSize * n = 0 /\ 1..n = {}
    BY <1>1, PageSizeAssumption
  <2>2. SubSeq(ids, 1, PageSize * n) = <<>>
    BY <2>1
  <2> QED
    BY <2>1, <2>2, NoPagePrefix
<1>2. CASE n # 0
  <2>1. n <= Len(ids) \div PageSize
    BY <1>0, PageArithmetic
  <2>2. n \in 1..(Len(ids) \div PageSize)
    BY <1>0, <1>2, <2>1, PageArithmetic
  <2> QED
    <3> DEFINE Pages == {SubSeq(ids, 1, PageSize * m) : m \in 1..n}
    <3>1. \A p : p = SubSeq(ids, 1, PageSize * n) => PagePrefixes(p) = Pages
      BY <1>0, <2>2, PagePrefixOfPages, ZenonT(60)
    <3> HIDE DEF Pages
    <3>2. PagePrefixes(SubSeq(ids, 1, PageSize * n)) = Pages
      BY <3>1
    <3> QED
      BY <3>2 DEF Pages
<1> QED
  BY <1>1, <1>2

(* A prefix that can be evicted is in no handle. *)
LEMMA EvictableUnheld ==
    ASSUME Inv, RefCountsExact, NEW r \in live, NEW p \in Evictable(cache)
    PROVE  p \notin PagePrefixes(HandleOf(req[r])) /\ RefCountIn(cache, p) = 0 /\ p \in DOMAIN cache
<1>1. p \in DOMAIN cache /\ RefCountIn(cache, p) = 0
  BY DEF Evictable, RefCountIn
<1>2. IsFiniteSet(Holders(p)) /\ Cardinality(Holders(p)) = 0
  BY <1>1, LocksAreHeld
<1>3. Holders(p) = {}
  BY <1>2, FS_EmptySet
<1> QED
  BY <1>1, <1>3 DEF Holders

(* When a request is over, what could be evicted still can. *)
LEMMA FinishedFrees ==
    ASSUME Inv, ObjectInv, RefInv, HandleInv, NEW r \in live,
           NEW q, ObjectOf(r, q), HandleOf(q) = HandleOf(req[r]),
           NEW c, c = CacheReq(cache, q, TRUE)
    PROVE  /\ Evictable(cache) \subseteq Evictable(c.cache)
           /\ IsFiniteSet(DOMAIN cache) => IsFiniteSet(DOMAIN c.cache)
           /\ Len(c.freed) \in Nat
<1> PICK cc : cc = c.cache
  OBVIOUS
<1>1. WellFormed(q, Prompt[r])
  BY DEF ObjectOf
<1>2. ASSUME NEW p \in Evictable(cache)
      PROVE  p \in Evictable(c.cache)
  <2>1. p \notin PagePrefixes(HandleOf(q)) /\ RefCountIn(cache, p) = 0 /\ p \in DOMAIN cache
    BY EvictableUnheld DEF RefInv
  <2>2. p \in DOMAIN cc /\ cc[p].ref_count = 0 - 0 + 0
    BY <1>1, <2>1, CacheReqEffect
  <2>3. p \in DOMAIN cc /\ cc[p].ref_count = 0
    BY ONLY <2>2
  <2> QED
    BY ONLY <2>3, cc = c.cache DEF Evictable
<1>3. PICK a, b, d \in Nat :
         Inserts(q, c, a, b, d) /\ Len(c.freed) \in Nat /\ Len(c.freed) >= b - a
  BY Inserted
<1>4. ASSUME IsFiniteSet(DOMAIN cache)
      PROVE  IsFiniteSet(DOMAIN c.cache)
  <2> DEFINE T == {SubSeq(q.ids, 1, PageSize * x) : x \in 1..d}
  <2>1. IsFiniteSet(1..d)
    BY FS_Interval
  <2> PICK f : f = [x \in 1..d |-> SubSeq(q.ids, 1, PageSize * x)]
    OBVIOUS
  <2>2. IsFiniteSet(T)
    <3>1. f = [x \in 1..d |-> f[x]] /\ T = {f[x] : x \in 1..d}
      OBVIOUS
    <3> HIDE DEF T
    <3> QED
      BY ONLY <2>1, <3>1, ImageCount
  <2>3. DOMAIN c.cache = DOMAIN cache \cup T
    BY <1>3 DEF Inserts
  <2> HIDE DEF T
  <2> QED
    BY <1>4, <2>2, <2>3, UnionCount
<1> QED
  BY <1>2, <1>3, <1>4

(* When its prompt is computed, what it newly locks was cached before it came, *)
(* and as many pages of its own are freed.                                     *)
LEMMA PrefilledFrees ==
    ASSUME Inv, ObjectInv, RefInv, HandleInv, TableInv, NEW r \in live,
           NEW q, ObjectOf(r, q), HandleOf(q) = HandleOf(req[r]),
           NEW c, c = CacheReq(cache, q, FALSE)
    PROVE  /\ IsFiniteSet(DOMAIN c.cache) /\ Len(c.freed) \in Nat
           /\ Cardinality(Evictable(c.cache)) \in Nat
           /\ Cardinality(Evictable(cache)) <= Cardinality(Evictable(c.cache)) + Len(c.freed)
<1> PICK cc : cc = c.cache
  OBVIOUS
<1> PICK ids : ids = q.ids
  OBVIOUS
<1>1. WellFormed(q, Prompt[r])
  BY DEF ObjectOf
<1>2. PICK a, b, d \in Nat :
         Inserts(q, c, a, b, d) /\ Len(c.freed) \in Nat /\ Len(c.freed) >= b - a
  BY Inserted
<1>3. /\ a <= b /\ b <= d /\ q.handle_len = PageSize * a /\ c.handle_len = PageSize * d
      /\ c.handle_len <= q.cached_len
      /\ \A x \in 1..d : SubSeq(ids, 1, PageSize * x) \in DOMAIN cache <=> x <= b
      /\ DOMAIN cc = DOMAIN cache \cup {SubSeq(ids, 1, PageSize * x) : x \in 1..d}
  BY <1>2 DEF Inserts
<1>4. ids \in Seq(Nat) /\ PageSize * a <= Len(ids) /\ PageSize * d <= Len(ids)
  <2>1. /\ ids \in Seq(Nat) /\ q.handle_len \in Nat /\ q.cached_len \in Nat
        /\ q.handle_len <= q.cached_len /\ q.cached_len <= Len(ids)
    BY <1>1 DEF WellFormed
  <2>2. PageSize * d \in Nat /\ Len(ids) \in Nat
    <3>1. Len(ids) \in Nat
      BY <2>1
    <3>2. PageSize * d \in Nat
      BY ONLY d \in Nat, PageSizeAssumption
    <3> QED
      BY <3>1, <3>2
  <2> PICK l : l = Len(ids)
    OBVIOUS
  <2> PICK m : m = PageSize * d
    OBVIOUS
  <2> PICK k : k = PageSize * a
    OBVIOUS
  <2>3. k = q.handle_len /\ m = c.handle_len /\ m <= q.cached_len
    BY <1>3
  <2>4. k <= l /\ m <= l
    BY ONLY <2>1, <2>2, <2>3, l = Len(ids), m = PageSize * d
  <2> QED
    BY <2>1, <2>4
<1>5. /\ PagePrefixes(HandleOf(q)) = {SubSeq(ids, 1, PageSize * x) : x \in 1..a}
      /\ PagePrefixes(SubSeq(ids, 1, c.handle_len)) = {SubSeq(ids, 1, PageSize * x) : x \in 1..d}
  <2> DEFINE Pages(k) == {SubSeq(ids, 1, PageSize * x) : x \in 1..k}
  <2>1. ASSUME NEW k \in Nat, PageSize * k <= Len(ids)
        PROVE  PagePrefixes(SubSeq(ids, 1, PageSize * k)) = Pages(k)
    BY <1>4, <2>1, PrefixesOfPages
  <2> HIDE DEF Pages
  <2>2. /\ PagePrefixes(SubSeq(ids, 1, PageSize * a)) = Pages(a)
        /\ PagePrefixes(SubSeq(ids, 1, PageSize * d)) = Pages(d)
    BY <1>4, <2>1
  <2>3. HandleOf(q) = SubSeq(ids, 1, PageSize * a)
    BY <1>3 DEF HandleOf
  <2> QED
    BY <1>3, <2>2, <2>3 DEF Pages
<1> DEFINE T == {SubSeq(ids, 1, PageSize * x) : x \in (a + 1)..b}
<1>6. ASSUME NEW p \in Evictable(cache), p \notin T
      PROVE  p \in Evictable(cc)
  <2>1. p \notin PagePrefixes(HandleOf(q)) /\ RefCountIn(cache, p) = 0 /\ p \in DOMAIN cache
    BY EvictableUnheld DEF RefInv
  <2>2. ASSUME NEW x \in 1..d
        PROVE  p # SubSeq(ids, 1, PageSize * x)
    <3>1. SUFFICES ASSUME p = SubSeq(ids, 1, PageSize * x) PROVE FALSE
      OBVIOUS
    <3>2. x <= b
      BY <1>3, <2>1, <3>1
    <3>3. x \notin 1..a
      BY <1>5, <2>1, <3>1
    <3>4. x \in (a + 1)..b
      BY <3>2, <3>3
    <3> QED
      BY <1>6, <3>1, <3>4
  <2>3. p \notin PagePrefixes(SubSeq(q.ids, 1, c.handle_len))
    BY <1>5, <2>2
  <2>4. p \in DOMAIN cc /\ cc[p].ref_count = 0 - 0 + 0
    BY <1>1, <2>1, <2>3, CacheReqEffect
  <2>5. p \in DOMAIN cc /\ cc[p].ref_count = 0
    BY ONLY <2>4
  <2> QED
    BY ONLY <2>5 DEF Evictable
<1>7. IsFiniteSet(T) /\ Cardinality(T) \in Nat /\ Cardinality(T) <= b - a
  <2> DEFINE I == (a + 1)..b
  <2> PICK f : f = [x \in I |-> SubSeq(ids, 1, PageSize * x)]
    OBVIOUS
  <2>1. IsFiniteSet(I) /\ Cardinality(I) = b - a
    <3>1. /\ IsFiniteSet((a + 1)..b)
          /\ Cardinality((a + 1)..b) = IF a + 1 > b THEN 0 ELSE b - (a + 1) + 1
      BY FS_Interval
    <3> QED
      BY <1>3, <3>1
  <2>2. f = [x \in I |-> f[x]] /\ T = {f[x] : x \in I}
    OBVIOUS
  <2> HIDE DEF I, T
  <2> QED
    BY ONLY <2>1, <2>2, ImageCount
<1>8. IsFiniteSet(DOMAIN cc)
  <2> DEFINE U == {SubSeq(ids, 1, PageSize * x) : x \in 1..d}
  <2>1. IsFiniteSet(1..d)
    BY FS_Interval
  <2> PICK f : f = [x \in 1..d |-> SubSeq(q.ids, 1, PageSize * x)]
    OBVIOUS
  <2>2. IsFiniteSet(U)
    <3>1. f = [x \in 1..d |-> f[x]] /\ U = {f[x] : x \in 1..d}
      OBVIOUS
    <3> HIDE DEF U
    <3> QED
      BY ONLY <2>1, <3>1, ImageCount
  <2>3. DOMAIN cc = DOMAIN cache \cup U /\ IsFiniteSet(DOMAIN cache)
    BY <1>3 DEF TableInv
  <2> HIDE DEF U
  <2> QED
    BY <2>2, <2>3, UnionCount
<1>9. IsFiniteSet(Evictable(cc))
  BY <1>8, FS_Subset DEF Evictable
<1> HIDE DEF T
<1>10. /\ Cardinality(Evictable(cc)) \in Nat /\ Cardinality(Evictable(cache)) \in Nat
       /\ Cardinality(Evictable(cache)) <= Cardinality(Evictable(cc)) + Cardinality(T)
  <2>1. /\ IsFiniteSet(Evictable(cc) \cup T) /\ Cardinality(Evictable(cc) \cup T) \in Nat
        /\ Cardinality(Evictable(cc)) \in Nat
        /\ Cardinality(Evictable(cc) \cup T) <= Cardinality(Evictable(cc)) + Cardinality(T)
    BY <1>7, <1>9, UnionCount
  <2>2. Evictable(cache) \in SUBSET (Evictable(cc) \cup T)
    BY <1>6
  <2>3. Cardinality(Evictable(cache)) <= Cardinality(Evictable(cc) \cup T)
    BY <2>1, <2>2, FS_Subset
  <2>4. Cardinality(Evictable(cache)) \in Nat
    BY FreeTypes
  <2> QED
    BY ONLY <1>7, <2>1, <2>3, <2>4
<1> PICK n : n = Len(c.freed)
  OBVIOUS
<1> PICK e : e = Cardinality(Evictable(cc))
  OBVIOUS
<1>11. n \in Nat /\ n >= b - a
  BY <1>2
<1>12. Cardinality(Evictable(cache)) <= e + n
  BY ONLY <1>7, <1>10, <1>11, e = Cardinality(Evictable(cc)), a \in Nat, b \in Nat
<1> QED
  BY <1>8, <1>10, <1>11, <1>12

-----------------------------------------------------------------------------
(***************************************************************************)
(* What requests may still ask for.  A request that runs or is being       *)
(* prefilled asks for the positions from those it has pages for up to the  *)
(* last one it may compute; together they are never more than the pages    *)
(* that are free or can be evicted (Covered).  While a batch is chosen, no *)
(* more than reserved_size of them are asked by what runs and what was     *)
(* admitted (ReservedInv).                                                 *)
(***************************************************************************)

(* The length a request has in the end, its prompt and its answer. *)
Total(r) == Len(Prompt[r]) + OutputLen(r)

(* The last token sampled is never computed on. *)
AskEnd(r) == IF r \in running_reqs THEN Total(r) - 1 ELSE Total(r)

(* The positions a request can still be given pages for. *)
Asks == [r \in Req |-> Allocated(r)..(AskEnd(r) - 1)]

(* Who is being prefilled: waiting for the next chunk, or in the batch. *)
Prefilling ==
    (live \cap ToSet(pending_list))
        \cup (IF phase \in {"allocate", "forward"} /\ batch.phase = "prefill" THEN BatchUids ELSE {})

(* Who may ask. *)
Asking == running_reqs \cup Prefilling

(* Who was admitted to the batch under construction. *)
AddedUids == {adder.reqs[i].uid : i \in DOMAIN adder.reqs}

(* How far a request that runs has come, and one that is prefilled. *)
TotalsInv == \A r \in live : ~req[r].chunked => req[r].max_device_len = Total(r)

RunningInv ==
    \A r \in running_reqs :
        req[r].device_len = req[r].cached_len + 1 /\ req[r].device_len < Total(r)

(* No prompt is overrun while a batch is chosen, *)
AddedInv ==
    phase = "admit" =>
        \A i \in DOMAIN adder.reqs : req[adder.reqs[i].uid].device_len <= Len(Prompt[adder.reqs[i].uid])

(* nor by the batch that was chosen; one of decodes is of running requests. *)
ChosenInv ==
    phase \in {"allocate", "forward"} =>
        /\ batch.phase = "decode" => BatchUids \subseteq running_reqs
        /\ batch.phase # "decode" =>
              /\ batch.phase = "prefill"
              /\ \A i \in DOMAIN batch.reqs :
                    req[batch.reqs[i].uid].device_len <= Len(Prompt[batch.reqs[i].uid])

(* Pages are freed lazily only while a batch is processed. *)
LazyInv == phase \in {"receive", "admit", "allocate", "forward"} => lazy_free_list = <<>>

(* How lengths, limits and stages are related. *)
LengthInv == TotalsInv /\ RunningInv /\ AddedInv /\ ChosenInv /\ LazyInv

(* The lengths as whole numbers. *)
LEMMA TotalTypes ==
    ASSUME NEW r \in Req
    PROVE  /\ Len(Prompt[r]) \in Nat /\ Len(Prompt[r]) > 0
           /\ OutputLen(r) \in Int /\ Total(r) \in Int
           /\ MaxOutputLen(r) > 0 => OutputLen(r) > 0
<1>1. Prompt[r] \in Seq(Nat) /\ Prompt[r] # <<>>
  BY SchedulerAssumptions
<1>2. Len(Prompt[r]) \in Nat /\ Len(Prompt[r]) > 0
  BY <1>1, EmptySeq
<1>3. MaxTokens[r] \in Nat /\ MaxTokens[r] > 0 /\ MaxSeqLen \in Int
  <2>1. NumPages * PageSize \in Int
    BY SchedulerAssumptions, PageSizeAssumption
  <2> QED
    BY <2>1, SchedulerAssumptions
<1> QED
  BY <1>2, <1>3 DEF OutputLen, Total, MaxOutputLen

(* What an admission does to the request and to the reservation. *)
LEMMA AdmittedLengths ==
    ASSUME Inv, ObjectInv, RefInv, AdmitChunk \/ AdmitNew,
           NEW r, r = Candidate
    PROVE  /\ r \in Req /\ \A s \in Req : s # r => req'[s] = req[s]
           /\ adder'.reqs = Append(adder.reqs, [uid |-> r, chunked |-> req'[r].chunked])
           /\ req'[r].device_len <= Len(Prompt[r])
           /\ ~req'[r].chunked => req'[r].max_device_len = Total(r)
           /\ req'[r].cached_len \in Nat /\ req'[r].cached_len < Len(Prompt[r])
           /\ AdmitChunk => req'[r].cached_len = req[r].cached_len
           /\ AdmitNew => req'[r].cached_len = Len(MatchReq(cache, r))
           /\ adder'.reserved_size
                = adder.reserved_size + (Len(Prompt[r]) - req'[r].cached_len) + OutputLen(r)
<1>1. /\ adder.token_budget \in Int /\ adder.token_budget > 0
      /\ ObjectTypes /\ \A s \in Req : WellFormed(req[s], Prompt[s])
  BY AdmittedRequest DEF Inv, QueueTypes, ObjectInv
<1>2. r \in Req /\ \A s \in Req : s # r => req'[s] = req[s]
  BY ObjectAdmitted DEF RefInv
<1>3. \E row \in Row, n \in Nat : \E h :
         /\ n < Len(Prompt[r]) /\ AddOneReq(r, row, n, h)
         /\ AdmitChunk => n = req[r].cached_len
         /\ AdmitNew => n = Len(MatchReq(cache, r))
  <2>1. CASE AdmitChunk
    <3>1. /\ AddOneReq(r, req[r].table_idx, req[r].cached_len, req[r].handle_len)
          /\ req[r].chunked
      BY <2>1 DEF AdmitChunk, Continuing
    <3>2. req[r].cached_len \in Nat /\ req[r].cached_len < Len(Prompt[r])
      BY <1>1, <1>2, <3>1 DEF WellFormed
    <3>3. ~AdmitNew
      BY <2>1 DEF AdmitChunk, AdmitNew
    <3>4. req[r].table_idx \in Row
      BY <1>1, <1>2 DEF ObjectTypes
    <3> QED
      BY <3>1, <3>2, <3>3, <3>4
  <2>2. CASE AdmitNew
    <3> PICK n : n = Len(MatchReq(cache, r))
      OBVIOUS
    <3> PICK row : row = Last(row_slots)
      OBVIOUS
    <3>1. AddOneReq(r, row, n, n) /\ row_slots # <<>>
      BY <2>2 DEF AdmitNew, CanAllocate
    <3>2. n \in Nat /\ n < Len(Prompt[r])
      BY <1>2, MatchedPrefix DEF RefInv
    <3>3. ~AdmitChunk
      BY <2>2 DEF AdmitChunk, AdmitNew
    <3>4. row \in Row
      <4>1. row_slots \in Seq(Row) /\ Len(row_slots) \in Nat
        BY DEF Inv, QueueTypes
      <4>2. Len(row_slots) \in 1..Len(row_slots)
        BY <3>1, <4>1, EmptySeq
      <4> QED
        BY <4>1, <4>2 DEF Last
    <3> QED
      BY <3>1, <3>2, <3>3, <3>4
  <2> QED
    BY <2>1, <2>2
<1>4. PICK row, n, h :
         /\ row \in Row /\ n \in Nat
         /\ n < Len(Prompt[r]) /\ AddOneReq(r, row, n, h)
         /\ AdmitChunk => n = req[r].cached_len
         /\ AdmitNew => n = Len(MatchReq(cache, r))
  BY <1>3
<1> PICK q : q = req'[r]
  OBVIOUS
<1> PICK size : size = ChunkSize(Len(Prompt[r]) - n)
  OBVIOUS
<1> PICK p : p = Len(Prompt[r])
  OBVIOUS
<1>5. q.cached_len = n /\ q.device_len = n + size
  BY <1>1, <1>2, <1>4, AddedFields
<1>6. size \in Int /\ size <= p - n /\ p \in Nat
  <2>1. p - n \in Int /\ p \in Nat
    BY <1>2, <1>4, TotalTypes
  <2>2. size = IF adder.token_budget <= p - n THEN adder.token_budget ELSE p - n
    BY <1>1, <2>1, MinOfTwo DEF ChunkSize
  <2> QED
    BY ONLY <1>1, <2>1, <2>2
<1>7. q.device_len <= p
  BY ONLY <1>4, <1>5, <1>6
<1>8. Seen(q, r, FALSE)
  BY <1>1, <1>2, <1>4, AddedIsSeen
<1>9. adder'.reqs = Append(adder.reqs, [uid |-> r, chunked |-> q.chunked])
  BY <1>1, <1>2, <1>4, AddedRequest
<1>10. adder'.reserved_size = adder.reserved_size + (p - n) + OutputLen(r)
  BY <1>4 DEF AddOneReq
<1> QED
  BY <1>2, <1>4, <1>5, <1>7, <1>8, <1>9, <1>10 DEF Seen, Total

(* What a batch that ran did to the lengths. *)
LEMMA ForwardLengths ==
    ASSUME Inv, Forward
    PROVE  /\ phase = "forward" /\ phase' = "process"
           /\ UNCHANGED <<live, pending_list, batch, free_slots, lazy_free_list, cache, adder>>
           /\ BatchUids \subseteq live /\ running_reqs \subseteq live /\ live \subseteq Req
           /\ running_reqs' = {s \in running_reqs \cup BatchUids : CanDecode(req'[s])}
           /\ \A s \in live :
                 /\ req'[s].max_device_len = req[s].max_device_len /\ req'[s].chunked = req[s].chunked
                 /\ req'[s].cached_len = IF s \in BatchUids THEN req[s].device_len
                                         ELSE req[s].cached_len
                 /\ req'[s].device_len = IF s \in BatchUids THEN req[s].device_len + 1
                                         ELSE req[s].device_len
                 /\ req[s].device_len \in Int /\ req[s].cached_len \in Int
<1>1. PICK token :
         LET done == [s \in Req |->
                        IF s \notin BatchUids THEN req[s]
                        ELSE Completed(req[s], IF req[s].chunked THEN Eos ELSE token[s])]
         IN  /\ req' = done
             /\ running_reqs' = {s \in running_reqs \cup BatchUids : CanDecode(done[s])}
  BY DEF Forward
<1>2. /\ phase = "forward" /\ phase' = "process"
      /\ UNCHANGED <<live, pending_list, batch, free_slots, lazy_free_list, cache, adder>>
  BY DEF Forward, pool_vars
<1>3. running_reqs' = {s \in running_reqs \cup BatchUids : CanDecode(req'[s])}
  BY <1>1
<1>4. BatchUids \subseteq live /\ running_reqs \subseteq live /\ live \subseteq Req
  BY <1>2 DEF BatchUids, Inv, BatchInv, PlacesDisjoint, QueueTypes
<1>5. ASSUME NEW s \in live
      PROVE  /\ req'[s].max_device_len = req[s].max_device_len /\ req'[s].chunked = req[s].chunked
             /\ req'[s].cached_len = IF s \in BatchUids THEN req[s].device_len
                                     ELSE req[s].cached_len
             /\ req'[s].device_len = IF s \in BatchUids THEN req[s].device_len + 1
                                     ELSE req[s].device_len
             /\ req[s].device_len \in Int /\ req[s].cached_len \in Int
  <2>1. /\ s \in Req /\ DOMAIN req[s] = Fields
        /\ req[s].device_len \in Int /\ req[s].cached_len \in Int
    BY <1>4 DEF Inv, ObjectTypes
  <2>2. CASE s \in BatchUids
    <3>1. req'[s] = Completed(req[s], IF req[s].chunked THEN Eos ELSE token[s])
      BY <1>1, <2>1, <2>2
    <3> QED
      BY <2>1, <2>2, <3>1 DEF Completed, Fields
  <2>3. CASE s \notin BatchUids
    BY <1>1, <2>1, <2>3
  <2> QED
    BY <2>2, <2>3
<1> QED
  BY <1>2, <1>3, <1>4, <1>5

(* The lengths that reservations are made of stay. *)
SameAsks == SameLengths /\ \A s \in Req : req'[s].chunked = req[s].chunked

(* Processing a token changes none of them. *)
LEMMA ProcessedLengths ==
    ASSUME Inv, ProcessFinished \/ ProcessPrefilled \/ ProcessDecoded
    PROVE  /\ phase = "process" /\ phase' = "process" /\ UNCHANGED <<pending_list, free_slots>>
           /\ live' \subseteq live /\ running_reqs' \subseteq running_reqs /\ SameAsks
<1>1. /\ phase = "process" /\ phase' = "process" /\ UNCHANGED <<pending_list, free_slots>>
      /\ live' \subseteq live /\ running_reqs' \subseteq running_reqs
  BY DEF ProcessFinished, ProcessPrefilled, ProcessDecoded, InProcess, RemoveReq, pool_vars
<1>2. DOMAIN req = Req /\ \A r \in Req : DOMAIN req[r] = Fields
  BY DEF Inv, ObjectTypes
<1> PICK r : r = Work.reqs[next].uid
  OBVIOUS
<1>3. PICK n : \/ req' = [req EXCEPT ![r] = Appended(@)]
               \/ req' = [req EXCEPT ![r] = [Appended(@) EXCEPT !.handle_len = n]]
  BY DEF ProcessFinished, ProcessPrefilled, ProcessDecoded, Deliver
<1>4. CASE req' = [req EXCEPT ![r] = Appended(@)]
  BY <1>1, <1>2, <1>4 DEF SameAsks, SameLengths, Appended, Fields
<1>5. CASE req' = [req EXCEPT ![r] = [Appended(@) EXCEPT !.handle_len = n]]
  BY <1>1, <1>2, <1>5 DEF SameAsks, SameLengths, Appended, Fields
<1> QED
  BY <1>3, <1>4, <1>5

(* A step that keeps the lengths of the live requests. *)
LEMMA LengthKept ==
    ASSUME Inv, LengthInv, SameAsks, live' \subseteq live, running_reqs' \subseteq running_reqs,
           AddedInv', ChosenInv', LazyInv'
    PROVE  LengthInv'
<1>1. live \subseteq Req /\ running_reqs \subseteq Req
  BY DEF Inv, QueueTypes
<1>2. TotalsInv'
  BY <1>1 DEF LengthInv, TotalsInv, SameAsks, SameLengths, Total, OutputLen, MaxOutputLen
<1>3. RunningInv'
  BY <1>1 DEF LengthInv, RunningInv, SameAsks, SameLengths, Total, OutputLen, MaxOutputLen
<1> QED
  BY <1>2, <1>3 DEF LengthInv

(* An admission sets the lengths of one request. *)
LEMMA AdmittedLengthInv ==
    ASSUME Inv, ObjectInv, RefInv, LengthInv, AdmitChunk \/ AdmitNew
    PROVE  LengthInv'
<1> PICK r : r = Candidate
  OBVIOUS
<1>1. /\ phase = "admit" /\ phase' = "admit" /\ Len(adder.reqs) + 1 \in DOMAIN pending_list
      /\ live' = live \cup {r} /\ UNCHANGED <<running_reqs, pending_list>>
  BY AdmittedRequest
<1>2. lazy_free_list' = lazy_free_list
  BY DEF AdmitChunk, AdmitNew, pool_vars
<1>3. /\ r \in Req /\ \A s \in Req : s # r => req'[s] = req[s]
      /\ adder'.reqs = Append(adder.reqs, [uid |-> r, chunked |-> req'[r].chunked])
      /\ req'[r].device_len <= Len(Prompt[r])
      /\ ~req'[r].chunked => req'[r].max_device_len = Total(r)
  BY AdmittedLengths
<1>4. live \subseteq Req /\ running_reqs \subseteq Req
  BY DEF Inv, QueueTypes
<1>5. r \notin running_reqs
  <2>1. r = pending_list[Len(adder.reqs) + 1]
    BY DEF Candidate
  <2> QED
    BY <1>1, <2>1 DEF Inv, PlacesDisjoint
<1>6. TotalsInv'
  BY <1>1, <1>3, <1>4 DEF LengthInv, TotalsInv, Total, OutputLen, MaxOutputLen
<1>7. RunningInv'
  BY <1>1, <1>3, <1>4, <1>5 DEF LengthInv, RunningInv, Total, OutputLen, MaxOutputLen
<1>8. AddedInv'
  <2> PICK a : a = adder.reqs
    OBVIOUS
  <2> PICK x : x = [uid |-> r, chunked |-> req'[r].chunked]
    OBVIOUS
  <2>1. a \in Seq(Entry) /\ Len(a) \in Nat /\ DOMAIN a = 1..Len(a)
    BY LenProperties DEF Inv, QueueTypes
  <2>2. /\ DOMAIN Append(a, x) = 1..(Len(a) + 1)
        /\ \A i \in 1..Len(a) : Append(a, x)[i] = a[i]
        /\ Append(a, x)[Len(a) + 1] = x /\ x.uid = r
    BY <2>1
  <2>3. \A i \in 1..Len(a) : /\ a[i].uid \in Req
                             /\ req[a[i].uid].device_len <= Len(Prompt[a[i].uid])
    <3>1. \A i \in 1..Len(a) : a[i] \in Entry
      BY <2>1
    <3>2. \A i \in 1..Len(a) : req[a[i].uid].device_len <= Len(Prompt[a[i].uid])
      BY <1>1, <2>1 DEF LengthInv, AddedInv
    <3> QED
      BY <3>1, <3>2 DEF Entry
  <2>4. \A s \in Req : req[s].device_len <= Len(Prompt[s]) => req'[s].device_len <= Len(Prompt[s])
    BY <1>3
  <2>5. \A i \in 1..(Len(a) + 1) :
           req'[Append(a, x)[i].uid].device_len <= Len(Prompt[Append(a, x)[i].uid])
    <3> TAKE i \in 1..(Len(a) + 1)
    <3>1. CASE i = Len(a) + 1
      BY <1>3, <2>2, <3>1
    <3>2. CASE i \in 1..Len(a)
      BY <2>2, <2>3, <2>4, <3>2
    <3> QED
      BY <2>1, <3>1, <3>2
  <2> QED
    BY <1>3, <2>2, <2>5 DEF AddedInv
<1>9. ChosenInv' /\ LazyInv'
  BY <1>1, <1>2 DEF ChosenInv, LazyInv, LengthInv
<1> QED
  BY <1>6, <1>7, <1>8, <1>9 DEF LengthInv

(* A forward advances those of a batch. *)
LEMMA ForwardLengthInv ==
    ASSUME Inv, LengthInv, Forward
    PROVE  LengthInv'
<1>1. /\ phase' = "process" /\ live' = live
      /\ BatchUids \subseteq live /\ running_reqs \subseteq live /\ live \subseteq Req
      /\ running_reqs' = {s \in running_reqs \cup BatchUids : CanDecode(req'[s])}
      /\ \A s \in live :
            /\ req'[s].max_device_len = req[s].max_device_len /\ req'[s].chunked = req[s].chunked
            /\ req'[s].cached_len = IF s \in BatchUids THEN req[s].device_len
                                    ELSE req[s].cached_len
            /\ req'[s].device_len = IF s \in BatchUids THEN req[s].device_len + 1
                                    ELSE req[s].device_len
            /\ req[s].device_len \in Int /\ req[s].cached_len \in Int
  BY ForwardLengths
<1>2. TotalsInv'
  BY <1>1 DEF LengthInv, TotalsInv, Total, OutputLen, MaxOutputLen
<1>3. RunningInv'
  <2> SUFFICES ASSUME NEW s \in running_reqs'
               PROVE  /\ req'[s].device_len = req'[s].cached_len + 1
                      /\ req'[s].device_len < Total(s)
    BY DEF RunningInv, Total, OutputLen, MaxOutputLen
  <2>1. s \in live /\ s \in running_reqs \cup BatchUids /\ ~req'[s].chunked /\ RemainLen(req'[s]) > 0
    BY <1>1 DEF CanDecode
  <2>2. req'[s].device_len = req'[s].cached_len + 1
    BY <1>1, <2>1 DEF LengthInv, RunningInv
  <2>3. req'[s].max_device_len = Total(s)
    BY <1>1, <2>1 DEF LengthInv, TotalsInv
  <2>4. Total(s) \in Int /\ req'[s].device_len \in Int
    BY <1>1, <2>1, TotalTypes
  <2>5. Total(s) - req'[s].device_len > 0
    BY <2>1, <2>3 DEF RemainLen
  <2>6. req'[s].device_len < Total(s)
    BY ONLY <2>4, <2>5
  <2> QED
    BY <2>2, <2>6
<1> QED
  BY <1>1, <1>2, <1>3 DEF LengthInv, AddedInv, ChosenInv, LazyInv

(* What is admitted becomes the batch. *)
LEMMA ScheduledLengthInv ==
    ASSUME Inv, LengthInv, SchedulePrefill \/ ScheduleDecode
    PROVE  LengthInv'
<1>1. /\ phase = "admit" /\ phase' = "allocate"
      /\ UNCHANGED <<live, req, running_reqs, lazy_free_list>>
  BY DEF SchedulePrefill, ScheduleDecode, queue_vars, ghost_vars, pool_vars
<1>2. SameAsks /\ AddedInv' /\ LazyInv'
  BY <1>1 DEF SameAsks, SameLengths, AddedInv, LazyInv, LengthInv
<1>3. CASE SchedulePrefill
  <2>1. batch' = [phase |-> "prefill", reqs |-> adder.reqs]
    BY <1>3 DEF SchedulePrefill
  <2>2. ChosenInv'
    BY <1>1, <2>1 DEF ChosenInv, LengthInv, AddedInv
  <2> QED
    BY <1>1, <1>2, <2>2, LengthKept
<1>4. CASE ScheduleDecode
  <2>1. PICK order \in [1..Cardinality(running_reqs) -> running_reqs] :
           batch' = [phase |-> "decode",
                     reqs |-> [i \in DOMAIN order |-> [uid |-> order[i], chunked |-> FALSE]]]
    BY <1>4 DEF ScheduleDecode
  <2>2. batch'.phase = "decode" /\ \A i \in DOMAIN batch'.reqs : batch'.reqs[i].uid \in running_reqs
    BY <2>1
  <2>3. ChosenInv'
    BY <1>1, <2>2 DEF ChosenInv, BatchUids
  <2> QED
    BY <1>1, <1>2, <2>3, LengthKept
<1> QED
  BY <1>3, <1>4

(* Every step keeps how the lengths are related. *)
LEMMA LengthStep ==
    ASSUME CacheInv, LengthInv, [Next]_vars
    PROVE  LengthInv'
<1> USE DEF CacheInv
<1>1. CASE UNCHANGED vars
  <2>1. UNCHANGED <<live, running_reqs, phase, adder, batch, req, lazy_free_list>>
    BY <1>1 DEF vars, loop_vars, queue_vars, ghost_vars, pool_vars
  <2>2. SameAsks /\ AddedInv' /\ ChosenInv' /\ LazyInv'
    BY <2>1 DEF LengthInv, AddedInv, ChosenInv, LazyInv, SameAsks, SameLengths, BatchUids
  <2> QED
    BY <2>1, <2>2, LengthKept
<1>2. SUFFICES ASSUME Receive \/ Loop PROVE LengthInv'
  BY <1>1 DEF Next
<1>3. CASE Receive
  <2>1. PICK r \in Req : ReceiveUser(r) \/ ReceiveAbort(r)
    BY <1>3 DEF Receive
  <2>2. /\ phase = "receive" /\ phase' \in {"receive", "failed"}
        /\ live' \subseteq live /\ running_reqs' \subseteq running_reqs
        /\ UNCHANGED <<req, lazy_free_list>>
    BY <2>1 DEF ReceiveUser, ReceiveAbort, FreeNow, RemoveReq, loop_vars, pool_vars, ghost_vars
  <2> QED
    BY <2>2, LengthKept DEF SameAsks, SameLengths, AddedInv, ChosenInv, LazyInv, LengthInv
<1>4. CASE AdmitChunk \/ AdmitNew
  BY <1>4, AdmittedLengthInv
<1>5. CASE SchedulePrefill \/ ScheduleDecode
  BY <1>5, ScheduledLengthInv
<1>6. CASE Forward
  BY <1>6, ForwardLengthInv
<1>7. CASE AllocateFree \/ AllocateEvict
  <2>1. /\ phase = "allocate" /\ phase' = "forward"
        /\ UNCHANGED <<live, req, running_reqs, batch, lazy_free_list>>
    BY <1>7 DEF AllocateFree, AllocateEvict, queue_vars, ghost_vars
  <2>2. AddedInv' /\ ChosenInv' /\ LazyInv' /\ SameAsks
    BY <2>1 DEF SameAsks, SameLengths, AddedInv, ChosenInv, LazyInv, LengthInv, BatchUids
  <2> QED
    BY <2>1, <2>2, LengthKept
<1>8. CASE StartSchedule
  <2>1. /\ phase = "receive" /\ phase' = "admit" /\ adder'.reqs = <<>>
        /\ UNCHANGED <<live, req, running_reqs, lazy_free_list>>
    BY <1>8 DEF StartSchedule, queue_vars, ghost_vars, pool_vars
  <2> QED
    BY <2>1, LengthKept DEF SameAsks, SameLengths, AddedInv, ChosenInv, LazyInv, LengthInv
<1>9. CASE ScheduleNothing \/ AllocateFails \/ ProcessChunk \/ ProcessFails \/ EndIteration
  <2>1. /\ phase' \in {"process", "failed", "receive"}
        /\ phase' = "receive" => lazy_free_list' = <<>>
        /\ UNCHANGED <<live, req, running_reqs>>
    BY <1>9 DEF ScheduleNothing, AllocateFails, ProcessChunk, ProcessFails, EndIteration,
                InProcess, queue_vars, ghost_vars
  <2> QED
    BY <2>1, LengthKept DEF SameAsks, SameLengths, AddedInv, ChosenInv, LazyInv
<1>10. CASE ProcessFinished \/ ProcessPrefilled \/ ProcessDecoded
  <2>1. /\ phase' = "process" /\ live' \subseteq live /\ running_reqs' \subseteq running_reqs
        /\ SameAsks
    BY <1>10, ProcessedLengths
  <2> QED
    BY <2>1, LengthKept DEF AddedInv, ChosenInv, LazyInv
<1> QED
  BY <1>2, <1>3, <1>4, <1>5, <1>6, <1>7, <1>8, <1>9, <1>10 DEF Loop, Admit, Allocate, Process

-----------------------------------------------------------------------------
(* What is asked for is covered *)

(* What is proved of the pool in SchedulerProofs and above. *)
PoolInv == CacheInv /\ RowsOwned /\ PageInv

(* The pages that can be had are enough for all that is asked for. *)
Covered == Cardinality(Pairs(Asking, Asks)) <= FreePages

(* Whose asking the reservation of PrefillAdder counts. *)
Reserving == running_reqs \cup AddedUids

(* What PrefillAdder has reserved covers what they ask for. *)
ReservedInv ==
    phase = "admit" =>
        /\ adder.reserved_size \in Int
        /\ Cardinality(Pairs(Reserving, Asks)) <= adder.reserved_size

(* A request that holds a row has room for output. *)
RoomInv == \A r \in live : MaxOutputLen(r) > 0

(* The inductive invariant of the reservation, next to PoolInv. *)
ReserveInv == LengthInv /\ RoomInv /\ Covered /\ ReservedInv /\ phase # "failed"

(* Who may ask, and for what. *)
LEMMA AskTypes ==
    ASSUME Inv, ObjectInv
    PROVE  /\ IsFiniteSet(Req) /\ Asking \subseteq live /\ live \subseteq Req
           /\ Reserving \subseteq Req
           /\ \A r \in Req : /\ Allocated(r) \in Nat /\ AskEnd(r) \in Int
                             /\ Asks[r] = Allocated(r)..(AskEnd(r) - 1) /\ IsFiniteSet(Asks[r])
<1>1. IsFiniteSet(Req) /\ live \subseteq Req
  BY SchedulerAssumptions DEF Inv, QueueTypes
<1>2. Asking \subseteq live
  BY DEF Asking, Prefilling, BatchUids, Inv, PlacesDisjoint, BatchInv
<1>3. Reserving \subseteq Req
  <2>1. running_reqs \subseteq Req /\ adder.reqs \in Seq(Entry)
    BY DEF Inv, QueueTypes
  <2>2. \A i \in DOMAIN adder.reqs : adder.reqs[i] \in Entry
    BY <2>1
  <2> QED
    BY <2>1, <2>2 DEF Reserving, AddedUids, Entry
<1>4. ASSUME NEW r \in Req
      PROVE  /\ Allocated(r) \in Nat /\ AskEnd(r) \in Int
             /\ Asks[r] = Allocated(r)..(AskEnd(r) - 1) /\ IsFiniteSet(Asks[r])
  <2>1. Allocated(r) \in Nat
    BY DEF ObjectInv, WellFormed, Allocated
  <2>2. AskEnd(r) \in Int
    BY TotalTypes DEF AskEnd
  <2>3. IsFiniteSet(Allocated(r)..(AskEnd(r) - 1))
    <3>1. Allocated(r) \in Int /\ AskEnd(r) - 1 \in Int
      BY <2>1, <2>2
    <3> QED
      BY <3>1, FS_Interval
  <2> QED
    BY <2>1, <2>2, <2>3 DEF Asks
<1> QED
  BY <1>1, <1>2, <1>3, <1>4

(* Fewer members that have less make fewer pairs. *)
LEMMA PairsShrink ==
    ASSUME NEW L, IsFiniteSet(L), NEW E, \A r \in L : IsFiniteSet(E[r]),
           NEW M, M \subseteq L, NEW G, \A r \in M : G[r] \subseteq E[r]
    PROVE  /\ Cardinality(Pairs(L, E)) \in Nat /\ Cardinality(Pairs(M, G)) \in Nat
           /\ Cardinality(Pairs(M, G)) <= Cardinality(Pairs(L, E))
<1>1. Pairs(M, G) \in SUBSET Pairs(L, E)
  BY DEF Pairs
<1>2. IsFiniteSet(Pairs(L, E)) /\ Cardinality(Pairs(L, E)) \in Nat
  BY PairsCount
<1>3. IsFiniteSet(Pairs(M, G)) /\ Cardinality(Pairs(M, G)) <= Cardinality(Pairs(L, E))
  BY ONLY <1>1, <1>2, FS_Subset
<1> QED
  BY <1>2, <1>3, FS_CardinalityType

(* Nobody new asks, nobody asks for more, and no fewer pages are free. *)
LEMMA CoverShrinks ==
    ASSUME PoolInv, PoolInv', Covered, Asking' \subseteq Asking,
           \A r \in Asking' : /\ r \in running_reqs' \/ r \notin running_reqs
                              /\ Allocated(r) <= Allocated(r)',
           FreePages <= FreePages'
    PROVE  Covered'
<1> PICK L : L = Asking
  OBVIOUS
<1> PICK M : M = Asking'
  OBVIOUS
<1> PICK E : E = Asks
  OBVIOUS
<1> PICK G : G = Asks'
  OBVIOUS
<1>1. /\ IsFiniteSet(Req) /\ L \subseteq Req
      /\ \A r \in Req : /\ Allocated(r) \in Nat /\ AskEnd(r) \in Int
                        /\ E[r] = Allocated(r)..(AskEnd(r) - 1) /\ IsFiniteSet(E[r])
  BY AskTypes DEF PoolInv, CacheInv
<1>2. \A r \in Req : /\ Allocated(r)' \in Nat /\ AskEnd(r)' \in Int
                     /\ G[r] = (Allocated(r)')..(AskEnd(r)' - 1)
  <2> TAKE r \in Req
  <2>1. Inv' /\ ObjectInv'
    BY DEF PoolInv, CacheInv
  <2>2. Allocated(r)' \in Nat
    BY <2>1 DEF ObjectInv, WellFormed, Allocated
  <2>3. AskEnd(r)' \in Int
    <3>1. Total(r) \in Int
      BY TotalTypes
    <3> QED
      BY <3>1 DEF AskEnd, Total, OutputLen, MaxOutputLen
  <2>4. G[r] = (Allocated(r)')..(AskEnd(r)' - 1)
    BY DEF Asks
  <2> QED
    BY <2>2, <2>3, <2>4
<1>3. \A r \in M : G[r] \subseteq E[r]
  <2> TAKE r \in M
  <2>1. r \in Req
    BY <1>1
  <2>2. AskEnd(r)' <= AskEnd(r)
    <3>1. Total(r) \in Int
      BY <2>1, TotalTypes
    <3>2. AskEnd(r)' = (IF r \in running_reqs' THEN Total(r) - 1 ELSE Total(r))
          /\ AskEnd(r) = (IF r \in running_reqs THEN Total(r) - 1 ELSE Total(r))
      BY DEF AskEnd, Total, OutputLen, MaxOutputLen
    <3> QED
      BY <3>1, <3>2
  <2>3. Allocated(r) <= Allocated(r)'
    OBVIOUS
  <2> QED
    BY <1>1, <1>2, <2>1, <2>2, <2>3
<1>4. IsFiniteSet(L)
  BY <1>1, FS_Subset
<1>5. /\ Cardinality(Pairs(L, E)) \in Nat /\ Cardinality(Pairs(M, G)) \in Nat
      /\ Cardinality(Pairs(M, G)) <= Cardinality(Pairs(L, E))
  BY <1>1, <1>3, <1>4, PairsShrink
<1>6. FreePages \in Nat
  BY FreeTypes DEF PoolInv, PageInv
<1>7. FreePages' \in Nat
  <2>1. TableInv'
    BY DEF PoolInv, PageInv
  <2> QED
    BY <2>1, FreeTypesAfter
<1>8. Cardinality(Pairs(L, E)) <= FreePages
  BY DEF Covered
<1>9. Cardinality(Pairs(M, G)) <= FreePages'
  BY ONLY <1>5, <1>6, <1>7, <1>8, FreePages <= FreePages'
<1> QED
  BY <1>9 DEF Covered

(* Steps that compute nothing and take no page. *)
LEMMA CoverFollows ==
    ASSUME PoolInv, PoolInv', Covered, phase # "forward", phase' # "forward",
           \A r \in Req : req'[r].cached_len = req[r].cached_len,
           live' \subseteq live, running_reqs' \subseteq running_reqs,
           live' \cap ToSet(pending_list') \subseteq ToSet(pending_list),
           phase' = "allocate" => \/ batch'.phase # "prefill"
                                  \/ \A i \in DOMAIN batch'.reqs :
                                        batch'.reqs[i].uid \in ToSet(pending_list),
           FreePages <= FreePages'
    PROVE  Covered'
<1>1. Inv /\ ObjectInv /\ Inv'
  BY DEF PoolInv, CacheInv
<1>2. phase' = "allocate" => \A i \in DOMAIN batch'.reqs : batch'.reqs[i].uid \in live'
  BY <1>1 DEF Inv, BatchInv
<1>3. ASSUME NEW r \in Prefilling'
      PROVE  r \in Prefilling /\ r \in ToSet(pending_list)
  <2>1. CASE r \in live' \cap ToSet(pending_list')
    BY <2>1 DEF Prefilling
  <2>2. CASE r \notin live' \cap ToSet(pending_list')
    <3>1. phase' = "allocate" /\ batch'.phase = "prefill" /\ r \in BatchUids'
      BY <2>2 DEF Prefilling
    <3>2. r \in live' /\ r \in ToSet(pending_list)
      BY <1>2, <3>1 DEF BatchUids
    <3> QED
      BY <3>2 DEF Prefilling
  <2> QED
    BY <2>1, <2>2
<1>4. Asking' \subseteq Asking
  BY <1>3 DEF Asking
<1>5. \A r \in ToSet(pending_list) : r \notin running_reqs
  BY <1>1 DEF Inv, PlacesDisjoint, ToSet
<1>6. ASSUME NEW r \in Asking'
      PROVE  /\ r \in running_reqs' \/ r \notin running_reqs
             /\ Allocated(r) <= Allocated(r)'
  <2>1. r \in Req
    BY <1>1, <1>4, AskTypes
  <2>2. Allocated(r)' = Allocated(r) /\ Allocated(r) \in Nat
    <3>1. Allocated(r) \in Nat
      BY <1>1, <2>1, AskTypes
    <3>2. Allocated(r) = req[r].cached_len /\ Allocated(r)' = req'[r].cached_len
      BY DEF Allocated
    <3> QED
      BY <2>1, <3>1, <3>2
  <2>3. r \in running_reqs' \/ r \notin running_reqs
    BY <1>3, <1>5 DEF Asking
  <2> QED
    BY <2>2, <2>3
<1> QED
  BY <1>4, <1>6, CoverShrinks

(* A request that joins the waiting ones, the choice of a batch, the next chunk *)
(* of a prompt, a token of a decode, the end of an iteration.                   *)
LEMMA QuietCover ==
    ASSUME PoolInv, PoolInv', Covered,
           \/ \E r \in Req : ReceiveUser(r)
           \/ StartSchedule \/ SchedulePrefill \/ ScheduleDecode \/ ScheduleNothing
           \/ AllocateFails \/ ProcessChunk \/ ProcessFails
           \/ AdmitChunk \/ ProcessDecoded \/ EndIteration
    PROVE  Covered'
<1>1. Inv /\ ObjectInv /\ RefInv /\ TableInv
  BY DEF PoolInv, CacheInv, PageInv
<1>2. pending_list \in Seq(Req) /\ live \subseteq Req
  BY <1>1 DEF Inv, QueueTypes
<1>3. FreePages \in Nat
  BY <1>1, FreeTypes
<1>4. ASSUME UNCHANGED pool_vars
      PROVE  FreePages <= FreePages'
  BY <1>3, <1>4 DEF FreePages, pool_vars
<1>5. ASSUME NEW r \in Req, ReceiveUser(r) PROVE Covered'
  <2>1. /\ UNCHANGED <<pool_vars, live, req, running_reqs, phase>> /\ phase = "receive"
        /\ pending_list' = IF MaxOutputLen(r) <= 0 THEN pending_list ELSE Append(pending_list, r)
        /\ r \in to_send
    BY <1>5 DEF ReceiveUser, loop_vars, ghost_vars
  <2>2. r \notin live
    BY <1>1, <2>1 DEF Inv, PlacesDisjoint
  <2>3. ToSet(pending_list') \subseteq ToSet(pending_list) \cup {r}
    <3>1. CASE pending_list' = pending_list
      BY <3>1
    <3>2. CASE pending_list' = Append(pending_list, r)
      <4>1. Len(pending_list) \in Nat /\ DOMAIN pending_list = 1..Len(pending_list)
        BY <1>2
      <4> QED
        BY <1>2, <3>2, <4>1 DEF ToSet
    <3> QED
      BY <2>1, <3>1, <3>2
  <2> QED
    BY <1>4, <2>1, <2>2, <2>3, CoverFollows
<1>6. CASE StartSchedule
  <2>1. /\ UNCHANGED <<pool_vars, live, req, running_reqs, pending_list>>
        /\ phase = "receive" /\ phase' = "admit"
    BY <1>6 DEF StartSchedule, queue_vars, ghost_vars
  <2> QED
    BY <1>4, <2>1, CoverFollows
<1>7. CASE SchedulePrefill
  <2>1. /\ UNCHANGED <<pool_vars, live, req, running_reqs>> /\ phase = "admit"
        /\ phase' = "allocate" /\ pending_list' = StillPending /\ batch'.reqs = adder.reqs
    BY <1>7 DEF SchedulePrefill, ghost_vars
  <2>2. ToSet(pending_list') \subseteq ToSet(pending_list)
    BY <1>1, <2>1, StillPendingWaits
  <2>3. \A i \in DOMAIN batch'.reqs : batch'.reqs[i].uid \in ToSet(pending_list)
    <3>1. Len(adder.reqs) <= Len(pending_list) /\ DOMAIN adder.reqs = 1..Len(adder.reqs)
          /\ Len(adder.reqs) \in Nat
      BY <1>1, <2>1, LenProperties DEF Inv, AddingInv, QueueTypes
    <3>2. \A i \in DOMAIN adder.reqs : adder.reqs[i].uid = pending_list[i]
      BY <1>1, <2>1 DEF Inv, AddingInv
    <3>3. \A i \in DOMAIN adder.reqs : i \in DOMAIN pending_list
      BY <1>2, <3>1
    <3> QED
      BY <2>1, <3>2, <3>3 DEF ToSet
  <2> QED
    BY <1>4, <2>1, <2>2, <2>3, CoverFollows
<1>8. CASE ScheduleDecode
  <2>1. /\ UNCHANGED <<pool_vars, live, req, running_reqs, pending_list>>
        /\ phase = "admit" /\ batch'.phase = "decode" /\ phase' = "allocate"
    BY <1>8 DEF ScheduleDecode, queue_vars, ghost_vars
  <2> QED
    BY <1>4, <2>1, CoverFollows
<1>9. CASE ScheduleNothing \/ AllocateFails \/ ProcessChunk \/ ProcessFails
  <2>1. /\ UNCHANGED <<pool_vars, live, req, running_reqs, pending_list>>
        /\ phase # "forward" /\ phase' \in {"process", "failed"}
    BY <1>9 DEF ScheduleNothing, AllocateFails, ProcessChunk, ProcessFails, InProcess,
                queue_vars, ghost_vars
  <2> QED
    BY <1>4, <2>1, CoverFollows
<1>10. CASE AdmitChunk
  <2>1. /\ UNCHANGED <<pool_vars, live, running_reqs, pending_list>>
        /\ phase = "admit" /\ phase' = "admit"
    BY <1>10 DEF AdmitChunk, ghost_vars
  <2>2. \A r \in Req : req'[r].cached_len = req[r].cached_len
    BY <1>1, <1>10, AdmittedLengths
  <2> QED
    BY <1>4, <2>1, <2>2, CoverFollows
<1>11. CASE ProcessDecoded
  <2>1. /\ UNCHANGED <<pool_vars, live, running_reqs, pending_list>>
        /\ phase = "process" /\ phase' = "process"
    BY <1>11 DEF ProcessDecoded, InProcess
  <2>2. \A r \in Req : req'[r].cached_len = req[r].cached_len
    BY <1>1, <1>11, ProcessedLengths DEF SameAsks, SameLengths
  <2> QED
    BY <1>4, <2>1, <2>2, CoverFollows
<1>12. CASE EndIteration
  <2>1. /\ UNCHANGED <<cache, live, req, running_reqs, pending_list>>
        /\ phase = "process" /\ phase' = "receive"
        /\ free_slots' = free_slots \o lazy_free_list /\ lazy_free_list' = <<>>
    BY <1>12 DEF EndIteration, ghost_vars
  <2>2. /\ free_slots \in Seq(Page) /\ lazy_free_list \in Seq(Page)
    BY <1>1 DEF TableInv
  <2>3. Len(free_slots') = Len(free_slots) + Len(lazy_free_list) /\ Len(lazy_free_list') = 0
    BY <2>1, <2>2
  <2>4. /\ Cardinality(Evictable(cache)) \in Nat
        /\ Len(free_slots) \in Nat /\ Len(lazy_free_list) \in Nat
    BY <1>1, FreeTypes
  <2>5. FreePages <= FreePages'
    BY <2>1, <2>3, <2>4 DEF FreePages
  <2> QED
    BY <2>1, <2>5, CoverFollows
<1> QED
  BY <1>5, <1>6, <1>7, <1>8, <1>9, <1>10, <1>11, <1>12

(* Pages that a request gives back are free in its place, and nothing that could *)
(* be evicted is lost but what it newly locks.                                   *)
LEMMA ReleasedFrees ==
    ASSUME PoolInv, PoolInv', NEW r \in live, NEW q, ObjectOf(r, q), NEW finished \in BOOLEAN,
           NEW c, c = CacheReq(cache, q, finished), cache' = c.cache,
           \/ free_slots' = free_slots \o c.freed /\ lazy_free_list' = lazy_free_list
           \/ free_slots' = free_slots /\ lazy_free_list' = lazy_free_list \o c.freed
    PROVE  FreePages <= FreePages'
<1>1. Inv /\ ObjectInv /\ RefInv /\ HandleInv /\ TableInv /\ TableInv'
  BY DEF PoolInv, CacheInv, PageInv
<1>2. HandleOf(q) = HandleOf(req[r])
  BY DEF ObjectOf, HandleOf
<1> PICK before : before = Cardinality(Evictable(cache))
  OBVIOUS
<1> PICK after : after = Cardinality(Evictable(c.cache))
  OBVIOUS
<1> PICK n : n = Len(c.freed)
  OBVIOUS
<1>3. before \in Nat /\ after \in Nat /\ n \in Nat /\ before <= after + n
  <2>1. before \in Nat
    BY <1>1, FreeTypes
  <2>2. CASE finished = TRUE
    <3>1. /\ Evictable(cache) \in SUBSET Evictable(c.cache) /\ IsFiniteSet(DOMAIN c.cache)
          /\ n \in Nat
      BY <1>1, <1>2, <2>2, FinishedFrees DEF TableInv
    <3>2. IsFiniteSet(Evictable(c.cache))
      BY <3>1, FS_Subset DEF Evictable
    <3>3. before <= after /\ after \in Nat
      BY <3>1, <3>2, FS_Subset, FS_CardinalityType
    <3> QED
      BY <2>1, <3>1, <3>3
  <2>3. CASE finished = FALSE
    BY <1>1, <1>2, <2>1, <2>3, PrefilledFrees
  <2> QED
    BY <2>2, <2>3
<1>4. \E S : c.freed \in Seq(S)
  <2>1. Moves(q, CacheReq(cache, q, finished), finished)
    BY <1>1, CacheReqPages DEF ObjectOf
  <2> QED
    BY <2>1 DEF Moves
<1>5. /\ Len(free_slots) \in Nat /\ Len(lazy_free_list) \in Nat
      /\ Len(free_slots') + Len(lazy_free_list') = Len(free_slots) + Len(lazy_free_list) + n
  <2>1. PICK S : c.freed \in Seq(S)
    BY <1>4
  <2>2. free_slots \in Seq(Page) /\ lazy_free_list \in Seq(Page)
    BY <1>1 DEF TableInv
  <2>3. /\ Len(free_slots) \in Nat /\ Len(lazy_free_list) \in Nat
    BY <2>2
  <2>4. Len(free_slots \o c.freed) = Len(free_slots) + n
    BY <2>1, <2>2
  <2>5. Len(lazy_free_list \o c.freed) = Len(lazy_free_list) + n
    BY <2>1, <2>2
  <2> QED
    <3>1. CASE free_slots' = free_slots \o c.freed /\ lazy_free_list' = lazy_free_list
      <4>1. Len(free_slots') = Len(free_slots) + n /\ Len(lazy_free_list') = Len(lazy_free_list)
        BY <2>4, <3>1
      <4> QED
        BY ONLY <1>3, <2>3, <4>1
    <3>2. CASE free_slots' = free_slots /\ lazy_free_list' = lazy_free_list \o c.freed
      <4>1. Len(free_slots') = Len(free_slots) /\ Len(lazy_free_list') = Len(lazy_free_list) + n
        BY <2>5, <3>2
      <4> QED
        BY ONLY <1>3, <2>3, <4>1
    <3> QED
      BY <3>1, <3>2
<1>6. Len(free_slots') \in Nat /\ Len(lazy_free_list') \in Nat
  BY <1>1 DEF TableInv
<1>7. FreePages = before + Len(free_slots) + Len(lazy_free_list)
  BY DEF FreePages
<1>8. FreePages' = after + Len(free_slots') + Len(lazy_free_list')
  BY DEF FreePages
<1> QED
  BY ONLY <1>3, <1>5, <1>6, <1>7, <1>8

(* A request that is aborted, that is over, or whose prompt is computed. *)
LEMMA ReleasedCover ==
    ASSUME PoolInv, PoolInv', Covered,
           (\E r \in Req : ReceiveAbort(r)) \/ ProcessFinished \/ ProcessPrefilled
    PROVE  Covered'
<1>1. Inv /\ ObjectInv /\ RefInv /\ FlightInv /\ TableInv
  BY DEF PoolInv, CacheInv, PageInv
<1>2. live \subseteq Req /\ pending_list \in Seq(Req)
  BY <1>1 DEF Inv, QueueTypes
<1>3. ASSUME NEW r \in Req, ReceiveAbort(r) PROVE Covered'
  <2> PICK q : q = req[r]
    OBVIOUS
  <2> PICK c : c = CacheReq(cache, q, TRUE)
    OBVIOUS
  <2>1. /\ phase = "receive" /\ req' = req /\ pending_list' = RemoveFirst(pending_list, r)
        /\ running_reqs' \subseteq running_reqs
    BY <1>3 DEF ReceiveAbort, RemoveReq
  <2>2. ToSet(pending_list') \subseteq ToSet(pending_list)
    BY <1>1, <2>1, LeavingWaits
  <2>3. phase' \in {"receive", "failed"} /\ live' \subseteq live /\ FreePages <= FreePages'
    <3>1. CASE UNCHANGED <<pool_vars, live>> /\ phase' \in {"receive", "failed"}
      <4>1. FreePages \in Nat
        BY <1>1, FreeTypes
      <4> QED
        BY <3>1, <4>1 DEF FreePages, pool_vars
    <3>2. CASE /\ FreeNow(r) /\ c.ok
               /\ \/ Contains(pending_list, r) /\ Continuing(r)
                  \/ r \in running_reqs
      <4>1. r \in live
        BY <1>1, <2>1, <3>2, AbortedHoldsRow
      <4>2. /\ phase' = "receive" /\ free_slots' = free_slots \o c.freed
            /\ lazy_free_list' = lazy_free_list /\ cache' = c.cache /\ live' = live \ {r}
        BY <2>1, <3>2 DEF FreeNow
      <4>3. ObjectOf(r, q)
        BY <1>1 DEF ObjectInv, WellFormed, ObjectOf
      <4>4. FreePages <= FreePages'
        BY <4>1, <4>2, <4>3, ReleasedFrees
      <4> QED
        BY <4>2, <4>4
    <3>3. \/ UNCHANGED <<pool_vars, live>> /\ phase' \in {"receive", "failed"}
          \/ /\ FreeNow(r) /\ c.ok
             /\ \/ Contains(pending_list, r) /\ Continuing(r)
                \/ r \in running_reqs
      BY <1>3, <2>1 DEF ReceiveAbort, FreeNow
    <3> QED
      BY <3>1, <3>2, <3>3
  <2> QED
    BY <2>1, <2>2, <2>3, CoverFollows
<1>4. CASE ProcessFinished \/ ProcessPrefilled
  <2> PICK r : r = Work.reqs[next].uid
    OBVIOUS
  <2> PICK q : q = Appended(req[r])
    OBVIOUS
  <2> PICK over : over = ProcessFinished
    OBVIOUS
  <2> PICK c : c = CacheReq(cache, q, over)
    OBVIOUS
  <2>1. r \in live
    BY <1>1, <1>4, ProcessedHoldsRow
  <2>2. over \in BOOLEAN /\ cache' = c.cache /\ free_slots' = free_slots
        /\ lazy_free_list' = lazy_free_list \o c.freed
    <3>1. CASE ProcessFinished
      <4>1. over = TRUE
        BY <3>1
      <4>2. c = CacheReq(cache, Appended(req[r]), TRUE)
        BY <4>1
      <4> QED
        BY <3>1, <4>1, <4>2 DEF ProcessFinished
    <3>2. CASE ProcessPrefilled /\ ~ProcessFinished
      <4>1. over = FALSE
        BY <3>2
      <4>2. c = CacheReq(cache, Appended(req[r]), FALSE)
        BY <4>1
      <4> QED
        BY <3>2, <4>1, <4>2 DEF ProcessPrefilled
    <3> QED
      BY <1>4, <3>1, <3>2
  <2>3. ObjectOf(r, q)
    <3>1. DOMAIN req[r] = Fields /\ r \in Req
      BY <1>1, <1>2, <2>1 DEF Inv, ObjectTypes
    <3>2. /\ q.host_len = req[r].host_len + 1 /\ q.ids = req[r].ids
          /\ q.cached_len = req[r].cached_len
          /\ q.handle_len = req[r].handle_len /\ q.table_idx = req[r].table_idx
      BY <3>1 DEF Appended, Fields
    <3>3. WellFormed(req[r], Prompt[r]) /\ req[r].host_len \in Nat
      BY <1>1, <3>1 DEF ObjectInv, WellFormed
    <3>4. WellFormed(q, Prompt[r])
      BY <3>1, <3>3, AppendedIsWellFormed
    <3>5. q.host_len >= req[r].host_len
      BY ONLY <3>2, <3>3
    <3> QED
      BY <3>2, <3>4, <3>5 DEF ObjectOf
  <2>4. FreePages <= FreePages'
    BY <2>1, <2>2, <2>3, ReleasedFrees
  <2>5. /\ phase = "process" /\ phase' = "process" /\ pending_list' = pending_list
        /\ live' \subseteq live /\ running_reqs' \subseteq running_reqs
        /\ \A s \in Req : req'[s].cached_len = req[s].cached_len
    BY <1>1, <1>4, ProcessedLengths DEF SameAsks, SameLengths
  <2> QED
    BY <2>4, <2>5, CoverFollows
<1> QED
  BY <1>3, <1>4

(* A batch that ran has computed what it had pages for. *)
LEMMA ForwardCover ==
    ASSUME PoolInv, PoolInv', LengthInv, Covered, Forward
    PROVE  Covered'
<1>1. Inv /\ ObjectInv /\ TableInv
  BY DEF PoolInv, CacheInv, PageInv
<1>2. /\ phase = "forward" /\ phase' = "process"
      /\ UNCHANGED <<live, pending_list, batch, free_slots, lazy_free_list, cache, adder>>
      /\ BatchUids \subseteq live /\ running_reqs \subseteq live /\ live \subseteq Req
      /\ running_reqs' = {s \in running_reqs \cup BatchUids : CanDecode(req'[s])}
      /\ \A s \in live : req'[s].cached_len = IF s \in BatchUids THEN req[s].device_len
                                              ELSE req[s].cached_len
  BY <1>1, ForwardLengths
<1>3. BatchUids \subseteq Asking
  BY <1>2 DEF LengthInv, ChosenInv, Asking, Prefilling
<1>4. Asking' \subseteq Asking
  BY <1>2, <1>3 DEF Asking, Prefilling
<1>5. \A r \in ToSet(pending_list) : r \notin running_reqs
  BY <1>1 DEF Inv, PlacesDisjoint, ToSet
<1>6. ASSUME NEW r \in Asking'
      PROVE  /\ r \in running_reqs' \/ r \notin running_reqs
             /\ Allocated(r) <= Allocated(r)'
  <2>1. r \in live /\ r \in Req
    BY <1>1, <1>2, <1>4, AskTypes
  <2>2. Allocated(r)' = Allocated(r) /\ Allocated(r) \in Nat
    <3>1. Allocated(r) \in Nat
      BY <1>1, <2>1, AskTypes
    <3> QED
      BY <1>2, <2>1, <3>1 DEF Allocated
  <2>3. r \in running_reqs' \/ r \notin running_reqs
    BY <1>2, <1>5 DEF Asking, Prefilling
  <2> QED
    BY <2>2, <2>3
<1>7. FreePages <= FreePages'
  <2>1. FreePages \in Nat
    BY <1>1, FreeTypes
  <2> QED
    BY <1>2, <2>1 DEF FreePages
<1> QED
  BY <1>4, <1>6, <1>7, CoverShrinks

(* Who holds a row has room for output. *)
LEMMA RoomStep ==
    ASSUME PoolInv, RoomInv, [Next]_vars
    PROVE  RoomInv'
<1>1. CASE live' \subseteq live
  BY <1>1 DEF RoomInv, MaxOutputLen
<1>2. CASE AdmitChunk \/ AdmitNew
  <2>1. live' = live \cup {Candidate} /\ Len(adder.reqs) + 1 \in DOMAIN pending_list
    BY <1>2, AdmittedRequest DEF PoolInv, CacheInv
  <2>2. Candidate \in ToSet(pending_list)
    BY <2>1 DEF Candidate, ToSet
  <2>3. MaxOutputLen(Candidate) > 0
    BY <2>2 DEF PoolInv, PageInv, FitInv
  <2> QED
    BY <2>1, <2>3 DEF RoomInv, MaxOutputLen
<1> QED
  BY <1>1, <1>2, RowsAreTakenByAdmissions

(* What some members give up, each of what it has, and what is left. *)
LEMMA PartsCount ==
    ASSUME NEW uid, \A i, j \in DOMAIN uid : uid[i] = uid[j] => i = j,
           NEW P, NEW N, N = UNION {{i} \X P[i] : i \in DOMAIN uid}, IsFiniteSet(N),
           NEW L, IsFiniteSet(L), NEW E, \A r \in L : IsFiniteSet(E[r]),
           NEW G, \A r \in L : G[r] \subseteq E[r],
           \A i \in DOMAIN uid : /\ uid[i] \in L /\ P[i] \subseteq E[uid[i]]
                                 /\ P[i] \cap G[uid[i]] = {}
    PROVE  /\ Cardinality(N) \in Nat /\ Cardinality(Pairs(L, G)) \in Nat
           /\ Cardinality(Pairs(L, E)) \in Nat
           /\ Cardinality(N) + Cardinality(Pairs(L, G)) <= Cardinality(Pairs(L, E))
<1> PICK f : f = [n \in N |-> <<uid[n[1]], n[2]>>]
  OBVIOUS
<1> PICK X : X = {f[n] : n \in N}
  OBVIOUS
<1>1. IsFiniteSet(X) /\ Cardinality(X) \in Nat
  <2>1. f = [n \in N |-> f[n]]
    BY ONLY f = [n \in N |-> <<uid[n[1]], n[2]>>]
  <2> QED
    BY ONLY IsFiniteSet(N), <2>1, X = {f[n] : n \in N}, ImageCount
<1>2. ASSUME NEW n \in N
      PROVE  /\ n[1] \in DOMAIN uid /\ n[2] \in P[n[1]] /\ n = <<n[1], n[2]>>
             /\ f[n] = <<uid[n[1]], n[2]>> /\ f[n] \in X
  <2>1. PICK i \in DOMAIN uid : n \in {i} \X P[i]
    BY ONLY n \in N, N = UNION {{i} \X P[i] : i \in DOMAIN uid}
  <2>2. n[1] = i /\ n[2] \in P[i] /\ n = <<n[1], n[2]>>
    BY ONLY <2>1
  <2>3. f[n] = <<uid[n[1]], n[2]>>
    BY ONLY n \in N, f = [k \in N |-> <<uid[k[1]], k[2]>>]
  <2>4. f[n] \in X
    BY ONLY n \in N, X = {f[k] : k \in N}
  <2> QED
    BY ONLY <2>1, <2>2, <2>3, <2>4
<1>3. ASSUME NEW x \in X
      PROVE  x \in Pairs(L, E) /\ x \notin Pairs(L, G)
  <2>1. PICK n \in N : x = f[n]
    BY ONLY x \in X, X = {f[n] : n \in N}
  <2> PICK r : r = uid[n[1]]
    OBVIOUS
  <2> PICK k : k = n[2]
    OBVIOUS
  <2>2. x = <<r, k>> /\ r \in L /\ k \in E[r] /\ k \notin G[r]
    BY <1>2, <2>1
  <2> QED
    BY ONLY <2>2 DEF Pairs
<1>4. Cardinality(N) <= Cardinality(X)
  <2> PICK g : g = [x \in X |-> <<CHOOSE i \in DOMAIN uid : uid[i] = x[1], x[2]>>]
    OBVIOUS
  <2> PICK Y : Y = {g[x] : x \in X}
    OBVIOUS
  <2>1. N \in SUBSET Y
    <3> SUFFICES ASSUME NEW n \in N PROVE n \in Y
      OBVIOUS
    <3>1. f[n] \in X /\ f[n][1] = uid[n[1]] /\ f[n][2] = n[2] /\ n[1] \in DOMAIN uid
          /\ n = <<n[1], n[2]>>
      BY <1>2
    <3>2. (CHOOSE i \in DOMAIN uid : uid[i] = f[n][1]) = n[1]
      <4>1. \A i \in DOMAIN uid : uid[i] = f[n][1] <=> i = n[1]
        BY <3>1
      <4> QED
        BY ONLY <3>1, <4>1
    <3>3. g[f[n]] = n
      BY ONLY <3>1, <3>2, g = [x \in X |-> <<CHOOSE i \in DOMAIN uid : uid[i] = x[1], x[2]>>]
    <3>4. g[f[n]] \in Y
      BY ONLY <3>1, Y = {g[x] : x \in X}
    <3> QED
      BY ONLY <3>3, <3>4
  <2>2. IsFiniteSet(Y) /\ Cardinality(Y) <= Cardinality(X) /\ Cardinality(Y) \in Nat
    <3>1. g = [x \in X |-> g[x]]
      BY ONLY g = [x \in X |-> <<CHOOSE i \in DOMAIN uid : uid[i] = x[1], x[2]>>]
    <3> QED
      BY ONLY <1>1, <3>1, Y = {g[x] : x \in X}, ImageCount
  <2>3. Cardinality(N) <= Cardinality(Y)
    BY <2>1, <2>2, FS_Subset
  <2>4. Cardinality(N) \in Nat
    BY FS_CardinalityType
  <2> QED
    BY ONLY <1>1, <2>2, <2>3, <2>4
<1>5. Cardinality(N) \in Nat
  BY FS_CardinalityType
<1> PICK A : A = Pairs(L, G)
  OBVIOUS
<1> PICK B : B = Pairs(L, E)
  OBVIOUS
<1>6. A \in SUBSET B
  BY ONLY A = Pairs(L, G), B = Pairs(L, E), \A r \in L : G[r] \subseteq E[r] DEF Pairs
<1>7. IsFiniteSet(B) /\ Cardinality(B) \in Nat
  BY PairsCount
<1>8. IsFiniteSet(A) /\ Cardinality(A) \in Nat
  BY ONLY <1>6, <1>7, FS_Subset, FS_CardinalityType
<1>9. X \cap A = {} /\ X \cup A \in SUBSET B
  BY <1>3, <1>6
<1>10. Cardinality(X \cup A) = Cardinality(X) + Cardinality(A)
  BY ONLY <1>1, <1>8, <1>9, UnionCount
<1>11. Cardinality(X \cup A) <= Cardinality(B)
  BY ONLY <1>7, <1>9, FS_Subset
<1> QED
  BY ONLY <1>1, <1>4, <1>5, <1>7, <1>8, <1>10, <1>11, A = Pairs(L, G), B = Pairs(L, E)

(* The pages that a batch needs are among those that its requests ask for. *)
LEMMA NeededAsked ==
    ASSUME PageSize = 1, PoolInv, LengthInv, RoomInv, phase = "allocate",
           NEW G, G = [r \in Req |-> (IF r \in BatchUids THEN req[r].device_len
                                      ELSE req[r].cached_len)..(AskEnd(r) - 1)]
    PROVE  /\ NeededPages \in Nat /\ Cardinality(Pairs(Asking, G)) \in Nat
           /\ Cardinality(Pairs(Asking, Asks)) \in Nat
           /\ NeededPages + Cardinality(Pairs(Asking, G)) <= Cardinality(Pairs(Asking, Asks))
<1> PICK L : L = Asking
  OBVIOUS
<1> PICK E : E = Asks
  OBVIOUS
<1> PICK N : N = Needed
  OBVIOUS
<1> PICK uid : uid = [i \in DOMAIN batch.reqs |-> batch.reqs[i].uid]
  OBVIOUS
<1>1. /\ Inv /\ ObjectInv /\ FitInv /\ ObjectTypes
  BY DEF PoolInv, CacheInv, PageInv, Inv
<1>2. /\ IsFiniteSet(Req) /\ L \subseteq live /\ live \subseteq Req
      /\ \A r \in Req : /\ Allocated(r) \in Nat /\ AskEnd(r) \in Int
                        /\ E[r] = Allocated(r)..(AskEnd(r) - 1) /\ IsFiniteSet(E[r])
  BY <1>1, AskTypes
<1>3. IsFiniteSet(N) /\ NeededPages = Cardinality(N) /\ NeededPages \in Nat
  BY <1>1, BatchPages DEF NeededPages
<1>4. \A r \in Req : /\ Allocated(r) = req[r].cached_len
                     /\ req[r].cached_len \in Nat /\ req[r].device_len \in Nat
                     /\ req[r].cached_len <= req[r].device_len
                     /\ G[r] = (IF r \in BatchUids THEN req[r].device_len
                                ELSE req[r].cached_len)..(AskEnd(r) - 1)
  BY <1>1 DEF Allocated, ObjectInv, WellFormed
<1>5. BatchUids \subseteq L
  <2>1. BatchUids \subseteq running_reqs \/ batch.phase = "prefill"
    BY DEF LengthInv, ChosenInv
  <2> QED
    BY <2>1 DEF Asking, Prefilling
<1>6. ASSUME NEW r \in BatchUids
      PROVE  req[r].device_len <= AskEnd(r)
  <2>1. r \in live /\ r \in Req
    BY <1>2, <1>5
  <2>2. /\ Total(r) \in Int /\ OutputLen(r) > 0 /\ OutputLen(r) \in Int
        /\ Len(Prompt[r]) \in Nat /\ req[r].device_len \in Nat
    BY <1>4, <2>1, TotalTypes DEF RoomInv
  <2>3. CASE r \in running_reqs
    <3>1. req[r].device_len < Total(r) /\ AskEnd(r) = Total(r) - 1
      BY <2>3 DEF LengthInv, RunningInv, AskEnd
    <3> QED
      BY <2>2, <3>1
  <2>4. CASE r \notin running_reqs
    <3>1. req[r].device_len <= Len(Prompt[r])
      BY <2>4 DEF LengthInv, ChosenInv, BatchUids
    <3>2. AskEnd(r) = Len(Prompt[r]) + OutputLen(r)
      BY <2>4 DEF AskEnd, Total
    <3> QED
      BY <2>2, <3>1, <3>2
  <2> QED
    BY <2>3, <2>4
<1>7. ASSUME NEW i \in DOMAIN uid
      PROVE  /\ uid[i] \in L /\ PagesOf(i) \subseteq E[uid[i]]
             /\ PagesOf(i) \cap G[uid[i]] = {}
  <2> PICK r : r = uid[i]
    OBVIOUS
  <2>1. r \in BatchUids /\ r \in L /\ r \in Req /\ r = batch.reqs[i].uid
    BY <1>2, <1>5 DEF BatchUids
  <2>2. \A n \in Nat : DivCeil(n) = n
    <3>1. \A n \in Nat : DivCeil(n) = n \div 1
      BY DEF DivCeil
    <3>2. \A n \in Nat : n \div 1 = n
      OBVIOUS
    <3> QED
      BY <3>1, <3>2
  <2>3. PagesOf(i) = req[r].cached_len..(req[r].device_len - 1)
    BY <1>4, <2>1, <2>2 DEF PagesOf, FirstPage, LastPage
  <2>4. req[r].device_len <= AskEnd(r)
    BY <1>6, <2>1
  <2>5. /\ E[r] = req[r].cached_len..(AskEnd(r) - 1) /\ AskEnd(r) \in Int
        /\ G[r] = req[r].device_len..(AskEnd(r) - 1)
        /\ req[r].cached_len \in Nat /\ req[r].device_len \in Nat
    BY <1>2, <1>4, <2>1
  <2>6. PagesOf(i) \subseteq E[r] /\ PagesOf(i) \cap G[r] = {}
    BY ONLY <2>3, <2>4, <2>5
  <2> QED
    BY <2>1, <2>6
<1>8. \A i, j \in DOMAIN uid : uid[i] = uid[j] => i = j
  BY <1>1 DEF Inv, BatchInv
<1> PICK P : P = [i \in DOMAIN uid |-> PagesOf(i)]
  OBVIOUS
<1>9. N = UNION {{i} \X P[i] : i \in DOMAIN uid}
  BY DEF Needed
<1>10. \A i \in DOMAIN uid : /\ uid[i] \in L /\ P[i] \subseteq E[uid[i]]
                             /\ P[i] \cap G[uid[i]] = {}
  BY <1>7
<1>11. IsFiniteSet(L)
  BY <1>2, FS_Subset
<1>12. \A r \in L : G[r] \subseteq E[r] /\ IsFiniteSet(E[r])
  <2> TAKE r \in L
  <2>1. /\ E[r] = req[r].cached_len..(AskEnd(r) - 1) /\ AskEnd(r) \in Int
        /\ req[r].cached_len \in Nat /\ req[r].device_len \in Nat
        /\ req[r].cached_len <= req[r].device_len /\ IsFiniteSet(E[r])
    BY <1>2, <1>4
  <2>2. G[r] = req[r].device_len..(AskEnd(r) - 1) \/ G[r] = req[r].cached_len..(AskEnd(r) - 1)
    BY <1>2, <1>4
  <2> QED
    BY ONLY <2>1, <2>2
<1>13. /\ Cardinality(N) \in Nat /\ Cardinality(Pairs(L, G)) \in Nat
       /\ Cardinality(Pairs(L, E)) \in Nat
       /\ Cardinality(N) + Cardinality(Pairs(L, G)) <= Cardinality(Pairs(L, E))
  BY ONLY <1>3, <1>8, <1>9, <1>10, <1>11, <1>12, PartsCount
<1> QED
  BY ONLY <1>3, <1>13, L = Asking, E = Asks

(* Allocation takes from what is free or evictable what the batch asks for. *)
LEMMA AllocateCover ==
    ASSUME PageSize = 1, PoolInv, PoolInv', LengthInv, RoomInv, Covered,
           AllocateFree \/ AllocateEvict
    PROVE  Covered'
<1>1. Inv /\ ObjectInv /\ HandleInv /\ TableInv /\ FitInv /\ PagesPartitioned
  BY DEF PoolInv, CacheInv, PageInv
<1>2. /\ phase = "allocate" /\ phase' = "forward"
      /\ UNCHANGED <<live, req, batch, lazy_free_list, running_reqs, pending_list>>
      /\ NeededPages \in Nat
  BY <1>1, AllocationTakes
<1>3. PICK V \in SUBSET Evictable(cache), slots \in Seq(Page) :
         /\ Cardinality(V) \in Nat
         /\ Taken(free_slots, cache, V, slots, NeededPages, free_slots', cache')
         /\ \A p \in DOMAIN cache' : cache'[p] = cache[p]
  BY <1>1, AllocationTakes
<1> PICK m : m = NeededPages
  OBVIOUS
<1> PICK G : G = Asks'
  OBVIOUS
<1>4. G = [r \in Req |-> (IF r \in BatchUids THEN req[r].device_len
                          ELSE req[r].cached_len)..(AskEnd(r) - 1)]
  BY <1>2 DEF Asks, Allocated, AskEnd, BatchUids, Total, OutputLen, MaxOutputLen
<1>5. Asking' = Asking
  BY <1>2 DEF Asking, Prefilling, BatchUids
<1>6. /\ Cardinality(Pairs(Asking, G)) \in Nat
      /\ Cardinality(Pairs(Asking, Asks)) \in Nat
      /\ m + Cardinality(Pairs(Asking, G)) <= Cardinality(Pairs(Asking, Asks))
  BY <1>2, <1>4, NeededAsked
<1> PICK e : e = Cardinality(Evictable(cache))
  OBVIOUS
<1> PICK v : v = Cardinality(V)
  OBVIOUS
<1> PICK f : f = Len(free_slots)
  OBVIOUS
<1>7. /\ IsFiniteSet(Evictable(cache)) /\ e \in Nat
      /\ f \in Nat /\ Len(lazy_free_list) \in Nat
  BY <1>1, FreeTypes
<1>8. Cardinality(Evictable(cache')) = e - v
  <2>1. Evictable(cache') = Evictable(cache) \ V
    BY <1>3 DEF Evictable, Taken
  <2>2. IsFiniteSet(V)
    BY <1>3, <1>7, FS_Subset
  <2>3. /\ IsFiniteSet(Evictable(cache) \ V) /\ (Evictable(cache) \ V) \cap V = {}
        /\ (Evictable(cache) \ V) \cup V = Evictable(cache)
    BY <1>3, <1>7, FS_Subset
  <2>4. e = Cardinality(Evictable(cache) \ V) + v
    <3>1. Cardinality((Evictable(cache) \ V) \cup V) = Cardinality(Evictable(cache) \ V) + v
      BY <2>2, <2>3, UnionCount
    <3> QED
      BY <2>3, <3>1
  <2>5. Cardinality(Evictable(cache) \ V) \in Nat
    BY <2>3, FS_CardinalityType
  <2> QED
    BY <1>3, <2>1, <2>4, <2>5
<1>9. Len(free_slots') = f + v - m
  <2>1. /\ m <= Len(slots) /\ Len(slots) = f + v
        /\ free_slots' = SubSeq(slots, m + 1, Len(slots))
    BY <1>3 DEF Taken
  <2>2. Len(free_slots') = Len(slots) - m
    BY <1>2, <2>1, TailOfSeq
  <2>3. m \in Nat /\ v \in Nat
    BY <1>2, <1>3
  <2> QED
    BY ONLY <1>7, <2>1, <2>2, <2>3
<1>10. FreePages' = (e - v) + (f + v - m) + Len(lazy_free_list)
  BY <1>2, <1>8, <1>9 DEF FreePages
<1>11. Cardinality(Pairs(Asking, Asks)) <= e + f + Len(lazy_free_list)
  BY DEF Covered, FreePages
<1>12. Cardinality(Pairs(Asking, G)) <= FreePages'
  <2>1. v \in Nat /\ m \in Nat
    BY <1>2, <1>3
  <2> QED
    BY ONLY <1>6, <1>7, <1>10, <1>11, <2>1
<1> QED
  BY <1>5, <1>12 DEF Covered

(* What a batch needs can always be had. *)
LEMMA AllocationSucceeds ==
    ASSUME PageSize = 1, PoolInv, LengthInv, RoomInv, Covered
    PROVE  ~AllocateFails
<1> SUFFICES ASSUME AllocateFails PROVE FALSE
  OBVIOUS
<1> PICK m : m = NeededPages
  OBVIOUS
<1> PICK e : e = Cardinality(Evictable(cache))
  OBVIOUS
<1> PICK f : f = Len(free_slots)
  OBVIOUS
<1>1. phase = "allocate" /\ PageSize * (m - f) > PageSize * e
  BY DEF AllocateFails, EvictableSize
<1>2. lazy_free_list = <<>>
  BY <1>1 DEF LengthInv, LazyInv
<1>3. e \in Nat /\ f \in Nat
  BY FreeTypes DEF PoolInv, PageInv
<1> PICK G : G = [r \in Req |-> (IF r \in BatchUids THEN req[r].device_len
                                 ELSE req[r].cached_len)..(AskEnd(r) - 1)]
  OBVIOUS
<1>4. /\ m \in Nat /\ Cardinality(Pairs(Asking, G)) \in Nat
      /\ Cardinality(Pairs(Asking, Asks)) \in Nat
      /\ m + Cardinality(Pairs(Asking, G)) <= Cardinality(Pairs(Asking, Asks))
  BY <1>1, NeededAsked
<1>5. Cardinality(Pairs(Asking, Asks)) <= e + f + 0
  BY <1>2 DEF Covered, FreePages
<1>6. m - f > e
  BY ONLY <1>1, <1>3, <1>4, PageSize = 1
<1> QED
  BY ONLY <1>3, <1>4, <1>5, <1>6

-----------------------------------------------------------------------------
(* The reservation *)

(* What is reserved when a batch is chosen is what the running requests ask for. *)
LEMMA ReservedAtStart ==
    ASSUME PageSize = 1, PoolInv, LengthInv, phase # "forward"
    PROVE  InflightTokens = Cardinality(Pairs(running_reqs, Asks)) /\ InflightTokens \in Nat
<1>1. Inv /\ ObjectInv
  BY DEF PoolInv, CacheInv
<1>2. IsFiniteSet(running_reqs) /\ running_reqs \subseteq live /\ running_reqs \subseteq Req
  <2>1. IsFiniteSet(Req) /\ running_reqs \subseteq Req
    BY <1>1, AskTypes DEF Inv, QueueTypes
  <2> QED
    BY <1>1, <2>1, FS_Subset DEF Inv, PlacesDisjoint
<1>3. \A r \in running_reqs :
         IsFiniteSet(Asks[r]) /\ Cardinality(Asks[r]) = RemainLen(req[r])
  <2> TAKE r \in running_reqs
  <2> PICK a : a = Allocated(r)
    OBVIOUS
  <2> PICK e : e = AskEnd(r)
    OBVIOUS
  <2>1. r \in Req /\ r \in live /\ ~req[r].chunked
    BY <1>1, <1>2 DEF Inv, PlacesDisjoint, Continuing
  <2>2. a \in Nat /\ e \in Int /\ Asks[r] = a..(e - 1) /\ IsFiniteSet(Asks[r])
    BY <1>1, <2>1, AskTypes
  <2>3. Total(r) \in Int /\ e = Total(r) - 1 /\ req[r].max_device_len = Total(r)
    BY <2>1, TotalTypes DEF AskEnd, LengthInv, TotalsInv
  <2>4. req[r].device_len = a + 1 /\ req[r].device_len < Total(r)
    BY <2>1 DEF LengthInv, RunningInv, Allocated
  <2>5. e \in Nat /\ a <= e /\ RemainLen(req[r]) = e - a
    BY <2>2, <2>3, <2>4 DEF RemainLen
  <2> QED
    BY <2>2, <2>5, IntervalCount
<1>4. MapThenSumSet(LAMBDA r : RemainLen(req[r]), running_reqs)
        = Cardinality(Pairs(running_reqs, Asks))
  <2> PICK E : E = Asks
    OBVIOUS
  <2>1. \A r \in running_reqs : IsFiniteSet(E[r]) /\ Cardinality(E[r]) = RemainLen(req[r])
    BY <1>3
  <2>2. MapThenSumSet(LAMBDA r : RemainLen(req[r]), running_reqs) = Cardinality(Pairs(running_reqs, E))
    BY ONLY <1>2, <2>1, InflightCount
  <2> QED
    BY <2>2
<1>5. Cardinality(Pairs(running_reqs, Asks)) \in Nat
  BY <1>2, <1>3, PairsCount
<1>6. (PageSize - 1) * Cardinality(running_reqs) = 0
  <2> PICK n : n = Cardinality(running_reqs)
    OBVIOUS
  <2>1. n \in Nat
    BY <1>2, FS_CardinalityType
  <2>2. (1 - 1) * n = 0
    BY ONLY <2>1
  <2> QED
    BY <2>2
<1> QED
  BY <1>4, <1>5, <1>6 DEF InflightTokens

(* The request that is admitted is not among those that were. *)
LEMMA CandidateIsNew ==
    ASSUME PoolInv, AdmitChunk \/ AdmitNew
    PROVE  /\ Candidate \in Req /\ Candidate \notin Reserving
           /\ Reserving' = Reserving \cup {Candidate} /\ OutputLen(Candidate) > 0
           /\ AdmitNew => Asking \subseteq Reserving /\ Candidate \notin live
<1> PICK r : r = Candidate
  OBVIOUS
<1> PICK n : n = Len(adder.reqs)
  OBVIOUS
<1>1. Inv /\ ObjectInv /\ RefInv /\ FitInv
  BY DEF PoolInv, CacheInv, PageInv
<1>2. /\ phase = "admit" /\ n + 1 \in DOMAIN pending_list /\ r = pending_list[n + 1]
      /\ live' = live \cup {r} /\ UNCHANGED <<running_reqs, pending_list, phase, batch>>
  BY <1>1, AdmittedRequest DEF Candidate
<1>3. /\ n \in Nat /\ adder.reqs \in Seq(Entry) /\ DOMAIN adder.reqs = 1..n
      /\ pending_list \in Seq(Req) /\ DOMAIN pending_list = 1..Len(pending_list)
      /\ Len(pending_list) \in Nat
  BY <1>1, LenProperties DEF Inv, QueueTypes
<1>4. /\ r \in Req
      /\ adder'.reqs = Append(adder.reqs, [uid |-> r, chunked |-> req'[r].chunked])
  BY <1>1, AdmittedLengths
<1>5. \A i \in 1..n : adder.reqs[i].uid = pending_list[i] /\ i \in DOMAIN pending_list
  BY <1>1, <1>2, <1>3 DEF Inv, AddingInv
<1>6. AddedUids = {pending_list[i] : i \in 1..n}
  BY <1>3, <1>5 DEF AddedUids
<1>7. r \notin AddedUids
  <2>1. \A i \in 1..n : pending_list[i] # pending_list[n + 1]
    BY ONLY <1>1, <1>2, <1>3, <1>5 DEF Inv, PlacesDisjoint, IsInjective
  <2> QED
    BY <1>2, <1>6, <2>1
<1>8. r \notin running_reqs
  BY <1>1, <1>2 DEF Inv, PlacesDisjoint
<1>9. AddedUids' = AddedUids \cup {r}
  <2> PICK a : a = adder.reqs
    OBVIOUS
  <2> PICK x : x = [uid |-> r, chunked |-> req'[r].chunked]
    OBVIOUS
  <2>1. /\ DOMAIN Append(a, x) = 1..(n + 1) /\ \A i \in 1..n : Append(a, x)[i] = a[i]
        /\ Append(a, x)[n + 1] = x /\ x.uid = r /\ DOMAIN a = 1..n
    BY <1>3
  <2>2. {Append(a, x)[i].uid : i \in 1..(n + 1)} = {a[i].uid : i \in 1..n} \cup {r}
    <3>1. \A i \in 1..(n + 1) : i \in 1..n \/ i = n + 1
      BY <1>3
    <3>2. \A i \in 1..n : i \in 1..(n + 1)
      BY <1>3
    <3>3. n + 1 \in 1..(n + 1)
      BY <1>3
    <3> QED
      BY ONLY <2>1, <3>1, <3>2, <3>3
  <2>3. AddedUids' = {Append(a, x)[i].uid : i \in 1..(n + 1)}
    BY <1>4, <2>1 DEF AddedUids
  <2>4. AddedUids = {a[i].uid : i \in 1..n}
    BY <2>1 DEF AddedUids
  <2> QED
    BY <2>2, <2>3, <2>4
<1>10. OutputLen(r) > 0
  <2>1. MaxOutputLen(r) > 0
    BY <1>1, <1>2 DEF FitInv, ToSet
  <2> QED
    BY <1>4, <2>1, TotalTypes
<1>11. AdmitNew => Asking \subseteq Reserving /\ r \notin live
  <2> SUFFICES ASSUME AdmitNew PROVE Asking \subseteq Reserving /\ r \notin live
    OBVIOUS
  <2>1. ~Continuing(r)
    BY DEF AdmitNew
  <2>2. r \notin live
    BY <1>1, <1>2, <1>3, <2>1 DEF Inv, HeadIsChunked, Admitted
  <2>3. ASSUME NEW i \in DOMAIN pending_list, i > n PROVE pending_list[i] \notin live
    <3>1. Continuing(pending_list[i]) => i = 1
      BY <1>1, <1>2, <2>3 DEF Inv, HeadIsChunked, Admitted
    <3>2. i = 1 => i = n + 1
      BY <1>3, <2>3
    <3> QED
      BY <1>1, <1>2, <2>1, <2>3, <3>1, <3>2 DEF Inv, HeadIsChunked, Admitted
  <2>4. ASSUME NEW s \in live, s \in ToSet(pending_list) PROVE s \in AddedUids
    <3>1. PICK i \in DOMAIN pending_list : s = pending_list[i]
      BY <2>4 DEF ToSet
    <3>2. ~(i > n)
      BY <2>3, <3>1
    <3>3. i \in 1..n
      BY <1>3, <3>2
    <3> QED
      BY <1>6, <3>1, <3>3
  <2>5. Asking \subseteq Reserving
    BY <1>2, <2>4 DEF Asking, Prefilling, Reserving
  <2> QED
    BY <2>2, <2>5
<1> QED
  BY <1>2, <1>4, <1>7, <1>8, <1>9, <1>10, <1>11 DEF Reserving

(* An admission reserves what the request asks for. *)
LEMMA AdmittedReserved ==
    ASSUME PoolInv, PoolInv', LengthInv, ReservedInv, AdmitChunk \/ AdmitNew
    PROVE  /\ adder'.reserved_size \in Int
           /\ Cardinality(Pairs(Reserving', Asks')) <= adder'.reserved_size
           /\ adder'.reserved_size
                = adder.reserved_size + (Len(Prompt[Candidate]) - req'[Candidate].cached_len)
                    + OutputLen(Candidate)
           /\ IsFiniteSet(Reserving') /\ \A s \in Reserving' : IsFiniteSet(Asks'[s])
<1> PICK r : r = Candidate
  OBVIOUS
<1>1. Inv /\ ObjectInv /\ RefInv
  BY DEF PoolInv, CacheInv
<1>2. phase = "admit" /\ phase' = "admit" /\ running_reqs' = running_reqs
  BY <1>1, AdmittedRequest
<1>3. /\ r \in Req /\ r \notin Reserving /\ Reserving' = Reserving \cup {r}
      /\ OutputLen(r) > 0
  BY CandidateIsNew
<1>4. /\ \A s \in Req : s # r => req'[s] = req[s]
      /\ req'[r].cached_len \in Nat /\ req'[r].cached_len < Len(Prompt[r])
      /\ adder'.reserved_size
           = adder.reserved_size + (Len(Prompt[r]) - req'[r].cached_len) + OutputLen(r)
  BY <1>1, AdmittedLengths
<1> PICK L : L = Reserving
  OBVIOUS
<1> PICK M : M = L \cup {r}
  OBVIOUS
<1> PICK E : E = Asks
  OBVIOUS
<1> PICK G : G = Asks'
  OBVIOUS
<1> PICK n : n = req'[r].cached_len
  OBVIOUS
<1>5. /\ IsFiniteSet(Req) /\ L \subseteq Req /\ IsFiniteSet(L) /\ IsFiniteSet(M)
      /\ \A s \in Req : IsFiniteSet(E[s])
  <2>1. IsFiniteSet(Req) /\ L \subseteq Req /\ \A s \in Req : IsFiniteSet(E[s])
    BY <1>1, AskTypes
  <2>2. M \subseteq Req
    BY <1>3, <2>1
  <2> QED
    BY <2>1, <2>2, FS_Subset
<1>6. /\ Total(r) \in Nat /\ n \in Nat /\ n <= Total(r) /\ Total(r) \in Int
      /\ Len(Prompt[r]) \in Nat /\ OutputLen(r) \in Int
      /\ Total(r) = Len(Prompt[r]) + OutputLen(r)
  BY <1>3, <1>4, TotalTypes DEF Total
<1>7. G[r] = n..(Total(r) - 1)
  <2>1. r \notin running_reqs'
    BY <1>2, <1>3 DEF Reserving
  <2> QED
    BY <1>2, <1>3, <2>1 DEF Asks, Allocated, AskEnd, Total, OutputLen, MaxOutputLen
<1>8. IsFiniteSet(G[r]) /\ Cardinality(G[r]) = Total(r) - n
  BY <1>6, <1>7, IntervalCount
<1>9. \A s \in Req : s # r => G[s] = E[s]
  BY <1>2, <1>4 DEF Asks, Allocated, AskEnd, Total, OutputLen, MaxOutputLen
<1>10. /\ Cardinality(Pairs(L, E)) \in Nat /\ Cardinality(Pairs(M, G)) \in Nat
       /\ Cardinality(Pairs(M, G)) = Cardinality(Pairs(L, E)) + (Total(r) - n)
  <2>1. /\ \A s \in L : IsFiniteSet(E[s])
        /\ \A s \in M : IsFiniteSet(G[s])
        /\ L \ {r} = M \ {r}
        /\ \A s \in L \ {r} : G[s] = E[s]
    BY <1>3, <1>5, <1>8, <1>9
  <2>2. PartOf(r, L, E) = {} /\ PartOf(r, M, G) = G[r]
    BY <1>3 DEF PartOf
  <2>3. /\ Cardinality(Pairs(L, E)) \in Nat /\ Cardinality(Pairs(M, G)) \in Nat
        /\ Cardinality(Pairs(M, G)) + Cardinality(PartOf(r, L, E))
             = Cardinality(Pairs(L, E)) + Cardinality(PartOf(r, M, G))
    BY ONLY <1>5, <2>1, PairsOfOne
  <2>4. Cardinality({}) = 0
    BY FS_EmptySet
  <2> QED
    BY <1>6, <1>8, <2>2, <2>3, <2>4
<1>11. adder.reserved_size \in Int /\ Cardinality(Pairs(L, E)) <= adder.reserved_size
  BY <1>2 DEF ReservedInv
<1>12. /\ adder'.reserved_size \in Int
       /\ Cardinality(Pairs(M, G)) <= adder'.reserved_size
  <2> PICK k : k = adder.reserved_size
    OBVIOUS
  <2> PICK k2 : k2 = adder'.reserved_size
    OBVIOUS
  <2>1. k2 = k + (Len(Prompt[r]) - n) + OutputLen(r)
    BY <1>4
  <2>2. k \in Int /\ Cardinality(Pairs(L, E)) <= k
    BY <1>11
  <2>3. k2 \in Int /\ Cardinality(Pairs(M, G)) <= k2
    BY ONLY <1>6, <1>10, <2>1, <2>2, SMTT(40)
  <2> QED
    BY <2>3
<1>13. \A s \in M : IsFiniteSet(G[s])
  BY <1>3, <1>5, <1>8, <1>9
<1> QED
  BY <1>3, <1>4, <1>5, <1>12, <1>13

(* The reservation is made afresh for each batch. *)
LEMMA ReservedStep ==
    ASSUME PageSize = 1, PoolInv, PoolInv', LengthInv, LengthInv', ReservedInv, [Next]_vars
    PROVE  ReservedInv'
<1>1. CASE UNCHANGED vars
  BY <1>1 DEF ReservedInv, Reserving, AddedUids, Asks, Allocated, AskEnd, Total, OutputLen,
              MaxOutputLen, BatchUids, vars, loop_vars, queue_vars
<1>2. CASE StartSchedule
  <2>1. /\ phase = "receive" /\ phase' = "admit" /\ adder'.reqs = <<>>
        /\ adder'.reserved_size = InflightTokens /\ UNCHANGED <<running_reqs, req>>
    BY <1>2 DEF StartSchedule, queue_vars
  <2>2. InflightTokens = Cardinality(Pairs(running_reqs, Asks)) /\ InflightTokens \in Nat
    BY <2>1, ReservedAtStart
  <2>3. Asks' = Asks
    BY <2>1 DEF Asks, Allocated, AskEnd, Total, OutputLen, MaxOutputLen
  <2>4. Reserving' = running_reqs
    BY <2>1 DEF Reserving, AddedUids
  <2> QED
    BY <2>1, <2>2, <2>3, <2>4 DEF ReservedInv
<1>3. CASE AdmitChunk \/ AdmitNew
  BY <1>3, AdmittedReserved DEF ReservedInv
<1>4. CASE phase' # "admit"
  BY <1>4 DEF ReservedInv
<1>5. (UNCHANGED vars) \/ StartSchedule \/ AdmitChunk \/ AdmitNew \/ phase' # "admit"
  BY DEF Next, Receive, ReceiveUser, ReceiveAbort, FreeNow, Loop, Admit, SchedulePrefill,
         ScheduleDecode, ScheduleNothing, Allocate, AllocateFree, AllocateEvict, AllocateFails,
         Forward, Process, ProcessChunk, ProcessFinished, ProcessPrefilled, ProcessDecoded,
         ProcessFails, EndIteration, InProcess, loop_vars
<1> QED
  BY <1>1, <1>2, <1>3, <1>4, <1>5

(* A request is admitted when what is reserved with it fits after its prefix is locked. *)
LEMMA AdmittedCover ==
    ASSUME PageSize = 1, PoolInv, PoolInv', LengthInv, ReservedInv, AdmitNew
    PROVE  Covered'
<1> PICK r : r = Candidate
  OBVIOUS
<1> PICK n : n = Len(MatchReq(cache, r))
  OBVIOUS
<1> PICK k : k = adder.reserved_size
  OBVIOUS
<1> PICK k2 : k2 = adder'.reserved_size
  OBVIOUS
<1>1. Inv /\ ObjectInv /\ RefInv /\ TableInv
  BY DEF PoolInv, CacheInv, PageInv
<1>2. /\ live' = live \cup {r} /\ phase' = "admit" /\ phase = "admit"
      /\ UNCHANGED <<running_reqs, pending_list>>
  BY <1>1, AdmittedRequest
<1>3. /\ r \in Req /\ req'[r].cached_len = n /\ n \in Nat
      /\ Total(r) \in Int /\ Len(Prompt[r]) \in Nat /\ OutputLen(r) \in Int
  BY <1>1, AdmittedLengths, TotalTypes
<1>4. /\ k2 \in Int /\ k2 = k + (Len(Prompt[r]) - n) + OutputLen(r)
      /\ Cardinality(Pairs(Reserving', Asks')) <= k2
      /\ IsFiniteSet(Reserving') /\ \A s \in Reserving' : IsFiniteSet(Asks'[s])
  BY <1>3, AdmittedReserved
<1>5. k \in Int
  BY <1>2 DEF ReservedInv
<1>6. Asking' \subseteq Reserving'
  <2>1. Asking \subseteq Reserving /\ Reserving' = Reserving \cup {r}
    BY CandidateIsNew
  <2>2. Asking' \subseteq Asking \cup {r}
    BY <1>2 DEF Asking, Prefilling
  <2> QED
    BY <2>1, <2>2
<1>7. /\ Cardinality(Pairs(Asking', Asks')) <= Cardinality(Pairs(Reserving', Asks'))
      /\ Cardinality(Pairs(Asking', Asks')) \in Nat
      /\ Cardinality(Pairs(Reserving', Asks')) \in Nat
  <2> PICK L : L = Reserving'
    OBVIOUS
  <2> PICK M : M = Asking'
    OBVIOUS
  <2> PICK G : G = Asks'
    OBVIOUS
  <2>1. IsFiniteSet(L) /\ M \subseteq L /\ \A s \in L : IsFiniteSet(G[s])
    BY <1>4, <1>6
  <2>2. \A s \in M : G[s] \subseteq G[s]
    OBVIOUS
  <2>3. /\ Cardinality(Pairs(L, G)) \in Nat /\ Cardinality(Pairs(M, G)) \in Nat
        /\ Cardinality(Pairs(M, G)) <= Cardinality(Pairs(L, G))
    BY ONLY <2>1, <2>2, PairsShrink
  <2> QED
    BY <2>3
<1> PICK e : e = Cardinality(Evictable(cache'))
  OBVIOUS
<1> PICK f : f = Len(free_slots)
  OBVIOUS
<1>8. e \in Nat /\ f \in Nat /\ Len(lazy_free_list') \in Nat
  <2>1. TableInv'
    BY DEF PoolInv, PageInv
  <2>2. IsFiniteSet(DOMAIN cache') /\ Evictable(cache') \in SUBSET DOMAIN cache'
    BY <2>1 DEF TableInv, Evictable
  <2>3. e \in Nat
    BY <2>2, FS_Subset, FS_CardinalityType
  <2> QED
    BY <1>1, <2>1, <2>3 DEF TableInv
<1>9. Len(Prompt[r]) - n + OutputLen(r) + k <= e + f
  <2>1. CanAllocate(r) /\ cache' = LockHandle(cache, MatchReq(cache, r))
    BY DEF AdmitNew
  <2>2. Len(Prompt[r]) - n + OutputLen(r) + k <= AvailableSize(cache')
    BY <2>1 DEF CanAllocate
  <2>3. AvailableSize(cache') = 1 * e + f * 1
    BY DEF AvailableSize, EvictableSize
  <2> QED
    BY <1>8, <2>2, <2>3
<1>10. FreePages' = e + f + Len(lazy_free_list')
  BY DEF FreePages, AdmitNew
<1> PICK a : a = Cardinality(Pairs(Asking', Asks'))
  OBVIOUS
<1> PICK b : b = Cardinality(Pairs(Reserving', Asks'))
  OBVIOUS
<1> PICK l : l = Len(lazy_free_list')
  OBVIOUS
<1>11. a <= e + f + l
  <2>1. a \in Nat /\ b \in Nat /\ a <= b /\ b <= k2 /\ l \in Nat
    BY <1>4, <1>7, <1>8
  <2> PICK p : p = Len(Prompt[r])
    OBVIOUS
  <2> PICK o : o = OutputLen(r)
    OBVIOUS
  <2>2. p \in Nat /\ o \in Int /\ n \in Nat /\ k \in Int /\ e \in Nat /\ f \in Nat
    BY <1>3, <1>5, <1>8
  <2>3. k2 = k + (p - n) + o
    BY <1>4
  <2>4. p - n + o + k <= e + f
    BY <1>9
  <2> QED
    BY ONLY <2>1, <2>2, <2>3, <2>4
<1> QED
  BY <1>10, <1>11 DEF Covered

(* So the pages that are free or can be evicted cover what may be asked for. *)
LEMMA CoverStep ==
    ASSUME PageSize = 1, PoolInv, PoolInv', LengthInv, RoomInv, ReservedInv, Covered, [Next]_vars
    PROVE  Covered'
<1>1. CASE UNCHANGED vars
  BY <1>1 DEF Covered, FreePages, Asking, Prefilling, Asks, Allocated, AskEnd, Total, OutputLen,
              MaxOutputLen, BatchUids, vars, loop_vars, queue_vars, pool_vars, ghost_vars
<1>2. CASE Receive
  BY <1>2, QuietCover, ReleasedCover DEF Receive
<1>3. CASE StartSchedule \/ AdmitChunk \/ SchedulePrefill \/ ScheduleDecode \/ ScheduleNothing
  BY <1>3, QuietCover
<1>4. CASE AdmitNew
  BY <1>4, AdmittedCover
<1>5. CASE AllocateFree \/ AllocateEvict
  BY <1>5, AllocateCover
<1>6. CASE Forward
  BY <1>6, ForwardCover
<1>7. CASE AllocateFails \/ ProcessChunk \/ ProcessDecoded \/ ProcessFails \/ EndIteration
  BY <1>7, QuietCover
<1>8. CASE ProcessFinished \/ ProcessPrefilled
  BY <1>8, ReleasedCover
<1> QED
  BY <1>1, <1>2, <1>3, <1>4, <1>5, <1>6, <1>7, <1>8 DEF Next, Loop, Admit, Allocate, Process

(* Nothing is asked for, reserved or lazily freed at the start. *)
LEMMA InitReserve == Init => ReserveInv
<1> SUFFICES ASSUME Init PROVE ReserveInv
  OBVIOUS
<1>1. /\ phase = "receive" /\ running_reqs = {} /\ live = {} /\ lazy_free_list = <<>>
      /\ pending_list = <<>>
  BY DEF Init
<1>2. LengthInv /\ RoomInv /\ ReservedInv
  BY <1>1 DEF LengthInv, TotalsInv, RunningInv, AddedInv, ChosenInv, LazyInv, RoomInv, ReservedInv
<1>3. Asking = {}
  BY <1>1 DEF Asking, Prefilling
<1>4. Cardinality(Pairs(Asking, Asks)) = 0
  <2>1. Pairs(Asking, Asks) = {}
    BY <1>3 DEF Pairs
  <2> QED
    BY <2>1, FS_EmptySet
<1>5. FreePages \in Nat
  BY FreeTypes, InitPages DEF PageInv
<1>6. Covered
  BY <1>4, <1>5 DEF Covered
<1> QED
  BY <1>1, <1>2, <1>6 DEF ReserveInv

(* The pages that can be had always cover what is asked for, and no assertion *)
(* of the cache is tripped.                                                   *)
LEMMA ReserveInvariance ==
    ASSUME NoAbortInFlight, PageSize = 1
    PROVE  Spec => [](PoolInv /\ ReserveInv)
<1>1. Spec => []PoolInv
  BY PageInvariance DEF PoolInv
<1>2. Init => ReserveInv
  BY InitReserve
<1>3. ASSUME PoolInv, PoolInv', ReserveInv, [Next]_vars
      PROVE  ReserveInv'
  <2>1. LengthInv /\ RoomInv /\ Covered /\ ReservedInv /\ phase # "failed" /\ CacheInv
    BY <1>3 DEF ReserveInv, PoolInv
  <2>2. LengthInv' /\ RoomInv'
    BY <1>3, <2>1, LengthStep, RoomStep
  <2>3. Covered' /\ ReservedInv'
    BY <1>3, <2>1, <2>2, CoverStep, ReservedStep
  <2>4. phase' # "failed"
    <3>1. CASE UNCHANGED vars
      BY <2>1, <3>1 DEF vars, loop_vars
    <3>2. CASE Next
      BY <1>3, <2>1, <3>2, OnlyAllocationFails, AllocationSucceeds
    <3> QED
      BY <1>3, <3>1, <3>2
  <2> QED
    BY <2>2, <2>3, <2>4 DEF ReserveInv
<1> QED
  BY <1>1, <1>2, <1>3, PTL DEF Spec

(* What is reserved when a batch is chosen is within what can be had. *)
LEMMA ReservationCovers ==
    ASSUME PageSize = 1, PoolInv, ReserveInv
    PROVE  ReservationHolds
<1> SUFFICES ASSUME phase = "receive"
             PROVE  InflightTokens + ContinuingTokens <= AvailableSize(cache)
  BY DEF ReservationHolds
<1>1. Inv /\ ObjectInv /\ LengthInv /\ RoomInv /\ Covered
  BY DEF PoolInv, CacheInv, ReserveInv
<1> PICK C : C = {r \in ToSet(pending_list) : Continuing(r)}
  OBVIOUS
<1> PICK E : E = Asks
  OBVIOUS
<1>2. C \subseteq live /\ C \cap running_reqs = {} /\ running_reqs \cup C \subseteq Asking
  <2>1. ASSUME NEW r \in C PROVE r \in live /\ r \notin running_reqs
    <3>1. PICK i \in DOMAIN pending_list : pending_list[i] = r
      BY DEF ToSet
    <3>2. i > Admitted
      BY <1>1 DEF Admitted, Inv, QueueTypes
    <3>3. r \in live
      BY <1>1, <3>1, <3>2 DEF Inv, HeadIsChunked
    <3> QED
      BY <1>1, <3>3 DEF Inv, PlacesDisjoint, Continuing
  <2> QED
    BY <2>1 DEF Asking, Prefilling
<1>3. /\ IsFiniteSet(C) /\ IsFiniteSet(running_reqs) /\ IsFiniteSet(Asking)
      /\ \A r \in Asking : r \in Req /\ IsFiniteSet(E[r])
  BY <1>1, <1>2, AskTypes, FS_Subset
<1>4. \A r \in C : Cardinality(E[r]) = Len(Prompt[r]) - req[r].cached_len + OutputLen(r)
  <2> TAKE r \in C
  <2> PICK p : p = Len(Prompt[r])
    OBVIOUS
  <2> PICK o : o = OutputLen(r)
    OBVIOUS
  <2> PICK c : c = req[r].cached_len
    OBVIOUS
  <2>1. r \in Req /\ r \in live /\ r \notin running_reqs /\ req[r].chunked
    BY <1>2, <1>3 DEF Continuing
  <2>2. p \in Nat /\ o \in Int /\ o > 0
    BY <1>1, <2>1, TotalTypes DEF RoomInv
  <2>3. c \in Nat /\ c <= p
    BY <1>1, <2>1 DEF ObjectInv, WellFormed
  <2> PICK a : a = Allocated(r)
    OBVIOUS
  <2> PICK t : t = AskEnd(r)
    OBVIOUS
  <2>4. a = c /\ t = p + o /\ E[r] = a..(t - 1)
    BY <1>1, <2>1, AskTypes DEF Allocated, AskEnd, Total
  <2>5. p + o \in Nat /\ c <= p + o /\ p + o - c = p - c + o
    BY ONLY <2>2, <2>3
  <2>6. a \in Nat /\ t \in Nat /\ a <= t /\ t - a = p - c + o
    <3>1. a = c /\ t = p + o
      BY <2>4
    <3> QED
      BY <2>2, <2>3, <2>5, <3>1
  <2>7. Cardinality(a..(t - 1)) = t - a
    BY ONLY <2>6, IntervalCount
  <2> QED
    BY <2>4, <2>6, <2>7
<1>5. ContinuingTokens = Cardinality(Pairs(C, E))
  <2>1. \A r \in C : /\ IsFiniteSet(E[r])
                     /\ Cardinality(E[r]) = Len(Prompt[r]) - req[r].cached_len + OutputLen(r)
    BY <1>2, <1>3, <1>4
  <2>2. C = {r \in ToSet(pending_list) : Continuing(r)}
    OBVIOUS
  <2> QED
    BY ONLY <1>3, <2>1, <2>2, ContinuingCount
<1>6. InflightTokens = Cardinality(Pairs(running_reqs, E))
  BY <1>1, ReservedAtStart
<1> PICK i : i = Cardinality(Pairs(running_reqs, E))
  OBVIOUS
<1> PICK c : c = Cardinality(Pairs(C, E))
  OBVIOUS
<1> PICK a : a = Cardinality(Pairs(Asking, E))
  OBVIOUS
<1>7. i \in Nat /\ c \in Nat /\ a \in Nat /\ i + c <= a
  <2> PICK R : R = running_reqs
    OBVIOUS
  <2> PICK A : A = Asking
    OBVIOUS
  <2>1. /\ R \cup C \subseteq A /\ IsFiniteSet(A) /\ \A r \in A : IsFiniteSet(E[r])
        /\ IsFiniteSet(R) /\ IsFiniteSet(C) /\ R \cap C = {}
    BY <1>2, <1>3
  <2>2. /\ IsFiniteSet(Pairs(R, E)) /\ IsFiniteSet(Pairs(C, E)) /\ IsFiniteSet(Pairs(A, E))
    BY ONLY <2>1, PairsCount
  <2>3. /\ Pairs(R, E) \cap Pairs(C, E) = {}
        /\ Pairs(R, E) \cup Pairs(C, E) \in SUBSET Pairs(A, E)
    BY ONLY <2>1 DEF Pairs
  <2> PICK X : X = Pairs(R, E)
    OBVIOUS
  <2> PICK Y : Y = Pairs(C, E)
    OBVIOUS
  <2> PICK Z : Z = Pairs(A, E)
    OBVIOUS
  <2>4. /\ IsFiniteSet(X) /\ IsFiniteSet(Y) /\ IsFiniteSet(Z) /\ X \cap Y = {}
        /\ X \cup Y \in SUBSET Z
    BY <2>2, <2>3
  <2>5. /\ Cardinality(X) \in Nat /\ Cardinality(Y) \in Nat /\ Cardinality(Z) \in Nat
        /\ Cardinality(X \cup Y) = Cardinality(X) + Cardinality(Y)
        /\ Cardinality(X \cup Y) <= Cardinality(Z)
    BY ONLY <2>4, UnionCount, FS_Subset, FS_CardinalityType
  <2> QED
    BY <2>5
<1> PICK e : e = Cardinality(Evictable(cache))
  OBVIOUS
<1> PICK f : f = Len(free_slots)
  OBVIOUS
<1>8. a <= e + f + 0
  <2>1. lazy_free_list = <<>>
    BY <1>1 DEF LengthInv, LazyInv
  <2> QED
    BY <1>1, <2>1 DEF Covered, FreePages
<1>9. e \in Nat /\ f \in Nat
  BY FreeTypes DEF PoolInv, PageInv
<1>10. AvailableSize(cache) = e + f
  <2>1. AvailableSize(cache) = 1 * e + f * 1
    BY DEF AvailableSize, EvictableSize
  <2> QED
    BY <1>9, <2>1
<1>11. i + c <= e + f
  BY ONLY <1>7, <1>8, <1>9
<1> QED
  BY <1>5, <1>6, <1>10, <1>11

(* With pages of one token, the pages that are free or can be evicted cover    *)
(* all that the running requests and the half-prefilled one can still ask for, *)
(* whenever a batch is chosen (PrefillAdder._try_allocate_one): no admission,  *)
(* chunk, lock, duplicate prefix, finish or abort leaves less.                 *)
THEOREM AdmissionReservesEnough ==
    ASSUME NoAbortInFlight, PageSize = 1
    PROVE  Spec => []ReservationHolds
<1>1. PoolInv /\ ReserveInv => ReservationHolds
  BY ReservationCovers
<1> QED
  BY <1>1, ReserveInvariance, PTL

(* So an allocation always succeeds ("assert size <= self.evictable_size", in  *)
(* radix_cache.py), and with it the scheduler never trips an assertion.        *)
THEOREM NoAllocationFails ==
    ASSUME NoAbortInFlight, PageSize = 1
    PROVE  Spec => []NoAssertionFails
<1>1. PoolInv /\ ReserveInv => NoAssertionFails
  BY DEF ReserveInv, NoAssertionFails
<1> QED
  BY <1>1, ReserveInvariance, PTL

=============================================================================
