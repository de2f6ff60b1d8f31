---------------------------- MODULE ServerLemmas ----------------------------
(***************************************************************************)
(* What the operators of the servers' models do, for every value of their  *)
(* parameters: recursion over numbers first, on which the loops of the     *)
(* models rest, then sessions with their scrollback, then channel maps.    *)
(* The proofs of the servers and of the channel map cite these lemmas.     *)
(***************************************************************************)
EXTENDS Session, ChannelMap, WellFoundedInduction, SequenceTheorems, TLAPS

\* A set of numbers that is not empty contains its minimum.
LEMMA LeastElement ==
  ASSUME NEW S \in SUBSET Nat, S # {}
  PROVE  Min(S) \in S
<1>1. PICK n \in S : \A k \in S : <<k, n>> \notin OpToRel(<, Nat)
  BY NatLessThanWellFounded, WFMin
<1>2. \A k \in S : ~ (k < n)
  BY <1>1 DEF OpToRel
<1>3. \A k \in S : n \in Nat /\ k \in Nat
  OBVIOUS
<1>4. \A k \in S : n <= k
  BY <1>2, <1>3
<1>5. QED BY <1>4 DEF Min

\* No other one is smaller.
LEMMA MinIsLeast ==
  ASSUME NEW S \in SUBSET Nat, NEW k \in S
  PROVE  Min(S) <= k
<1>1. PICK n \in S : \A m \in S : <<m, n>> \notin OpToRel(<, Nat)
  BY NatLessThanWellFounded, WFMin
<1>2. \A m \in S : ~ (m < n)
  BY <1>1 DEF OpToRel
<1>3. \A m \in S : n \in Nat /\ m \in Nat
  OBVIOUS
<1>4. \A m \in S : n <= m
  BY <1>2, <1>3
<1>5. QED BY <1>4 DEF Min

\* What holds of 0, and of n when it holds of n - 1, holds of all of 0 .. N.
LEMMA UpTo ==
  ASSUME NEW N \in Nat, NEW S, 0 \in S,
         \A n \in 1 .. N : n - 1 \in S => n \in S
  PROVE  \A n \in 0 .. N : n \in S
<1> DEFINE out == {n \in 0 .. N : n \notin S}
<1> SUFFICES ASSUME out # {} PROVE FALSE
  OBVIOUS
<1>1. out \in SUBSET Nat
  OBVIOUS
<1> HIDE DEF out
<1>2. PICK n \in out : \A k \in out : <<k, n>> \notin OpToRel(<, Nat)
  BY <1>1, NatLessThanWellFounded, WFMin
<1>3. \A k \in out : ~ (k < n)
  BY <1>1, <1>2 DEF OpToRel
<1>4. n \in 0 .. N /\ n \notin S
  BY <1>2 DEF out
<1>5. n # 0 /\ n \in 1 .. N /\ n - 1 \in 0 .. N /\ n - 1 < n
  BY <1>4
<1>6. n - 1 \in S
  BY <1>3, <1>5 DEF out
<1>7. QED BY <1>4, <1>5, <1>6

\* The steps of a recursion stay in D; f is the function they define.
StepsIn(step, N, D) == step \in [1 .. N -> [D -> D]]
Recursive(f, step, N, D, base) ==
  f \in [0 .. N -> D] /\ f[0] = base /\ \A n \in 1 .. N : f[n] = step[n][f[n - 1]]

\* A recursive function over 0 .. N exists when its steps stay in some set.
LEMMA Recursion ==
  ASSUME NEW N \in Nat, NEW D, NEW base \in D, NEW step, StepsIn(step, N, D)
  PROVE  \E f : Recursive(f, step, N, D, base)
<1> USE DEF StepsIn
<1> DEFINE Upto(f, k) == \A n \in 0 .. k :
              f[n] = IF n = 0 THEN base ELSE step[n][f[n - 1]]
           S == {k \in 0 .. N : \E f \in [0 .. N -> D] : Upto(f, k)}
<1>1. 0 \in S
  <2> DEFINE g == [n \in 0 .. N |-> base]
  <2>1. g \in [0 .. N -> D] /\ Upto(g, 0) /\ 0 \in 0 .. N
    OBVIOUS
  <2> HIDE DEF g, Upto
  <2>2. QED BY <2>1
<1>2. ASSUME NEW k \in 1 .. N, k - 1 \in S PROVE k \in S
  <2>1. PICK f \in [0 .. N -> D] : Upto(f, k - 1)
    BY <1>2
  <2> DEFINE g == [f EXCEPT ![k] = step[k][f[k - 1]]]
  <2>2. k - 1 \in 0 .. N /\ f[k - 1] \in D
    BY <2>1
  <2>3. g \in [0 .. N -> D]
    BY <2>1, <2>2
  <2>4. ASSUME NEW n \in 0 .. k
        PROVE  g[n] = IF n = 0 THEN base ELSE step[n][g[n - 1]]
    <3>1. CASE n = k
      <4>1. g[k] = step[k][f[k - 1]]
        BY <2>1
      <4>2. g[k - 1] = f[k - 1]
        BY <2>1, <2>2
      <4>3. QED BY <3>1, <4>1, <4>2
    <3>2. CASE n # k
      <4>1. n \in 0 .. k - 1 /\ n \in 0 .. N
        BY <3>2
      <4>2. g[n] = f[n]
        BY <2>1, <3>2, <4>1
      <4>3. n # 0 => n - 1 \in 0 .. N /\ n - 1 # k /\ g[n - 1] = f[n - 1]
        BY <2>1, <4>1
      <4>4. f[n] = IF n = 0 THEN base ELSE step[n][f[n - 1]]
        BY <2>1, <4>1
      <4> HIDE DEF g
      <4>5. QED BY <4>2, <4>3, <4>4
    <3>3. QED BY <3>1, <3>2
  <2> HIDE DEF g
  <2>5. QED BY <2>3, <2>4
<1>3. N \in S
  <2> HIDE DEF S
  <2>1. \A n \in 0 .. N : n \in S
    BY <1>1, <1>2, UpTo
  <2>2. QED BY <2>1
<1>4. PICK f \in [0 .. N -> D] : Upto(f, N)
  BY <1>3
<1>5. f[0] = base
  <2>1. 0 \in 0 .. N
    OBVIOUS
  <2>2. QED BY <1>4, <2>1
<1>6. ASSUME NEW n \in 1 .. N PROVE f[n] = step[n][f[n - 1]]
  <2>1. n \in 0 .. N /\ n # 0
    OBVIOUS
  <2>2. QED BY <1>4, <2>1
<1>7. QED BY <1>4, <1>5, <1>6 DEF Recursive
-----------------------------------------------------------------------------
\* An entry of the scrollback.
Entry == [n : Nat, bytes : Nat]

\* The entries are the last of n strings.
EndOf(b, n) ==
  /\ b.entries \in Seq(Entry) /\ n \in Nat
  /\ IsTail(b, n)
  /\ b.entries = << >> => n = 0

\* The scrollback after n strings.
TailOf(b, n) == EndOf(b, n) /\ WithinCapacity(b)

\* A session whose scrollback is the tail of its output, and whose process,
\* when alive, has the size that fits its clients.
SessionOK(s) ==
  /\ DOMAIN s = {"buffer", "pushed", "clients", "running", "generation",
                 "alive", "distributing", "size"}
  /\ TailOf(s.buffer, s.pushed)
  /\ \A c \in DOMAIN s.clients : DOMAIN s.clients[c] = {"queue", "size"}
  /\ s.running = s.alive
  /\ s.alive /\ DOMAIN s.clients # {} => s.size = LeastSize(s.clients)

\* t is s but for its clients and its size.
SameOutput(s, t) ==
  /\ t.buffer = s.buffer /\ t.pushed = s.pushed
  /\ t.alive = s.alive /\ t.running = s.running
  /\ t.distributing = s.distributing

\* What was sent of a queue is unbroken, and the latest string is the n-th.
Stream(got, n) ==
  /\ got \in Seq(Nat)
  /\ \A i \in 1 .. Len(got) - 1 : got[i + 1] = got[i] + 1
  /\ IF got = << >> THEN n = 0 ELSE Last(got) = n
-----------------------------------------------------------------------------
\* What is left when strings are dropped from the front, but not all, is the
\* tail of the output.
LEMMA SuffixEnd ==
  ASSUME NEW all \in Seq(Entry), NEW n \in Nat,
         \A i \in 1 .. Len(all) : all[i].n = n - Len(all) + i,
         NEW first \in 1 .. Len(all),
         NEW b, b.entries = SubSeq(all, first, Len(all))
  PROVE  EndOf(b, n)
<1>1. Len(all) \in Nat /\ first \in Nat
  OBVIOUS
<1>2. /\ b.entries \in Seq(Entry) /\ Len(b.entries) = Len(all) - first + 1
      /\ \A i \in 1 .. Len(b.entries) : b.entries[i] = all[first + i - 1]
  OBVIOUS
<1>3. ASSUME NEW i \in 1 .. Len(b.entries)
      PROVE  b.entries[i].n = n - Len(b.entries) + i
  <2>1. first + i - 1 \in 1 .. Len(all)
    BY <1>1, <1>2
  <2>2. b.entries[i].n = n - Len(all) + (first + i - 1)
    BY <1>2, <2>1
  <2>3. n - Len(all) + (first + i - 1) = n - Len(b.entries) + i
    BY <1>1, <1>2
  <2>4. QED BY <2>2, <2>3
<1>4. b.entries # << >>
  <2>1. Len(b.entries) # 0
    BY <1>1, <1>2
  <2>2. Len(<< >>) = 0
    OBVIOUS
  <2>3. QED BY <2>1, <2>2
<1>5. DOMAIN b.entries = 1 .. Len(b.entries)
  BY <1>2
<1>6. QED BY <1>2, <1>3, <1>4, <1>5 DEF EndOf, IsTail

\* push keeps the scrollback the tail of the output: the loop leaves at least
\* the string just pushed.
LEMMA PushEnd ==
  ASSUME NEW b, NEW n, EndOf(b, n), NEW e \in Entry, e.n = n + 1,
         NEW b2 \in Push(b, e)
  PROVE  EndOf(b2, n + 1)
<1>1. CASE e.bytes > Capacity
  <2>1. PICK k \in SplitBytes :
          b2.entries = <<[e EXCEPT !.bytes = Capacity + 2 * k]>>
    BY <1>1 DEF Push
  <2>2. [e EXCEPT !.bytes = Capacity + 2 * k] \in Entry
    BY RingBufferAssumption DEF Entry
  <2>3. QED BY <2>1, <2>2 DEF EndOf, IsTail, Entry
<1>2. CASE ~ (e.bytes > Capacity)
  <2> DEFINE all == Append(b.entries, e)
             full == [entries |-> all, totalBytes |-> b.totalBytes + e.bytes]
             S == {i \in DOMAIN full.entries :
                     i = Len(full.entries)
                       \/ full.totalBytes - Bytes(SubSeq(full.entries, 1, i - 1))
                            <= Capacity}
             first == Min(S)
             m == n + 1
  <2>1. b.entries \in Seq(Entry) /\ n \in Nat /\ m \in Nat
    BY DEF EndOf
  <2>2. /\ all \in Seq(Entry) /\ Len(all) = Len(b.entries) + 1
        /\ DOMAIN all = 1 .. Len(all) /\ Len(all) \in Nat
        /\ all[Len(all)] = e
        /\ \A i \in 1 .. Len(b.entries) : all[i] = b.entries[i]
    BY <2>1
  <2>3. ASSUME NEW i \in 1 .. Len(all)
        PROVE  all[i].n = m - Len(all) + i
    <3> DEFINE old == b.entries
    <3>1. \A k \in 1 .. Len(old) : old[k].n = n - Len(old) + k
      <4>1. IsTail(b, n) /\ DOMAIN old = 1 .. Len(old)
        BY <2>1 DEF EndOf
      <4>2. QED BY <4>1 DEF IsTail
    <3> HIDE DEF all
    <3>2. CASE i = Len(all)
      <4>1. all[i] = e /\ e.n = m /\ m = m - Len(all) + i
        <5>1. all[i] = e /\ e.n = m
          BY <2>2, <3>2
        <5>2. m \in Nat /\ Len(all) \in Nat
          BY <2>1, <2>2
        <5> HIDE DEF m, full, S, first
        <5>3. m = m - Len(all) + i
          BY <3>2, <5>2
        <5>4. QED BY <5>1, <5>3
      <4>2. QED BY <4>1
    <3>3. CASE i # Len(all)
      <4>1. i \in 1 .. Len(old) /\ Len(old) \in Nat
        BY <2>1, <2>2, <3>3
      <4>2. all[i].n = n - Len(old) + i
        BY <2>2, <3>1, <4>1
      <4>3. QED BY <2>1, <2>2, <4>1, <4>2
    <3>4. QED BY <3>2, <3>3
  <2>4. b2 = Evict(full)
    BY <1>2 DEF Push
  <2>5. full.entries = all
    OBVIOUS
  <2> HIDE DEF all, full, m
  <2>6. b2.entries = SubSeq(full.entries, first, Len(full.entries))
    BY <2>4 DEF Evict
  <2>7. S \in SUBSET (1 .. Len(all)) /\ S \in SUBSET Nat /\ Len(all) \in S
    BY <2>2, <2>5
  <2> HIDE DEF S
  <2>8. first \in 1 .. Len(all)
    BY <2>7, LeastElement
  <2> HIDE DEF first
  <2>9. EndOf(b2, m)
    BY <2>1, <2>2, <2>3, <2>5, <2>6, <2>8, SuffixEnd
  <2>10. QED BY <2>9 DEF m
<1>3. QED BY <1>1, <1>2
-----------------------------------------------------------------------------
\* The running counts of bytes of a sequence of strings.
Counts(f, s) ==
  /\ f \in [0 .. Len(s) -> Nat] /\ f[0] = 0
  /\ \A n \in 1 .. Len(s) : f[n] = f[n - 1] + s[n].bytes

\* Every entry of a buffer has a size.
LEMMA EntryBytes ==
  ASSUME NEW s \in Seq(Entry)
  PROVE  Len(s) \in Nat /\ \A n \in 1 .. Len(s) : s[n].bytes \in Nat
<1>1. Len(s) \in Nat /\ \A n \in 1 .. Len(s) : s[n] \in Entry
  OBVIOUS
<1>2. QED BY <1>1 DEF Entry

\* There is one such function, and Bytes is its last value.
LEMMA BytesCounted ==
  ASSUME NEW s \in Seq(Entry)
  PROVE  \E f : Counts(f, s) /\ Bytes(s) = f[Len(s)]
<1> DEFINE N == Len(s)
           step == [n \in 1 .. N |-> [b \in Nat |-> b + s[n].bytes]]
           body(f) == [i \in 0 .. N |-> IF i = 0 THEN 0 ELSE f[i - 1] + s[i].bytes]
           sum == CHOOSE f : f = body(f)
<1>1. N \in Nat /\ \A i \in 1 .. N : s[i].bytes \in Nat
  BY EntryBytes
<1>2. step \in [1 .. N -> [Nat -> Nat]]
  BY <1>1
<1>3. \A n \in 1 .. N, b \in Nat : step[n][b] = b + s[n].bytes
  BY <1>1
<1> HIDE DEF step
<1>4. PICK f \in [0 .. N -> Nat] :
               f[0] = 0 /\ \A n \in 1 .. N : f[n] = step[n][f[n - 1]]
  <2>1. N \in Nat /\ 0 \in Nat
    BY <1>1
  <2>2. StepsIn(step, N, Nat)
    BY <1>2 DEF StepsIn
  <2>3. PICK f : Recursive(f, step, N, Nat, 0)
    BY <2>1, <2>2, Recursion
  <2>4. QED BY <2>3 DEF Recursive
<1>5. f = body(f)
  <2>1. ASSUME NEW n \in 1 .. N PROVE f[n] = f[n - 1] + s[n].bytes
    <3>1. f[n - 1] \in Nat
      BY <1>1
    <3>2. QED BY <1>3, <1>4, <3>1
  <2> HIDE DEF N
  <2>2. QED BY <1>1, <1>4, <2>1
<1>6. sum = body(sum)
  BY <1>5
<1>7. Bytes(s) = sum[N]
  BY DEF Bytes
<1> HIDE DEF sum
<1>8. sum[0] = 0 /\ \A n \in 1 .. N : sum[n] = sum[n - 1] + s[n].bytes
  BY <1>1, <1>6
<1>9. \A n \in 0 .. N : sum[n] \in Nat
  <2> DEFINE S == {n \in 0 .. N : sum[n] \in Nat}
  <2>1. 0 \in S
    BY <1>1, <1>8
  <2>2. ASSUME NEW n \in 1 .. N, n - 1 \in S PROVE n \in S
    BY <1>1, <1>8, <2>2
  <2> HIDE DEF S
  <2>3. \A n \in 0 .. N : n \in S
    BY <1>1, <2>1, <2>2, UpTo
  <2>4. QED BY <2>3 DEF S
<1>10. sum \in [0 .. N -> Nat]
  BY <1>6, <1>9
<1>11. QED BY <1>7, <1>8, <1>10 DEF Counts

\* ... and any such count is their sum.
LEMMA BytesIs ==
  ASSUME NEW s \in Seq(Entry), NEW f, Counts(f, s)
  PROVE  Bytes(s) = f[Len(s)] /\ Bytes(s) \in Nat
<1>1. PICK g : Counts(g, s) /\ Bytes(s) = g[Len(s)]
  BY BytesCounted
<1> DEFINE S == {n \in 0 .. Len(s) : f[n] = g[n]}
<1>2. Len(s) \in Nat /\ \A n \in 1 .. Len(s) : s[n].bytes \in Nat
  BY EntryBytes
<1>3. 0 \in S
  BY <1>1, <1>2 DEF Counts
<1>4. ASSUME NEW n \in 1 .. Len(s), n - 1 \in S PROVE n \in S
  BY <1>1, <1>4 DEF Counts
<1> HIDE DEF S
<1>5. \A n \in 0 .. Len(s) : n \in S
  BY <1>2, <1>3, <1>4, UpTo
<1>6. f[Len(s)] = g[Len(s)]
  BY <1>2, <1>5 DEF S
<1>7. g[Len(s)] \in Nat
  BY <1>1, <1>2 DEF Counts
<1>8. QED BY <1>1, <1>6, <1>7

\* The sum over no, one or one more entry.
LEMMA BytesEmpty == Bytes(<< >>) = 0
<1>1. << >> \in Seq(Entry) /\ Len(<< >>) = 0
  OBVIOUS
<1>2. PICK f : Counts(f, << >>) /\ Bytes(<< >>) = f[Len(<< >>)]
  BY <1>1, BytesCounted
<1>3. QED BY <1>1, <1>2 DEF Counts

\* An entry more adds its size.
LEMMA BytesAppend ==
  ASSUME NEW s \in Seq(Entry), NEW e \in Entry
  PROVE  Bytes(Append(s, e)) = Bytes(s) + e.bytes
<1> DEFINE t == Append(s, e)
<1>1. PICK f : Counts(f, t) /\ Bytes(t) = f[Len(t)]
  <2>1. t \in Seq(Entry)
    OBVIOUS
  <2> HIDE DEF t
  <2>2. QED BY <2>1, BytesCounted
<1>2. /\ t \in Seq(Entry) /\ Len(t) = Len(s) + 1 /\ Len(s) \in Nat
      /\ \A n \in 1 .. Len(s) : t[n] = s[n]
      /\ t[Len(t)] = e
  OBVIOUS
<1> HIDE DEF t
<1> DEFINE g == [n \in 0 .. Len(s) |-> f[n]]
<1>3. Counts(g, s)
  BY <1>1, <1>2 DEF Counts
<1>4. Bytes(s) = f[Len(s)]
  BY <1>2, <1>3, BytesIs
<1>5. f[Len(t)] = f[Len(t) - 1] + t[Len(t)].bytes
  BY <1>1, <1>2 DEF Counts
<1>6. QED BY <1>1, <1>2, <1>4, <1>5 DEF t

\* A sequence that is cut in two has the bytes of both parts.
LEMMA BytesSplit ==
  ASSUME NEW s \in Seq(Entry), NEW i \in 1 .. Len(s)
  PROVE  /\ Bytes(SubSeq(s, 1, i - 1)) \in Nat
         /\ Bytes(SubSeq(s, i, Len(s))) \in Nat
         /\ Bytes(s) = Bytes(SubSeq(s, 1, i - 1)) + Bytes(SubSeq(s, i, Len(s)))
<1> DEFINE p == SubSeq(s, 1, i - 1)
           q == SubSeq(s, i, Len(s))
<1>1. Len(s) \in Nat /\ i \in Nat /\ 1 <= i /\ i <= Len(s)
  OBVIOUS
<1>2. PICK f : Counts(f, s) /\ Bytes(s) = f[Len(s)]
  BY BytesCounted
<1>3. p \in Seq(Entry) /\ Len(p) = i - 1 /\ \A n \in 1 .. i - 1 : p[n] = s[n]
  BY <1>1
<1>4. q \in Seq(Entry) /\ Len(q) = Len(s) - i + 1 /\ \A n \in 1 .. Len(s) - i + 1 : q[n] = s[i + n - 1]
  BY <1>1
<1> HIDE DEF p, q
<1> DEFINE g == [n \in 0 .. i - 1 |-> f[n]]
           h == [n \in 0 .. Len(s) - i + 1 |-> f[i + n - 1] - f[i - 1]]
<1>5. Counts(g, p)
  <2>1. f \in [0 .. Len(s) -> Nat] /\ f[0] = 0
    BY <1>2 DEF Counts
  <2>2. ASSUME NEW n \in 1 .. i - 1 PROVE g[n] = g[n - 1] + p[n].bytes
    <3>1. n \in 1 .. Len(s) /\ n - 1 \in 0 .. i - 1
      BY <1>1
    <3>2. f[n] = f[n - 1] + s[n].bytes
      BY <1>2, <3>1 DEF Counts
    <3>3. QED BY <1>1, <1>3, <3>1, <3>2
  <2>3. g \in [0 .. Len(p) -> Nat] /\ g[0] = 0
    BY <1>1, <1>3, <2>1
  <2> HIDE DEF g
  <2>4. QED BY <1>3, <2>2, <2>3 DEF Counts
<1>6. \A n \in 1 .. Len(s) : s[n].bytes \in Nat
  BY EntryBytes
<1>7. Counts(h, q)
  <2>1. ASSUME NEW n \in 1 .. Len(q)
        PROVE  /\ f[i + n - 1] = f[i + (n - 1) - 1] + q[n].bytes
               /\ q[n].bytes \in Nat
    <3>1. i + n - 1 \in 1 .. Len(s) /\ i + n - 1 - 1 = i + (n - 1) - 1
      BY <1>1, <1>4
    <3>2. f[i + n - 1] = f[i + n - 1 - 1] + s[i + n - 1].bytes
      BY <1>2, <3>1 DEF Counts
    <3>3. QED BY <1>1, <1>4, <1>6, <3>1, <3>2
  <2>2. \A m \in 0 .. Len(s) : f[m] \in Nat
    BY <1>2 DEF Counts
  <2> DEFINE S == {n \in 0 .. Len(q) : h[n] \in Nat}
  <2>3. h[0] = 0 /\ i + 0 - 1 = i - 1
    BY <1>1, <2>2
  <2>4. \A n \in 1 .. Len(q) : h[n] = h[n - 1] + q[n].bytes
    <3>1. ASSUME NEW n \in 1 .. Len(q) PROVE h[n] = h[n - 1] + q[n].bytes
      <4>1. n \in 0 .. Len(s) - i + 1 /\ n - 1 \in 0 .. Len(s) - i + 1
        BY <1>1, <1>4
      <4>2. h[n] = f[i + n - 1] - f[i - 1] /\ h[n - 1] = f[i + (n - 1) - 1] - f[i - 1]
        BY <4>1
      <4>3. /\ i - 1 \in 0 .. Len(s) /\ i + n - 1 \in 0 .. Len(s)
            /\ i + (n - 1) - 1 \in 0 .. Len(s)
        BY <1>1, <1>4
      <4>4. f[i - 1] \in Nat /\ f[i + n - 1] \in Nat /\ f[i + (n - 1) - 1] \in Nat
        BY <2>2, <4>3
      <4> HIDE DEF h
      <4>5. QED BY <2>1, <4>2, <4>4
    <3>2. QED BY <3>1
  <2>5. 0 \in S
    BY <1>1, <1>4, <2>3
  <2>6. ASSUME NEW n \in 1 .. Len(q), n - 1 \in S PROVE n \in S
    <3>1. h[n - 1] \in Nat /\ n \in 0 .. Len(q)
      BY <2>6
    <3> HIDE DEF h
    <3>2. h[n] = h[n - 1] + q[n].bytes /\ q[n].bytes \in Nat
      BY <2>1, <2>4
    <3>3. QED BY <3>1, <3>2
  <2> HIDE DEF S
  <2>7. \A n \in 0 .. Len(q) : n \in S
    <3>1. Len(q) \in Nat
      BY <1>1, <1>4
    <3>2. QED BY <2>5, <2>6, <3>1, UpTo
  <2>8. h \in [0 .. Len(q) -> Nat]
    BY <1>4, <2>7 DEF S
  <2> HIDE DEF h
  <2>9. QED BY <2>3, <2>4, <2>8 DEF Counts
<1>8. Bytes(p) = f[i - 1] /\ Bytes(p) \in Nat
  BY <1>1, <1>3, <1>5, BytesIs
<1>9. Bytes(q) = h[Len(q)] /\ Bytes(q) \in Nat
  <2> HIDE DEF h
  <2>1. QED BY <1>4, <1>7, BytesIs
<1>10. h[Len(q)] = f[Len(s)] - f[i - 1] /\ f[Len(s)] \in Nat /\ f[i - 1] \in Nat
  <2>1. /\ i - 1 \in 0 .. Len(s) /\ Len(s) \in 0 .. Len(s)
        /\ Len(q) \in 0 .. Len(s) - i + 1 /\ i + Len(q) - 1 = Len(s)
    BY <1>1, <1>4
  <2>2. h[Len(q)] = f[i + Len(q) - 1] - f[i - 1]
    BY <2>1
  <2>3. f[i - 1] \in Nat /\ f[Len(s)] \in Nat
    BY <1>2, <2>1 DEF Counts
  <2> HIDE DEF h
  <2>4. QED BY <2>1, <2>2, <2>3
<1>11. QED BY <1>2, <1>8, <1>9, <1>10 DEF p, q

\* A single entry is the sum.
LEMMA BytesOne ==
  ASSUME NEW s \in Seq(Entry), Len(s) = 1
  PROVE  Bytes(s) = s[1].bytes
<1>1. PICK f : Counts(f, s) /\ Bytes(s) = f[Len(s)]
  BY BytesCounted
<1>2. 1 \in 1 .. Len(s) /\ 1 - 1 = 0 /\ s[1].bytes \in Nat
  BY EntryBytes
<1>3. f[1] = f[0] + s[1].bytes /\ f[0] = 0
  BY <1>1, <1>2 DEF Counts
<1>4. QED BY <1>1, <1>2, <1>3

\* push keeps the count of bytes right and the scrollback within its capacity:
\* what the loop leaves fits, or is the string just pushed, which fits.
LEMMA PushWithin ==
  ASSUME NEW b, NEW n, EndOf(b, n), WithinCapacity(b), NEW e \in Entry,
         NEW b2 \in Push(b, e)
  PROVE  WithinCapacity(b2)
<1>1. CASE e.bytes > Capacity
  <2>1. PICK k \in SplitBytes :
          /\ b2.entries = <<[e EXCEPT !.bytes = Capacity + 2 * k]>>
          /\ b2.totalBytes = Capacity + 2 * k
    BY <1>1 DEF Push
  <2> DEFINE cut == [e EXCEPT !.bytes = Capacity + 2 * k]
  <2>2. /\ cut \in Entry /\ cut.bytes = Capacity + 2 * k
        /\ Capacity + 2 * k <= Capacity + 6
    BY RingBufferAssumption DEF Entry
  <2> HIDE DEF cut
  <2>3. <<cut>> \in Seq(Entry) /\ Len(<<cut>>) = 1 /\ <<cut>>[1] = cut
    BY <2>2
  <2>4. b2.entries = <<cut>>
    BY <2>1 DEF cut
  <2>5. Bytes(b2.entries) = Capacity + 2 * k
    BY <2>2, <2>3, <2>4, BytesOne
  <2>6. QED BY <2>1, <2>2, <2>3, <2>4, <2>5 DEF WithinCapacity
<1>2. CASE ~ (e.bytes > Capacity)
  <2> DEFINE all == Append(b.entries, e)
             full == [entries |-> all, totalBytes |-> b.totalBytes + e.bytes]
             S == {i \in DOMAIN full.entries :
                     i = Len(full.entries)
                       \/ full.totalBytes - Bytes(SubSeq(full.entries, 1, i - 1))
                            <= Capacity}
             first == Min(S)
             Rest(i) == SubSeq(all, i, Len(all))
  <2>1. /\ b.entries \in Seq(Entry) /\ b.totalBytes = Bytes(b.entries)
        /\ e.bytes \in Nat /\ e.bytes <= Capacity /\ Capacity \in Nat
    BY <1>2, RingBufferAssumption DEF EndOf, WithinCapacity, Entry
  <2>2. /\ all \in Seq(Entry) /\ DOMAIN all = 1 .. Len(all)
        /\ Len(all) \in Nat /\ Len(all) \in 1 .. Len(all) /\ all[Len(all)] = e
    BY <2>1
  <2>3. Bytes(all) = b.totalBytes + e.bytes
    BY <2>1, BytesAppend
  <2>4. b2 = Evict(full)
    BY <1>2 DEF Push
  <2>5. full.entries = all /\ full.totalBytes = b.totalBytes + e.bytes
    OBVIOUS
  <2> HIDE DEF all, full
  <2>6. /\ b2.entries = SubSeq(full.entries, first, Len(full.entries))
        /\ b2.totalBytes = full.totalBytes - Bytes(SubSeq(full.entries, 1, first - 1))
    BY <2>4 DEF Evict
  <2>7. S \in SUBSET (1 .. Len(all)) /\ S \in SUBSET Nat /\ Len(all) \in S
    BY <2>2, <2>5
  <2>8. first \in S
    <3> HIDE DEF S
    <3>1. QED BY <2>7, LeastElement
  <2>9. /\ first \in 1 .. Len(all)
        /\ \/ first = Len(all)
           \/ full.totalBytes - Bytes(SubSeq(all, 1, first - 1)) <= Capacity
    BY <2>2, <2>5, <2>8
  <2> HIDE DEF S, first
  <2>10. /\ Bytes(SubSeq(all, 1, first - 1)) \in Nat /\ Bytes(Rest(first)) \in Nat
         /\ Bytes(all) = Bytes(SubSeq(all, 1, first - 1)) + Bytes(Rest(first))
    BY <2>2, <2>9, BytesSplit
  <2>11. b2.entries = Rest(first) /\ b2.totalBytes = Bytes(Rest(first))
    BY <2>3, <2>5, <2>6, <2>10
  <2>12. CASE first = Len(all)
    <3>1. Rest(first) \in Seq(Entry) /\ Len(Rest(first)) = 1 /\ Rest(first)[1] = e
      BY <2>2, <2>12
    <3>2. Bytes(Rest(first)) = e.bytes
      BY <3>1, BytesOne
    <3>3. QED BY <2>1, <2>11, <3>1, <3>2 DEF WithinCapacity
  <2>13. CASE full.totalBytes - Bytes(SubSeq(all, 1, first - 1)) <= Capacity
    BY <2>3, <2>5, <2>10, <2>11, <2>13 DEF WithinCapacity
  <2>14. QED BY <2>9, <2>12, <2>13
<1>3. QED BY <1>1, <1>2

\* What push keeps of the output is its tail, and within the capacity.
LEMMA PushTail ==
  ASSUME NEW b, NEW n, TailOf(b, n), NEW e \in Entry, e.n = n + 1,
         NEW b2 \in Push(b, e)
  PROVE  TailOf(b2, n + 1)
BY PushEnd, PushWithin DEF TailOf

\* A new buffer has nothing of nothing.
LEMMA EmptyTail == TailOf(EmptyBuffer, 0)
<1>1. EndOf(EmptyBuffer, 0)
  BY DEF EndOf, IsTail, EmptyBuffer
<1>2. WithinCapacity(EmptyBuffer)
  BY BytesEmpty, RingBufferAssumption DEF WithinCapacity, EmptyBuffer
<1>3. QED BY <1>1, <1>2 DEF TailOf
-----------------------------------------------------------------------------
\* recomputeSize changes nothing but the size...
LEMMA RecomputeSizeKeeps ==
  ASSUME NEW s,
         DOMAIN s = {"buffer", "pushed", "clients", "running", "generation",
                     "alive", "distributing", "size"},
         TailOf(s.buffer, s.pushed),
         \A c \in DOMAIN s.clients : DOMAIN s.clients[c] = {"queue", "size"},
         s.running = s.alive
  PROVE  /\ SessionOK(RecomputeSize(s))
         /\ RecomputeSize(s).clients = s.clients
         /\ SameOutput(s, RecomputeSize(s))
BY DEF RecomputeSize, SessionOK, SameOutput

\* ... so that attach adds one client,
LEMMA AttachAdds ==
  ASSUME NEW s, SessionOK(s), NEW c, NEW queue, NEW size
  PROVE  /\ SessionOK(Attach(s, c, queue, size))
         /\ Attach(s, c, queue, size).clients =
              Put(s.clients, c, [queue |-> queue, size |-> size])
         /\ SameOutput(s, Attach(s, c, queue, size))
<1> DEFINE t == [s EXCEPT !.clients = Put(@, c, [queue |-> queue, size |-> size])]
<1>1. /\ DOMAIN t = DOMAIN s /\ SameOutput(s, t)
      /\ t.clients = Put(s.clients, c, [queue |-> queue, size |-> size])
  BY DEF SessionOK, SameOutput
<1>2. \A d \in DOMAIN t.clients : DOMAIN t.clients[d] = {"queue", "size"}
  BY <1>1 DEF SessionOK, Put
<1> HIDE DEF t
<1>3. /\ SessionOK(RecomputeSize(t)) /\ RecomputeSize(t).clients = t.clients
      /\ SameOutput(t, RecomputeSize(t))
  BY <1>1, <1>2, RecomputeSizeKeeps DEF SessionOK, SameOutput
<1>4. Attach(s, c, queue, size) = RecomputeSize(t)
  BY DEF Attach, t
<1>5. QED BY <1>1, <1>3, <1>4 DEF SameOutput

\* close drops one,
LEMMA CloseDrops ==
  ASSUME NEW s, SessionOK(s), NEW c
  PROVE  /\ SessionOK(Close(s, c))
         /\ Close(s, c).clients = Drop(s.clients, {c})
         /\ SameOutput(s, Close(s, c))
<1> DEFINE t == [s EXCEPT !.clients = Drop(@, {c})]
<1>1. DOMAIN t = DOMAIN s /\ SameOutput(s, t) /\ t.clients = Drop(s.clients, {c})
  BY DEF SessionOK, SameOutput
<1>2. \A d \in DOMAIN t.clients : DOMAIN t.clients[d] = {"queue", "size"}
  BY <1>1 DEF SessionOK, Drop
<1> HIDE DEF t
<1>3. /\ SessionOK(RecomputeSize(t)) /\ RecomputeSize(t).clients = t.clients
      /\ SameOutput(t, RecomputeSize(t))
  BY <1>1, <1>2, RecomputeSizeKeeps DEF SessionOK, SameOutput
<1>4. Close(s, c) = RecomputeSize(t)
  BY DEF Close, t
<1>5. QED BY <1>1, <1>3, <1>4 DEF SameOutput

\* and clientResize keeps the clients and their queues.
LEMMA ClientResizeKeeps ==
  ASSUME NEW s, SessionOK(s), NEW c, NEW size
  PROVE  /\ SessionOK(ClientResize(s, c, size))
         /\ DOMAIN ClientResize(s, c, size).clients = DOMAIN s.clients
         /\ \A d \in DOMAIN s.clients :
              ClientResize(s, c, size).clients[d].queue = s.clients[d].queue
         /\ SameOutput(s, ClientResize(s, c, size))
<1>1. CASE c \in DOMAIN s.clients
  <2> DEFINE t == [s EXCEPT !.clients[c].size = size]
  <2>1. /\ DOMAIN t = DOMAIN s /\ SameOutput(s, t)
        /\ t.clients = [s.clients EXCEPT ![c].size = size]
    BY DEF SessionOK, SameOutput
  <2>2. /\ DOMAIN t.clients = DOMAIN s.clients
        /\ \A d \in DOMAIN s.clients : t.clients[d].queue = s.clients[d].queue
        /\ \A d \in DOMAIN t.clients : DOMAIN t.clients[d] = {"queue", "size"}
    BY <2>1 DEF SessionOK
  <2> HIDE DEF t
  <2>3. /\ SessionOK(RecomputeSize(t)) /\ RecomputeSize(t).clients = t.clients
        /\ SameOutput(t, RecomputeSize(t))
    BY <2>1, <2>2, RecomputeSizeKeeps DEF SessionOK, SameOutput
  <2>4. ClientResize(s, c, size) = RecomputeSize(t)
    BY <1>1 DEF ClientResize, t
  <2>5. QED BY <2>1, <2>2, <2>3, <2>4 DEF SameOutput
<1>2. CASE c \notin DOMAIN s.clients
  BY <1>2, RecomputeSizeKeeps DEF ClientResize, SessionOK
<1>3. QED BY <1>1, <1>2

\* A new session with its first process has no clients and no output.
LEMMA NewSessionOK ==
  ASSUME NEW size
  PROVE  LET t == SpawnGeneration(NewSession, size)
         IN  /\ SessionOK(t) /\ t.clients = EmptyMap /\ t.pushed = 0
             /\ t.alive /\ t.distributing
<1> DEFINE t == SpawnGeneration(NewSession, size)
<1>1. /\ DOMAIN t = {"buffer", "pushed", "clients", "running", "generation",
                     "alive", "distributing", "size"}
      /\ t.buffer = EmptyBuffer /\ t.pushed = 0 /\ t.clients = EmptyMap
      /\ t.running = TRUE /\ t.alive = TRUE /\ t.distributing = TRUE
  BY DEF SpawnGeneration, NewSession
<1> HIDE DEF t
<1>2. TailOf(t.buffer, t.pushed)
  BY <1>1, EmptyTail
<1>3. DOMAIN t.clients = {}
  BY <1>1 DEF EmptyMap
<1>4. SessionOK(t)
  BY <1>1, <1>2, <1>3 DEF SessionOK
<1>5. QED BY <1>1, <1>4 DEF t

\* A turn of the distribution fiber, when all queues of the clients are open,
\* pushes one string and reaches all of them.
LEMMA DistributedToAll ==
  ASSUME NEW s, SessionOK(s), NEW bytes \in Nat, NEW open,
         ClientQueues(s) \subseteq open,
         NEW result \in Distributed(s, bytes, open)
  PROVE  /\ SessionOK(result[1]) /\ result[2] = ClientQueues(s)
         /\ result[1].pushed = s.pushed + 1 /\ result[1].clients = s.clients
         /\ result[1].alive = s.alive /\ result[1].running = s.running
         /\ result[1].distributing = s.distributing
<1>1. PICK t \in Pushed(s, bytes) : result = <<t, ClientQueues(s)>>
  BY DEF Distributed
<1> DEFINE e == [n |-> s.pushed + 1, bytes |-> bytes]
<1>2. PICK b \in Push(s.buffer, e) : t = [s EXCEPT !.buffer = b, !.pushed = @ + 1]
  BY <1>1 DEF Pushed
<1>3. e \in Entry /\ e.n = s.pushed + 1
  BY DEF SessionOK, TailOf, EndOf, Entry
<1> HIDE DEF e
<1>4. TailOf(b, s.pushed + 1)
  BY <1>2, <1>3, PushTail DEF SessionOK
<1>5. /\ DOMAIN t = DOMAIN s /\ t.buffer = b /\ t.pushed = s.pushed + 1
      /\ t.clients = s.clients /\ t.alive = s.alive /\ t.running = s.running
      /\ t.distributing = s.distributing /\ t.size = s.size
  BY <1>2 DEF SessionOK
<1>6. SessionOK(t)
  BY <1>4, <1>5 DEF SessionOK
<1>7. QED BY <1>1, <1>5, <1>6

\* What a client that attaches is sent first is unbroken up to the latest.
LEMMA ReplayStream ==
  ASSUME NEW s, TailOf(s.buffer, s.pushed)
  PROVE  Stream(Replay(s), s.pushed)
<1> DEFINE entries == s.buffer.entries
           got == Replay(s)
<1>1. /\ entries \in Seq(Entry) /\ s.pushed \in Nat
      /\ \A i \in 1 .. Len(entries) : entries[i].n = s.pushed - Len(entries) + i
      /\ entries = << >> => s.pushed = 0
  BY DEF TailOf, EndOf, IsTail
<1>2. got = [i \in 1 .. Len(entries) |-> entries[i].n]
  BY <1>1 DEF Replay
<1>3. \A i \in 1 .. Len(entries) : entries[i].n \in Nat
  <2> HIDE DEF entries
  <2>1. \A i \in 1 .. Len(entries) : entries[i] \in Entry
    BY <1>1, ElementOfSeq
  <2>2. QED BY <2>1 DEF Entry
<1> HIDE DEF entries, got
<1>4. got \in Seq(Nat) /\ Len(got) = Len(entries) /\ Len(got) \in Nat
  BY <1>1, <1>2, <1>3
<1>5. \A i \in 1 .. Len(got) : got[i] = s.pushed - Len(got) + i
  BY <1>1, <1>2, <1>4
<1>6. \A i \in 1 .. Len(got) - 1 : got[i + 1] = got[i] + 1
  <2> TAKE i \in 1 .. Len(got) - 1
  <2>1. i \in 1 .. Len(got) /\ i + 1 \in 1 .. Len(got)
    BY <1>4
  <2>2. got[i] = s.pushed - Len(got) + i /\ got[i + 1] = s.pushed - Len(got) + (i + 1)
    BY <1>5, <2>1
  <2>3. QED BY <1>1, <1>4, <2>1, <2>2
<1>7. CASE got = << >>
  BY <1>1, <1>4, <1>6, <1>7 DEF Stream, got
<1>8. CASE got # << >>
  <2>1. Len(got) \in 1 .. Len(got)
    BY <1>4, <1>8
  <2>2. Last(got) = s.pushed
    BY <1>1, <1>4, <1>5, <2>1 DEF Last
  <2>3. QED BY <1>4, <1>6, <1>8, <2>2 DEF Stream, got
<1>9. QED BY <1>7, <1>8

\* The next string keeps a stream unbroken.
LEMMA StreamGrows ==
  ASSUME NEW got, NEW n \in Nat, Stream(got, n)
  PROVE  Stream(Append(got, n + 1), n + 1)
<1> DEFINE more == Append(got, n + 1)
<1>1. got \in Seq(Nat) /\ Len(got) \in Nat
  BY DEF Stream
<1>2. /\ more \in Seq(Nat) /\ Len(more) = Len(got) + 1
      /\ \A i \in 1 .. Len(got) : more[i] = got[i]
      /\ more[Len(got) + 1] = n + 1
  BY <1>1
<1>3. Len(got) > 0 => got[Len(got)] = n
  BY <1>1 DEF Stream, Last
<1>4. \A i \in 1 .. Len(got) - 1 : got[i + 1] = got[i] + 1
  BY DEF Stream
<1> HIDE DEF more
<1>5. ASSUME NEW i \in 1 .. Len(more) - 1
      PROVE  more[i + 1] = more[i] + 1
  <2>1. CASE i = Len(got)
    <3>1. i \in 1 .. Len(got) /\ Len(got) > 0
      BY <1>1, <1>2, <2>1
    <3>2. more[i] = n /\ more[i + 1] = n + 1
      BY <1>2, <1>3, <2>1, <3>1
    <3>3. QED BY <3>2
  <2>2. CASE i # Len(got)
    <3>1. /\ i \in 1 .. Len(got) - 1
          /\ i \in 1 .. Len(got) /\ i + 1 \in 1 .. Len(got)
      BY <1>1, <1>2, <2>2
    <3>2. more[i] = got[i] /\ more[i + 1] = got[i + 1]
      BY <1>2, <3>1
    <3>3. got[i + 1] = got[i] + 1
      BY <1>4, <3>1
    <3>4. QED BY <3>2, <3>3
  <2>3. QED BY <2>1, <2>2
<1>6. more # << >> /\ Last(more) = n + 1
  BY <1>1, <1>2 DEF Last
<1>7. QED BY <1>2, <1>5, <1>6 DEF Stream, more
-----------------------------------------------------------------------------
USE MaxChannelsAssumption DEF Channels

\* A channel map is sound when its fields are well typed and it satisfies
\* the two invariants: this is inductive.
Sound(m) == m \in ChannelMapType /\ MutuallyInverse(m) /\ NothingFreeInUse(m)

\* The maps a Put and a Drop make are partial functions of the same type.
LEMMA PutType ==
  ASSUME NEW S, NEW T, NEW m \in PartialFcn(S, T), NEW k \in S, NEW v \in T
  PROVE  Put(m, k, v) \in PartialFcn(S, T)
<1>1. PICK D \in SUBSET S : m \in [D -> T]
  BY DEF PartialFcn
<1>2. Put(m, k, v) \in [D \cup {k} -> T]
  BY <1>1 DEF Put
<1>3. D \cup {k} \in SUBSET S
  OBVIOUS
<1>4. QED BY <1>2, <1>3 DEF PartialFcn

\* Removing keys leaves a map of the same type.
LEMMA DropType ==
  ASSUME NEW S, NEW T, NEW m \in PartialFcn(S, T), NEW ks
  PROVE  Drop(m, ks) \in PartialFcn(S, T)
<1>1. PICK D \in SUBSET S : m \in [D -> T]
  BY DEF PartialFcn
<1>2. Drop(m, ks) \in [D \ ks -> T]
  BY <1>1 DEF Drop
<1>3. D \ ks \in SUBSET S
  OBVIOUS
<1>4. QED BY <1>2, <1>3 DEF PartialFcn

\* The empty map is a partial function of every type.
LEMMA EmptyType == ASSUME NEW S, NEW T PROVE EmptyMap \in PartialFcn(S, T)
<1>1. EmptyMap \in [{} -> T]
  BY DEF EmptyMap
<1>2. {} \in SUBSET S
  OBVIOUS
<1>3. QED BY <1>1, <1>2 DEF PartialFcn

\* The map of the constructor is sound.
LEMMA NewSound == Sound(NewChannelMap)
<1>1. << >> \in Seq(Channels) /\ 0 \in 0 .. MaxChannels
  OBVIOUS
<1>2. NewChannelMap \in ChannelMapType
  BY <1>1, EmptyType DEF NewChannelMap, ChannelMapType
<1>3. QED
  BY <1>2 DEF Sound, NewChannelMap, MutuallyInverse, NothingFreeInUse, EmptyMap

\* assign takes a channel that is in range, below the new nextChannel and
\* not in use.
LEMMA NextFreeUnused ==
  ASSUME NEW m, Sound(m), CanAllocate(m)
  PROVE  /\ NextFree(m) \in Channels
         /\ NextFree(m) \notin DOMAIN m.channelToPty
BY DEF Sound, CanAllocate, NextFree, ChannelMapType, NothingFreeInUse

\* assign keeps a channel map sound.
LEMMA AssignSound ==
  ASSUME NEW m, Sound(m), NEW id \in Ids
  PROVE  Sound(Assign(m, id))
<1>1. CASE HasChannel(m, id) \/ ~ CanAllocate(m)
  BY <1>1 DEF Assign
<1>2. CASE ~ HasChannel(m, id) /\ CanAllocate(m)
  <2> DEFINE n == Allocate(m, id)
             ch == NextFree(m)
  <2>1. ch \in Channels /\ ch \notin DOMAIN m.channelToPty
    BY <1>2, NextFreeUnused
  <2>2. /\ m \in ChannelMapType /\ MutuallyInverse(m) /\ NothingFreeInUse(m)
        /\ id \notin DOMAIN m.ptyToChannel
    BY <1>2 DEF Sound, HasChannel
  <2>3. /\ n.channelToPty = Put(m.channelToPty, ch, id)
        /\ n.ptyToChannel = Put(m.ptyToChannel, id, ch)
    BY DEF Allocate
  <2>4. /\ n.channelToPty \in PartialFcn(Channels, Ids)
        /\ n.ptyToChannel \in PartialFcn(Ids, Channels)
    <3>1. /\ m.channelToPty \in PartialFcn(Channels, Ids)
          /\ m.ptyToChannel \in PartialFcn(Ids, Channels)
      BY <2>2 DEF ChannelMapType
    <3> HIDE DEF ch, n
    <3>2. Put(m.channelToPty, ch, id) \in PartialFcn(Channels, Ids)
      BY <2>1, <3>1, PutType
    <3>3. Put(m.ptyToChannel, id, ch) \in PartialFcn(Ids, Channels)
      BY <2>1, <3>1, PutType
    <3>4. QED BY <2>3, <3>2, <3>3
  <2>5. /\ n.freeList \in Seq(Channels)
        /\ n.nextChannel \in 0 .. MaxChannels
    <3>1. m.freeList \in Seq(Channels) /\ m.nextChannel \in 0 .. MaxChannels
      BY <2>2 DEF ChannelMapType
    <3>2. CASE m.freeList # << >>
      <4>1. Len(m.freeList) \in Nat \ {0}
        BY <3>1, <3>2, EmptySeq
      <4>2. \A i \in 1 .. Len(m.freeList) - 1 : m.freeList[i] \in Channels
        BY <3>1, <4>1, ElementOfSeq
      <4>3. SubSeq(m.freeList, 1, Len(m.freeList) - 1) \in Seq(Channels)
        BY <4>1, <4>2, SubSeqProperties
      <4>4. QED BY <3>1, <3>2, <4>3 DEF Allocate
    <3>3. CASE m.freeList = << >>
      BY <1>2, <3>1, <3>3 DEF Allocate, CanAllocate
    <3>4. QED BY <3>2, <3>3
  <2>6. n \in ChannelMapType
    BY <2>4, <2>5 DEF ChannelMapType, Allocate
  <2>7. MutuallyInverse(n)
    BY <2>1, <2>2, <2>3 DEF MutuallyInverse, Put
  <2>8. NothingFreeInUse(n)
    <3>1. CASE m.freeList # << >>
      <4> DEFINE L == Len(m.freeList)
      <4>1. m.freeList \in Seq(Channels) /\ m.nextChannel \in 0 .. MaxChannels
        BY <2>2 DEF ChannelMapType
      <4>2. L \in Nat \ {0} /\ DOMAIN m.freeList = 1 .. L
        BY <3>1, <4>1, EmptySeq, LenProperties
      <4>3. ch = m.freeList[L] /\ n.nextChannel = m.nextChannel
        BY <3>1 DEF NextFree, Allocate
      <4>4. /\ DOMAIN n.freeList = 1 .. L - 1
            /\ \A i \in 1 .. L - 1 : n.freeList[i] = m.freeList[i]
        <5>1. n.freeList = SubSeq(m.freeList, 1, L - 1)
          BY <3>1 DEF Allocate
        <5>2. \A i \in 1 .. L - 1 : m.freeList[i] \in Channels
          BY <4>1, <4>2, ElementOfSeq
        <5>3. /\ SubSeq(m.freeList, 1, L - 1) \in Seq(Channels)
              /\ Len(SubSeq(m.freeList, 1, L - 1)) = L - 1
              /\ \A i \in 1 .. L - 1 :
                   SubSeq(m.freeList, 1, L - 1)[i] = m.freeList[i]
          BY <4>2, <5>2, SubSeqProperties
        <5>4. QED BY <5>1, <5>3, LenProperties
      <4>5. DOMAIN n.channelToPty = DOMAIN m.channelToPty \cup {ch}
        BY <2>3 DEF Put
      <4> HIDE DEF n, ch, L
      <4>6. \A i \in DOMAIN n.freeList :
              i \in DOMAIN m.freeList /\ i # L /\ n.freeList[i] = m.freeList[i]
        BY <4>2, <4>4
      <4>7. L \in DOMAIN m.freeList
        BY <4>2
      <4>8. \A i, j \in DOMAIN n.freeList :
              i # j => n.freeList[i] # n.freeList[j]
        BY <2>2, <4>6 DEF NothingFreeInUse
      <4>9. \A i \in DOMAIN n.freeList :
              /\ n.freeList[i] \notin DOMAIN n.channelToPty
              /\ n.freeList[i] < n.nextChannel
        BY <2>2, <4>3, <4>5, <4>6, <4>7 DEF NothingFreeInUse
      <4>10. \A c \in DOMAIN n.channelToPty : c < n.nextChannel
        BY <2>2, <4>3, <4>5, <4>7 DEF NothingFreeInUse
      <4>11. QED BY <4>8, <4>9, <4>10 DEF NothingFreeInUse
    <3>2. CASE m.freeList = << >>
      <4>1. /\ m.nextChannel \in Nat
            /\ n.freeList = << >>
            /\ ch = m.nextChannel /\ n.nextChannel = m.nextChannel + 1
        BY <2>2, <3>2 DEF Allocate, NextFree, ChannelMapType
      <4>2. DOMAIN n.channelToPty = DOMAIN m.channelToPty \cup {ch}
        BY <2>3 DEF Put
      <4>3. \A c \in DOMAIN m.channelToPty : c \in Nat /\ c < m.nextChannel
        <5>1. DOMAIN m.channelToPty \in SUBSET Channels
          BY <2>2 DEF ChannelMapType, PartialFcn
        <5>2. QED BY <2>2, <5>1 DEF NothingFreeInUse
      <4> HIDE DEF n, ch
      <4>4. \A c \in DOMAIN n.channelToPty : c < n.nextChannel
        BY <4>1, <4>2, <4>3
      <4>5. DOMAIN n.freeList = {}
        BY <4>1
      <4>6. QED BY <4>4, <4>5 DEF NothingFreeInUse
    <3>3. QED BY <3>1, <3>2
  <2>9. QED
    BY <1>2, <2>6, <2>7, <2>8 DEF Assign, Sound
<1>3. QED BY <1>1, <1>2

\* release keeps a channel map sound, whatever channel it is given.
LEMMA ReleaseSound ==
  ASSUME NEW m, Sound(m), NEW ch \in Channels
  PROVE  Sound(Release(m, ch))
<1>1. CASE ch \notin DOMAIN m.channelToPty
  BY <1>1 DEF Release
<1>2. CASE ch \in DOMAIN m.channelToPty
  <2> DEFINE n == Release(m, ch)
  <2>1. m \in ChannelMapType /\ MutuallyInverse(m) /\ NothingFreeInUse(m)
    BY DEF Sound
  <2>2. /\ n.channelToPty = Drop(m.channelToPty, {ch})
        /\ n.ptyToChannel = Drop(m.ptyToChannel, {m.channelToPty[ch]})
        /\ n.freeList = Append(m.freeList, ch)
        /\ n.nextChannel = m.nextChannel
    BY <1>2 DEF Release
  <2>3. n \in ChannelMapType
    <3>1. /\ n.channelToPty \in PartialFcn(Channels, Ids)
          /\ n.ptyToChannel \in PartialFcn(Ids, Channels)
      BY <2>1, <2>2, DropType DEF ChannelMapType
    <3>2. n.freeList \in Seq(Channels) /\ n.nextChannel \in 0 .. MaxChannels
      BY <2>1, <2>2 DEF ChannelMapType
    <3>3. QED BY <1>2, <3>1, <3>2 DEF ChannelMapType, Release
  <2>4. MutuallyInverse(n)
    BY <1>2, <2>1, <2>2 DEF MutuallyInverse, Drop
  <2>5. NothingFreeInUse(n)
    BY <1>2, <2>1, <2>2 DEF NothingFreeInUse, Drop, ChannelMapType
  <2>6. QED BY <2>3, <2>4, <2>5 DEF Sound
<1>3. QED BY <1>1, <1>2

\* The channel that fromRecord allocates next exists: the least number that
\* is above every channel of the record.
LEMMA NextChannelExists ==
  ASSUME NEW r \in PartialFcn(Ids, Channels)
  PROVE  \E n \in 0 .. MaxChannels :
           /\ \A id \in DOMAIN r : r[id] < n
           /\ n = 0 \/ \E id \in DOMAIN r : r[id] = n - 1
<1> DEFINE above == {n \in Nat : \A id \in DOMAIN r : r[id] < n}
<1>1. \A id \in DOMAIN r : r[id] \in Channels
  BY DEF PartialFcn
<1>2. MaxChannels \in above
  BY <1>1
<1>3. PICK n \in above : \A k \in above : <<k, n>> \notin OpToRel(<, Nat)
  <2>1. above \subseteq Nat /\ above # {}
    BY <1>2
  <2> HIDE DEF above
  <2>2. QED BY <2>1, NatLessThanWellFounded, WFMin
<1>4. \A k \in above : ~ (k < n)
  BY <1>3 DEF OpToRel
<1>5. n \in 0 .. MaxChannels
  BY <1>2, <1>4
<1>6. n = 0 \/ \E id \in DOMAIN r : r[id] = n - 1
  <2>1. SUFFICES ASSUME n # 0 PROVE \E id \in DOMAIN r : r[id] = n - 1
    OBVIOUS
  <2>2. n - 1 \in Nat /\ n - 1 \notin above
    BY <1>4, <2>1
  <2>3. PICK id \in DOMAIN r : ~ (r[id] < n - 1)
    BY <2>2
  <2>4. r[id] < n /\ r[id] \in Nat
    BY <1>1
  <2>5. QED BY <2>3, <2>4
<1>7. QED BY <1>5, <1>6

\* fromRecord of what a sound map persists is sound.
LEMMA ReloadSound ==
  ASSUME NEW m, Sound(m)
  PROVE  Sound(FromRecord(m.ptyToChannel))
<1> DEFINE r == m.ptyToChannel
           n == FromRecord(r)
<1>1. m \in ChannelMapType /\ MutuallyInverse(m)
  BY DEF Sound
<1>2. r \in PartialFcn(Ids, Channels)
  BY <1>1 DEF ChannelMapType
<1>3. n.ptyToChannel = r /\ n.freeList = << >>
  BY DEF FromRecord
<1>4. \A id \in DOMAIN r : id \in Ids /\ r[id] \in Channels
  BY <1>2 DEF PartialFcn
<1>5. \A id1, id2 \in DOMAIN r : r[id1] = r[id2] => id1 = id2
  BY <1>1 DEF MutuallyInverse
<1>6. n.channelToPty = [c \in {r[id] : id \in DOMAIN r} |->
                          CHOOSE id \in DOMAIN r : r[id] = c]
  BY DEF FromRecord
<1>7. /\ n.nextChannel \in 0 .. MaxChannels
      /\ \A id \in DOMAIN r : r[id] < n.nextChannel
  <2>1. n.nextChannel = CHOOSE k \in 0 .. MaxChannels :
                          /\ \A id \in DOMAIN r : r[id] < k
                          /\ k = 0 \/ \E id \in DOMAIN r : r[id] = k - 1
    BY DEF FromRecord
  <2> HIDE DEF n
  <2>2. QED BY <1>2, <2>1, NextChannelExists
<1>8. \A c \in DOMAIN n.channelToPty :
        n.channelToPty[c] \in DOMAIN r /\ r[n.channelToPty[c]] = c
  BY <1>6
<1>9. DOMAIN n.channelToPty = {r[id] : id \in DOMAIN r}
  BY <1>6
<1>10. n.channelToPty \in PartialFcn(Channels, Ids)
  <2>1. DOMAIN n.channelToPty \in SUBSET Channels
    BY <1>4, <1>9
  <2>2. n.channelToPty \in [DOMAIN n.channelToPty -> Ids]
    BY <1>4, <1>6, <1>8
  <2>3. QED BY <2>1, <2>2 DEF PartialFcn
<1>11. n \in ChannelMapType
  BY <1>2, <1>3, <1>7, <1>10 DEF ChannelMapType, FromRecord
<1>12. MutuallyInverse(n)
  <2> HIDE DEF n
  <2>1. QED BY <1>3, <1>5, <1>8, <1>9 DEF MutuallyInverse
<1>13. NothingFreeInUse(n)
  <2> HIDE DEF n
  <2>1. QED BY <1>3, <1>7, <1>9 DEF NothingFreeInUse
<1>14. QED BY <1>11, <1>12, <1>13 DEF Sound
-----------------------------------------------------------------------------
\* What may be handed out is a set of channels none of which is in use.
LEMMA FreeUnused ==
  ASSUME NEW m, Sound(m)
  PROVE  FreeChannels(m) \in SUBSET (Channels \ DOMAIN m.channelToPty)
<1>1. m \in ChannelMapType /\ NothingFreeInUse(m)
  BY DEF Sound
<1>2. /\ \A i \in DOMAIN m.freeList : m.freeList[i] \in Channels
      /\ m.nextChannel \in Nat
  BY <1>1 DEF ChannelMapType
<1>3. \A c \in FreeChannels(m) : c \in Channels
  BY <1>2 DEF FreeChannels
<1>4. \A c \in FreeChannels(m) : c \notin DOMAIN m.channelToPty
  <2>1. \A c \in DOMAIN m.channelToPty : c < m.nextChannel
    BY <1>1 DEF NothingFreeInUse
  <2>2. \A c \in m.nextChannel .. MaxChannels - 1 :
          c \notin DOMAIN m.channelToPty
    BY <1>2, <2>1
  <2>3. QED BY <1>1, <2>2 DEF FreeChannels, NothingFreeInUse
<1>5. QED BY <1>3, <1>4

\* An id holds a channel in one direction exactly when it does in the other.
LEMMA HoldsBothWays ==
  ASSUME NEW m, Sound(m), NEW id
  PROVE  HasChannel(m, id)
           <=> \E c \in DOMAIN m.channelToPty : m.channelToPty[c] = id
BY DEF Sound, MutuallyInverse, HasChannel

\* assign takes from the channels that may be handed out exactly the one it
\* returns.
LEMMA AllocateFree ==
  ASSUME NEW m, Sound(m), CanAllocate(m), NEW id
  PROVE  /\ NextFree(m) \in FreeChannels(m)
         /\ FreeChannels(Allocate(m, id)) = FreeChannels(m) \ {NextFree(m)}
<1>1. m \in ChannelMapType /\ NothingFreeInUse(m)
  BY DEF Sound
<1>2. m.freeList \in Seq(Channels) /\ m.nextChannel \in 0 .. MaxChannels
  BY <1>1 DEF ChannelMapType
<1> DEFINE n == Allocate(m, id)
           L == Len(m.freeList)
<1>3. CASE m.freeList # << >>
  <2>1. L \in Nat \ {0} /\ DOMAIN m.freeList = 1 .. L
    BY <1>2, <1>3, EmptySeq, LenProperties
  <2>2. \A i \in 1 .. L - 1 : m.freeList[i] \in Channels
    BY <1>2, <2>1, ElementOfSeq
  <2>3. n.freeList = SubSeq(m.freeList, 1, L - 1) /\ n.nextChannel = m.nextChannel
    BY <1>3 DEF Allocate
  <2>4. /\ SubSeq(m.freeList, 1, L - 1) \in Seq(Channels)
        /\ Len(SubSeq(m.freeList, 1, L - 1)) = L - 1
        /\ \A i \in 1 .. L - 1 :
             SubSeq(m.freeList, 1, L - 1)[i] = m.freeList[i]
    BY <2>1, <2>2, SubSeqProperties
  <2>5. /\ DOMAIN n.freeList = 1 .. L - 1
        /\ \A i \in 1 .. L - 1 : n.freeList[i] = m.freeList[i]
    BY <2>3, <2>4, LenProperties
  <2>6. NextFree(m) = m.freeList[L]
    BY <1>3 DEF NextFree
  <2> HIDE DEF n, L
  <2>7. m.freeList[L] \notin m.nextChannel .. MaxChannels - 1
    BY <1>1, <1>2, <2>1 DEF NothingFreeInUse
  <2>8. {n.freeList[i] : i \in DOMAIN n.freeList}
          = {m.freeList[i] : i \in DOMAIN m.freeList} \ {m.freeList[L]}
    <3>1. \A i \in 1 .. L - 1 : m.freeList[i] # m.freeList[L]
      BY <1>1, <2>1 DEF NothingFreeInUse
    <3>2. 1 .. L = (1 .. L - 1) \cup {L}
      BY <2>1
    <3>3. QED BY <2>1, <2>5, <3>1, <3>2
  <2>9. L \in DOMAIN m.freeList
    BY <2>1
  <2>10. FreeChannels(n) = FreeChannels(m) \ {m.freeList[L]}
    BY <2>3, <2>7, <2>8 DEF FreeChannels
  <2>11. m.freeList[L] \in FreeChannels(m)
    BY <2>9 DEF FreeChannels
  <2>12. QED BY <2>6, <2>10, <2>11 DEF n
<1>4. CASE m.freeList = << >>
  <2>1. /\ NextFree(m) = m.nextChannel /\ m.nextChannel < MaxChannels
        /\ n.freeList = << >> /\ n.nextChannel = m.nextChannel + 1
    BY <1>4 DEF NextFree, Allocate, CanAllocate
  <2> HIDE DEF n
  <2>2. /\ FreeChannels(m) = m.nextChannel .. MaxChannels - 1
        /\ FreeChannels(n) = m.nextChannel + 1 .. MaxChannels - 1
    BY <1>4, <2>1 DEF FreeChannels
  <2>3. QED BY <1>2, <2>1, <2>2 DEF n
<1>5. QED BY <1>3, <1>4

\* release makes the channel available again.
LEMMA ReleaseFree ==
  ASSUME NEW m, Sound(m), NEW ch \in DOMAIN m.channelToPty
  PROVE  FreeChannels(Release(m, ch)) = FreeChannels(m) \cup {ch}
<1>1. m.freeList \in Seq(Channels) /\ ch \in Channels
  BY DEF Sound, ChannelMapType, PartialFcn
<1> DEFINE L == Len(m.freeList)
           f == Append(m.freeList, ch)
<1>2. /\ L \in Nat /\ DOMAIN m.freeList = 1 .. L
      /\ DOMAIN f = 1 .. L + 1 /\ f[L + 1] = ch
      /\ \A i \in 1 .. L : f[i] = m.freeList[i]
  BY <1>1, AppendProperties, LenProperties
<1>3. Release(m, ch).freeList = f /\ Release(m, ch).nextChannel = m.nextChannel
  BY DEF Release
<1> HIDE DEF f, L
<1>4. {f[i] : i \in DOMAIN f} = {m.freeList[i] : i \in DOMAIN m.freeList} \cup {ch}
  <2>1. 1 .. L + 1 = (1 .. L) \cup {L + 1}
    BY <1>2
  <2>2. QED BY <1>2, <2>1
<1>5. QED BY <1>3, <1>4 DEF FreeChannels

\* A reload keeps who holds what.
LEMMA ReloadOwner ==
  ASSUME NEW m, Sound(m)
  PROVE  FromRecord(m.ptyToChannel).channelToPty = m.channelToPty
<1> DEFINE r == m.ptyToChannel
<1>1. /\ m.channelToPty \in PartialFcn(Channels, Ids)
      /\ MutuallyInverse(m)
  BY DEF Sound, ChannelMapType
<1>2. DOMAIN m.channelToPty = {r[id] : id \in DOMAIN r}
  BY <1>1 DEF MutuallyInverse
<1>3. \A c \in DOMAIN m.channelToPty :
        (CHOOSE id \in DOMAIN r : r[id] = c) = m.channelToPty[c]
  BY <1>1 DEF MutuallyInverse
<1>4. m.channelToPty = [c \in DOMAIN m.channelToPty |-> m.channelToPty[c]]
  BY <1>1 DEF PartialFcn
<1>5. FromRecord(r).channelToPty
        = [c \in {r[id] : id \in DOMAIN r} |-> CHOOSE id \in DOMAIN r : r[id] = c]
  BY DEF FromRecord
<1>6. QED BY <1>2, <1>3, <1>4, <1>5
-----------------------------------------------------------------------------
\* n has the channels of m but for those of ids.
Without(n, m, ids) ==
  /\ DOMAIN n.ptyToChannel = DOMAIN m.ptyToChannel \ ids
  /\ \A id \in DOMAIN n.ptyToChannel : n.ptyToChannel[id] = m.ptyToChannel[id]

\* What release of one id does.
LEMMA ReleaseIdKeeps ==
  ASSUME NEW m, Sound(m), NEW id
  PROVE  Sound(ReleaseId(m, id)) /\ Without(ReleaseId(m, id), m, {id})
<1>1. CASE ~ HasChannel(m, id)
  BY <1>1 DEF ReleaseId, HasChannel, Without
<1>2. CASE HasChannel(m, id)
  <2> DEFINE ch == m.ptyToChannel[id]
  <2>1. ch \in DOMAIN m.channelToPty /\ m.channelToPty[ch] = id
    BY <1>2 DEF Sound, MutuallyInverse, HasChannel
  <2>2. ReleaseId(m, id) = Release(m, ch)
    BY <1>2 DEF ReleaseId
  <2> HIDE DEF ch
  <2>3. ch \in Channels
    BY <2>1 DEF Sound, ChannelMapType, PartialFcn
  <2>4. Sound(Release(m, ch))
    BY <2>3, ReleaseSound
  <2>5. Release(m, ch).ptyToChannel = Drop(m.ptyToChannel, {id})
    BY <2>1 DEF Release
  <2>6. Without(Release(m, ch), m, {id})
    BY <2>5 DEF Drop, Without
  <2>7. QED BY <2>2, <2>4, <2>6
<1>3. QED BY <1>1, <1>2

\* The loop over the ids takes the channels of exactly these away.
LEMMA ReleaseAllKeeps ==
  ASSUME NEW m, Sound(m), NEW T, NEW s \in Seq(T)
  PROVE  Sound(ReleaseAll(m, s)) /\ Without(ReleaseAll(m, s), m, ToSet(s))
<1> DEFINE N == Len(s)
           D == {x \in ChannelMapType : Sound(x)}
           step == [n \in 1 .. N |-> [x \in D |-> ReleaseId(x, s[n])]]
           body(f) == [i \in 0 .. N |-> IF i = 0 THEN m ELSE ReleaseId(f[i - 1], s[i])]
           after == CHOOSE f : f = body(f)
<1>1. N \in Nat /\ m \in D
  BY DEF Sound
<1>2. StepsIn(step, N, D)
  <2>1. ASSUME NEW n \in 1 .. N, NEW x \in D PROVE ReleaseId(x, s[n]) \in D
    BY ReleaseIdKeeps DEF Sound
  <2> HIDE DEF D
  <2>2. QED BY <2>1 DEF StepsIn
<1>3. \A n \in 1 .. N, x \in D : step[n][x] = ReleaseId(x, s[n])
  OBVIOUS
<1>4. PICK f : Recursive(f, step, N, D, m)
  <2> HIDE DEF N, D, step
  <2>1. QED BY <1>1, <1>2, Recursion
<1> HIDE DEF step, D
<1>5. \A n \in 1 .. N : f[n] = ReleaseId(f[n - 1], s[n])
  <2>1. ASSUME NEW n \in 1 .. N PROVE f[n] = ReleaseId(f[n - 1], s[n])
    <3>1. n - 1 \in 0 .. N /\ f[n - 1] \in D
      BY <1>1, <1>4 DEF Recursive
    <3>2. QED BY <1>3, <1>4, <3>1 DEF Recursive
  <2>2. QED BY <2>1
<1>6. f = body(f)
  <2> HIDE DEF N
  <2>1. f \in [0 .. N -> D] /\ f[0] = m
    BY <1>4 DEF Recursive
  <2>2. QED BY <1>1, <1>5, <2>1
<1>7. after = body(after)
  BY <1>6
<1>8. ReleaseAll(m, s) = after[N]
  BY DEF ReleaseAll
<1> HIDE DEF after
<1>9. after[0] = m /\ \A n \in 1 .. N : after[n] = ReleaseId(after[n - 1], s[n])
  BY <1>1, <1>7
<1> DEFINE first(n) == {s[i] : i \in 1 .. n}
           S == {n \in 0 .. N : Sound(after[n]) /\ Without(after[n], m, first(n))}
<1>10. 0 \in S
  <2>1. first(0) = {} /\ 0 \in 0 .. N
    BY <1>1
  <2>2. QED BY <1>9, <2>1 DEF Without
<1>11. ASSUME NEW n \in 1 .. N, n - 1 \in S PROVE n \in S
  <2> DEFINE x == after[n - 1]
  <2>1. Sound(x) /\ Without(x, m, first(n - 1)) /\ after[n] = ReleaseId(x, s[n])
    BY <1>9, <1>11
  <2>2. first(n) = first(n - 1) \cup {s[n]} /\ n \in 0 .. N
    BY <1>1
  <2> HIDE DEF x, first
  <2>3. Sound(after[n]) /\ Without(after[n], x, {s[n]})
    BY <2>1, ReleaseIdKeeps
  <2>4. Without(after[n], m, first(n))
    BY <2>1, <2>2, <2>3 DEF Without
  <2>5. QED BY <2>2, <2>3, <2>4
<1>12. N \in S
  <2> HIDE DEF S, N
  <2>1. \A n \in 0 .. N : n \in S
    BY <1>1, <1>10, <1>11, UpTo
  <2>2. QED BY <1>1, <2>1
<1>13. first(N) = ToSet(s)
  BY DEF ToSet
<1>14. QED BY <1>8, <1>12, <1>13
=============================================================================
