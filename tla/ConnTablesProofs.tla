-------------------------- MODULE ConnTablesProofs --------------------------
(* Theorems about ConnTables, for every value of its constants: every number of
   clients, ports, cores and buckets, every size of the tables, and packets that
   arrive between any two kernel calls of a walk. *)
EXTENDS ConnTables, SequenceTheorems, FiniteSetTheorems, TLAPS

(* The inductive invariant *)

\* A table lists its buckets in order and every key once.
InOrder(s) ==
  \A i, j \in 1..Len(s) : i < j => s[i] # s[j] /\ Bucket[s[i]] <= Bucket[s[j]]

\* A walk meets x before y.
Before(s, x, y) == \E i, j \in 1..Len(s) : i < j /\ s[i] = x /\ s[j] = y

TablesInv ==
  /\ lru \in [Table -> Seq(FlowKey)]
  /\ \A t \in Table : InOrder(lru[t]) /\ Len(lru[t]) <= Capacity

WalkType ==
  [op : Walks, vip : VipPort \cup {Wildcard}, maps : Seq(Table),
   key : FlowKey \cup {NoKey}, next : FlowKey \cup {NoKey, ENOENT, EOther},
   i : 0..(kLruMaxLookups - 1), pc : {"next", "visit"}, error : BOOLEAN,
   listed : Nat, limit : Limits \cup {0}]

LookupType == [op : Lookups, vip : VipPort, src : Src, maps : Seq(Table)]

CallInv ==
  /\ flags \in [VipPort -> SUBSET Flag]
  /\ call \in {Idle} \cup WalkType \cup LookupType
  /\ call # Idle => call.maps # <<>>

\* What is pending is in the table the call is at, and asked for.
PendingInv ==
  /\ call = Idle => pending = {}
  /\ call # Idle => pending \subseteq Keys(Head(call.maps)) \cap Wanted(call)

\* The VIPs that NothingMissed excepts
Excepted(c) ==
  /\ c.op # "analyzeLru"
  /\ KeepsPort(c.vip) \/ (c.op \in Lookups /\ DropsClient(c.vip))

\* Key k of table t comes no later than x; if it was evicted and entered again, or
\* moved, it is the first of its bucket now.
NotAfter(t, k, x) ==
  /\ Bucket[k] <= Bucket[x]
  /\ k \in Keys(t) => x = k \/ Before(lru[t], k, x)

\* A walk has not passed by anything that is pending.
AheadInv ==
  LET t == Head(call.maps) IN
  call.op \in Walks =>
    /\ call.i = 0 <=> call.key = NoKey
    /\ call.error => pending = {}
    /\ call.pc = "visit" => call.next # NoKey
    /\ ~Excepted(call) =>
         /\ call.pc = "next" /\ call.key # NoKey =>
              \A x \in pending : NotAfter(t, call.key, x)
         /\ call.pc = "visit" =>
              /\ call.next = ENOENT => pending \subseteq {call.key}
              /\ call.next \in FlowKey =>
                   \A x \in pending : x = call.key \/ NotAfter(t, call.next, x)

IndInv == TablesInv /\ CallInv /\ PendingInv /\ AheadInv /\ NothingMissed
-----------------------------------------------------------------------------
(* Tables *)

LEMMA RangeIndex ==
  ASSUME NEW S, NEW s \in Seq(S)
  PROVE  /\ Range(s) \subseteq S
         /\ \A x : x \in Range(s) <=> \E i \in 1..Len(s) : s[i] = x
<1>1. DOMAIN s = 1..Len(s) /\ Len(s) \in Nat /\ \A i \in 1..Len(s) : s[i] \in S
  BY LenProperties
<1> QED BY <1>1 DEF Range

LEMMA RemoveAtIs ==
  ASSUME NEW S, NEW s \in Seq(S), NEW n \in 1..Len(s)
  PROVE  /\ RemoveAt(s, n) \in Seq(S)
         /\ Len(RemoveAt(s, n)) = Len(s) - 1
         /\ \A j \in 1..(Len(s) - 1) : RemoveAt(s, n)[j] = IF j < n THEN s[j] ELSE s[j + 1]
<1> DEFINE a == SubSeq(s, 1, n - 1)
           b == SubSeq(s, n + 1, Len(s))
<1>0. Len(s) \in Nat /\ \A i \in 1..Len(s) : s[i] \in S
  BY LenProperties
<1>1. a \in Seq(S) /\ Len(a) = n - 1 /\ \A i \in 1..(n - 1) : a[i] = s[i]
  <2>1. \A i \in 1..(n - 1) : s[i] \in S
    BY <1>0
  <2>2. /\ a \in Seq(S) /\ Len(a) = IF 1 <= n - 1 THEN n - 1 - 1 + 1 ELSE 0
        /\ \A i \in 1..(n - 1 - 1 + 1) : a[i] = s[1 + i - 1]
    BY <2>1, <1>0, SubSeqProperties
  <2> QED BY <2>2, <1>0
<1>2. b \in Seq(S) /\ Len(b) = Len(s) - n /\ \A i \in 1..(Len(s) - n) : b[i] = s[n + i]
  <2>1. \A i \in (n + 1)..Len(s) : s[i] \in S
    BY <1>0
  <2>2. /\ b \in Seq(S) /\ Len(b) = IF n + 1 <= Len(s) THEN Len(s) - (n + 1) + 1 ELSE 0
        /\ \A i \in 1..(Len(s) - (n + 1) + 1) : b[i] = s[n + 1 + i - 1]
    BY <2>1, <1>0, SubSeqProperties
  <2> QED BY <2>2, <1>0
<1> HIDE DEF a, b
<1>3. /\ a \o b \in Seq(S) /\ Len(a \o b) = Len(a) + Len(b)
      /\ \A i \in 1..(Len(a) + Len(b)) : (a \o b)[i] = IF i <= Len(a) THEN a[i] ELSE b[i - Len(a)]
  BY <1>1, <1>2, ConcatProperties
<1>4. RemoveAt(s, n) = a \o b
  BY DEF RemoveAt, a, b
<1>5. \A j \in 1..(Len(s) - 1) : (a \o b)[j] = IF j < n THEN s[j] ELSE s[j + 1]
  <2> TAKE j \in 1..(Len(s) - 1)
  <2>1. CASE j < n
    BY <2>1, <1>0, <1>1, <1>2, <1>3
  <2>2. CASE ~(j < n)
    <3>1. (a \o b)[j] = b[j - (n - 1)] /\ j - (n - 1) \in 1..(Len(s) - n)
      BY <2>2, <1>0, <1>1, <1>2, <1>3
    <3> QED BY <3>1, <2>2, <1>0, <1>2
  <2> QED BY <2>1, <2>2
<1>6. Len(a \o b) = Len(s) - 1
  BY <1>0, <1>1, <1>2, <1>3
<1> QED BY <1>3, <1>4, <1>5, <1>6

LEMMA InsertAtIs ==
  ASSUME NEW S, NEW s \in Seq(S), NEW n \in 1..(Len(s) + 1), NEW k \in S
  PROVE  /\ InsertAt(s, n, k) \in Seq(S)
         /\ Len(InsertAt(s, n, k)) = Len(s) + 1
         /\ \A j \in 1..(Len(s) + 1) :
              InsertAt(s, n, k)[j] = IF j < n THEN s[j] ELSE IF j = n THEN k ELSE s[j - 1]
<1> DEFINE a == SubSeq(s, 1, n - 1)
           b == SubSeq(s, n, Len(s))
           c == a \o <<k>>
<1>0. Len(s) \in Nat /\ \A i \in 1..Len(s) : s[i] \in S
  BY LenProperties
<1>1. a \in Seq(S) /\ Len(a) = n - 1 /\ \A i \in 1..(n - 1) : a[i] = s[i]
  <2>1. \A i \in 1..(n - 1) : s[i] \in S
    BY <1>0
  <2>2. /\ a \in Seq(S) /\ Len(a) = IF 1 <= n - 1 THEN n - 1 - 1 + 1 ELSE 0
        /\ \A i \in 1..(n - 1 - 1 + 1) : a[i] = s[1 + i - 1]
    BY <2>1, <1>0, SubSeqProperties
  <2> QED BY <2>2, <1>0
<1>2. /\ b \in Seq(S) /\ Len(b) = Len(s) - n + 1
      /\ \A i \in 1..(Len(s) - n + 1) : b[i] = s[n + i - 1]
  <2>1. \A i \in n..Len(s) : s[i] \in S
    BY <1>0
  <2>2. /\ b \in Seq(S) /\ Len(b) = IF n <= Len(s) THEN Len(s) - n + 1 ELSE 0
        /\ \A i \in 1..(Len(s) - n + 1) : b[i] = s[n + i - 1]
    BY <2>1, <1>0, SubSeqProperties
  <2> QED BY <2>2, <1>0
<1> HIDE DEF a, b
<1>3. <<k>> \in Seq(S) /\ Len(<<k>>) = 1 /\ <<k>>[1] = k
  OBVIOUS
<1>4. /\ c \in Seq(S) /\ Len(c) = n
      /\ \A i \in 1..n : c[i] = IF i < n THEN s[i] ELSE k
  <2>1. /\ c \in Seq(S) /\ Len(c) = Len(a) + 1
        /\ \A i \in 1..(Len(a) + 1) : c[i] = IF i <= Len(a) THEN a[i] ELSE <<k>>[i - Len(a)]
    BY <1>1, <1>3, ConcatProperties
  <2>2. \A i \in 1..n : c[i] = IF i < n THEN s[i] ELSE k
    <3> TAKE i \in 1..n
    <3>0. i \in Int /\ n \in Int /\ i <= n
      BY <1>0
    <3>1. CASE i < n
      BY <3>1, <1>0, <1>1, <2>1
    <3>2. CASE i = n
      <4>1. i \in 1..(Len(a) + 1) /\ ~(i <= Len(a)) /\ i - Len(a) = 1
        BY <3>2, <1>0, <1>1
      <4>2. c[i] = <<k>>[i - Len(a)]
        BY <4>1, <2>1
      <4> QED BY <4>1, <4>2, <3>2, <1>3
    <3>3. i < n \/ i = n
      BY <3>0
    <3> QED BY <3>1, <3>2, <3>3, Zenon
  <2> QED BY <2>1, <2>2, <1>1, <1>0
<1> HIDE DEF c
<1>5. /\ c \o b \in Seq(S) /\ Len(c \o b) = Len(c) + Len(b)
      /\ \A i \in 1..(Len(c) + Len(b)) : (c \o b)[i] = IF i <= Len(c) THEN c[i] ELSE b[i - Len(c)]
  BY <1>2, <1>4, ConcatProperties
<1>6. InsertAt(s, n, k) = c \o b
  BY DEF InsertAt, a, b, c
<1>7. \A j \in 1..(Len(s) + 1) :
        (c \o b)[j] = IF j < n THEN s[j] ELSE IF j = n THEN k ELSE s[j - 1]
  <2> TAKE j \in 1..(Len(s) + 1)
  <2>0. j \in Int /\ n \in Int
    BY <1>0
  <2>1. CASE j <= n
    <3>1. j \in 1..n /\ j \in 1..(Len(c) + Len(b)) /\ j <= Len(c)
      BY <2>1, <1>0, <1>2, <1>4
    <3>2. (c \o b)[j] = c[j]
      BY <3>1, <1>5
    <3> QED BY <3>1, <3>2, <1>4
  <2>2. CASE j > n
    <3>1. (c \o b)[j] = b[j - n] /\ j - n \in 1..(Len(s) - n + 1)
      BY <2>2, <1>0, <1>2, <1>4, <1>5
    <3> QED BY <3>1, <2>2, <1>0, <1>2
  <2>3. j <= n \/ j > n
    BY <2>0
  <2> QED BY <2>1, <2>2, <2>3, Zenon
<1> QED BY <1>0, <1>2, <1>4, <1>5, <1>6, <1>7

\* The first position that a test selects
LEMMA FirstPosition ==
  ASSUME NEW I, NEW n \in Nat, I \subseteq 1..n, I # {}
  PROVE  Min(I) \in I /\ \A j \in I : Min(I) <= j
<1> DEFINE R == OpToRel(<, Nat)
<1>1. IsWellFoundedOn(R, Nat)
  BY NatLessThanWellFounded
<1>2. \A x, y \in Nat : <<x, y>> \notin R => y <= x
  BY DEF OpToRel
<1>3. I \subseteq Nat
  OBVIOUS
<1> HIDE DEF R
<1>4. \E x \in I : \A y \in I : ~(<<y, x>> \in R)
  BY <1>1, <1>3, WFMin
<1>5. \E x \in I : \A y \in I : x <= y
  <2>1. PICK x \in I : \A y \in I : ~(<<y, x>> \in R)
    BY <1>4
  <2>2. \A y \in I : x <= y
    BY <2>1, <1>2, <1>3
  <2> QED BY <2>2
<1> QED BY <1>5 DEF Min

LEMMA BucketType == \A k \in FlowKey : Bucket[k] \in Nat
  BY ConnAssumption

\* A key that leaves a table leaves the order of the others alone.
LEMMA RemoveAtKeepsOrder ==
  ASSUME NEW s \in Seq(FlowKey), InOrder(s), NEW n \in 1..Len(s)
  PROVE  /\ RemoveAt(s, n) \in Seq(FlowKey)
         /\ InOrder(RemoveAt(s, n))
         /\ Len(RemoveAt(s, n)) = Len(s) - 1
         /\ Range(RemoveAt(s, n)) = Range(s) \ {s[n]}
         /\ \A x, y : x # s[n] /\ y # s[n] /\ Before(s, x, y) => Before(RemoveAt(s, n), x, y)
<1> DEFINE r == RemoveAt(s, n)
<1>0. Len(s) \in Nat /\ n \in Nat /\ n >= 1 /\ n <= Len(s) /\ \A i \in 1..Len(s) : s[i] \in FlowKey
  BY LenProperties
<1>1. /\ r \in Seq(FlowKey) /\ Len(r) = Len(s) - 1
      /\ \A j \in 1..(Len(s) - 1) : r[j] = IF j < n THEN s[j] ELSE s[j + 1]
  BY RemoveAtIs
<1> HIDE DEF r
<1> DEFINE Old(j) == IF j < n THEN j ELSE j + 1
           New(i) == IF i < n THEN i ELSE i - 1
<1>2. \A j \in 1..Len(r) : Old(j) \in 1..Len(s) /\ Old(j) # n /\ r[j] = s[Old(j)]
  BY <1>0, <1>1
<1>3. \A i \in 1..Len(s) : i # n => New(i) \in 1..Len(r) /\ r[New(i)] = s[i]
  <2> TAKE i \in 1..Len(s)
  <2>1. CASE i < n
    BY <2>1, <1>0, <1>1
  <2>2. CASE i > n
    <3>1. New(i) = i - 1 /\ i - 1 \in 1..(Len(s) - 1) /\ ~(i - 1 < n) /\ (i - 1) + 1 = i
      BY <2>2, <1>0
    <3> QED BY <3>1, <1>1
  <2>3. i # n => i < n \/ i > n
    BY <1>0
  <2> QED BY <2>1, <2>2, <2>3, Zenon
<1>4. \A i, j \in 1..Len(r) : i < j => Old(i) < Old(j)
  BY <1>0, <1>1
<1>5. \A i, j \in 1..Len(s) : i < j /\ i # n /\ j # n => New(i) < New(j)
  BY <1>0
<1> HIDE DEF Old, New
<1>6. InOrder(r)
  <2> SUFFICES ASSUME NEW i \in 1..Len(r), NEW j \in 1..Len(r), i < j
               PROVE  r[i] # r[j] /\ Bucket[r[i]] <= Bucket[r[j]]
    BY DEF InOrder
  <2>1. s[Old(i)] # s[Old(j)] /\ Bucket[s[Old(i)]] <= Bucket[s[Old(j)]]
    BY <1>2, <1>4 DEF InOrder
  <2> QED BY <2>1, <1>2
<1>7. Range(r) = Range(s) \ {s[n]}
  <2>1. \A x : x \in Range(r) => x \in Range(s) /\ x # s[n]
    <3> SUFFICES ASSUME NEW j \in 1..Len(r)
                 PROVE  r[j] \in Range(s) /\ r[j] # s[n]
      BY <1>1, RangeIndex
    <3>1. r[j] = s[Old(j)] /\ Old(j) \in 1..Len(s) /\ Old(j) # n
      BY <1>2
    <3>2. Old(j) < n \/ n < Old(j)
      BY <3>1, <1>0
    <3>3. s[Old(j)] # s[n]
      BY <3>1, <3>2 DEF InOrder
    <3> QED BY <3>1, <3>3, RangeIndex
  <2>2. \A x : x \in Range(s) /\ x # s[n] => x \in Range(r)
    <3> SUFFICES ASSUME NEW i \in 1..Len(s), s[i] # s[n]
                 PROVE  s[i] \in Range(r)
      BY RangeIndex
    <3>1. New(i) \in 1..Len(r) /\ r[New(i)] = s[i]
      BY <1>3
    <3> QED BY <3>1, <1>1, RangeIndex
  <2> QED BY <2>1, <2>2
<1>8. ASSUME NEW x, NEW y, x # s[n], y # s[n], Before(s, x, y)
      PROVE  Before(r, x, y)
  <2>1. PICK i \in 1..Len(s), j \in 1..Len(s) : i < j /\ s[i] = x /\ s[j] = y
    BY <1>8 DEF Before
  <2>2. i # n /\ j # n
    BY <2>1, <1>8
  <2>3. New(i) < New(j) /\ New(i) \in 1..Len(r) /\ New(j) \in 1..Len(r)
        /\ r[New(i)] = x /\ r[New(j)] = y
    BY <2>1, <2>2, <1>3, <1>5
  <2> QED BY <2>3 DEF Before
<1> QED BY <1>1, <1>6, <1>7, <1>8 DEF r

LEMMA RemoveFirstKeepsOrder ==
  ASSUME NEW s \in Seq(FlowKey), InOrder(s), NEW k
  PROVE  /\ RemoveFirst(s, k) \in Seq(FlowKey)
         /\ InOrder(RemoveFirst(s, k))
         /\ Len(RemoveFirst(s, k)) <= Len(s)
         /\ Range(RemoveFirst(s, k)) = Range(s) \ {k}
         /\ \A x, y : x # k /\ y # k /\ Before(s, x, y) => Before(RemoveFirst(s, k), x, y)
<1>0. Len(s) \in Nat
  BY LenProperties
<1>1. CASE k \in Range(s)
  <2> DEFINE I == {i \in 1..Len(s) : s[i] = k}
  <2>1. I # {} /\ I \subseteq 1..Len(s) /\ \E i \in 1..Len(s) : s[i] = k
    BY <1>1, RangeIndex
  <2>2. Min(I) \in I
    BY <2>1, <1>0, FirstPosition
  <2>3. RemoveFirst(s, k) = RemoveAt(s, Min(I))
    BY <2>1 DEF RemoveFirst, SelectInSeq
  <2>4. Min(I) \in 1..Len(s) /\ s[Min(I)] = k
    BY <2>2
  <2> HIDE DEF I
  <2> QED BY <2>3, <2>4, <1>0, RemoveAtKeepsOrder
<1>2. CASE k \notin Range(s)
  <2>1. RemoveFirst(s, k) = s
    BY <1>2, RangeIndex DEF RemoveFirst
  <2> QED BY <2>1, <1>0, <1>2
<1> QED BY <1>1, <1>2

\* A key enters a table in front of its bucket.
LEMMA InsertKeepsOrder ==
  ASSUME NEW s \in Seq(FlowKey), InOrder(s), NEW k \in FlowKey, k \notin Range(s)
  PROVE  /\ AtBucketHead(s, k) \in Seq(FlowKey)
         /\ InOrder(AtBucketHead(s, k))
         /\ Len(AtBucketHead(s, k)) = Len(s) + 1
         /\ Range(AtBucketHead(s, k)) = Range(s) \cup {k}
         /\ \A x, y : Before(s, x, y) => Before(AtBucketHead(s, k), x, y)
         /\ \A x \in Range(s) : Bucket[k] <= Bucket[x] => Before(AtBucketHead(s, k), k, x)
<1> DEFINE r == AtBucketHead(s, k)
           I == {i \in 1..Len(s) : Bucket[s[i]] >= Bucket[k]}
           n == IF I = {} THEN Len(s) + 1 ELSE Min(I)
<1>0. Len(s) \in Nat /\ \A i \in 1..Len(s) : s[i] \in FlowKey /\ Bucket[s[i]] \in Nat
  BY LenProperties, BucketType
<1>1. /\ n \in 1..(Len(s) + 1)
      /\ \A i \in 1..Len(s) : i < n => Bucket[s[i]] < Bucket[k]
      /\ n <= Len(s) => Bucket[s[n]] >= Bucket[k]
  <2>0. Bucket[k] \in Nat
    BY BucketType
  <2>1. CASE I = {}
    BY <2>1, <2>0, <1>0
  <2>2. CASE I # {}
    <3>1. Min(I) \in I /\ \A j \in I : Min(I) <= j
      BY <2>2, <1>0, FirstPosition
    <3>2. n = Min(I)
      BY <2>2
    <3> HIDE DEF n
    <3>3. n \in 1..Len(s) /\ Bucket[s[n]] >= Bucket[k] /\ \A j \in I : n <= j
      BY <3>1, <3>2
    <3>4. \A i \in 1..Len(s) : i < n => i \notin I
      BY <3>3, <1>0
    <3> QED BY <3>3, <3>4, <2>0, <1>0
  <2> QED BY <2>1, <2>2
<1>2. /\ r \in Seq(FlowKey) /\ Len(r) = Len(s) + 1
      /\ \A j \in 1..(Len(s) + 1) :
           r[j] = IF j < n THEN s[j] ELSE IF j = n THEN k ELSE s[j - 1]
  <2>1. CASE I = {}
    <3>1. r = Append(s, k) /\ n = Len(s) + 1
      BY <2>1 DEF AtBucketHead, SelectInSeq
    <3>2. /\ Append(s, k) \in Seq(FlowKey) /\ Len(Append(s, k)) = Len(s) + 1
          /\ \A j \in 1..Len(s) : Append(s, k)[j] = s[j]
          /\ Append(s, k)[Len(s) + 1] = k
      BY AppendProperties
    <3> HIDE DEF n, r
    <3>3. \A j \in 1..(Len(s) + 1) : j < n => r[j] = s[j]
      BY <3>1, <3>2, <1>0
    <3>4. \A j \in 1..(Len(s) + 1) : j < n \/ j = n
      BY <3>1, <1>0
    <3>5. r \in Seq(FlowKey) /\ Len(r) = Len(s) + 1 /\ r[n] = k
      BY <3>1, <3>2
    <3> QED BY <3>3, <3>4, <3>5
  <2>2. CASE I # {}
    <3>1. n = Min(I) /\ Min(I) \in I
      BY <2>2, <1>0, FirstPosition
    <3>2. r = InsertAt(s, n, k)
      BY <2>2, <3>1, <1>0 DEF AtBucketHead, SelectInSeq
    <3> HIDE DEF n, r
    <3>3. /\ InsertAt(s, n, k) \in Seq(FlowKey)
          /\ Len(InsertAt(s, n, k)) = Len(s) + 1
          /\ \A j \in 1..(Len(s) + 1) :
               InsertAt(s, n, k)[j] = IF j < n THEN s[j] ELSE IF j = n THEN k ELSE s[j - 1]
      BY <1>1, InsertAtIs
    <3> QED BY <3>2, <3>3, Zenon
  <2> QED BY <2>1, <2>2
<1> HIDE DEF r, I, n
<1>3. n \in Nat /\ n >= 1 /\ n <= Len(s) + 1
  BY <1>0, <1>1
<1> DEFINE New(i) == IF i < n THEN i ELSE i + 1
           Old(j) == IF j < n THEN j ELSE j - 1
<1>4. \A i \in 1..Len(s) : New(i) \in 1..Len(r) /\ r[New(i)] = s[i]
  <2> TAKE i \in 1..Len(s)
  <2>1. CASE i < n
    BY <2>1, <1>0, <1>2, <1>3
  <2>2. CASE i >= n
    <3>1. /\ New(i) = i + 1 /\ i + 1 \in 1..(Len(s) + 1) /\ ~(i + 1 < n) /\ i + 1 # n
          /\ (i + 1) - 1 = i
      BY <2>2, <1>0, <1>3
    <3> QED BY <3>1, <1>2
  <2>3. i < n \/ i >= n
    BY <1>0, <1>3
  <2> QED BY <2>1, <2>2, <2>3, Zenon
<1>5. \A j \in 1..Len(r) : j # n => Old(j) \in 1..Len(s) /\ r[j] = s[Old(j)]
  <2> TAKE j \in 1..Len(r)
  <2>1. CASE j < n
    BY <2>1, <1>0, <1>2, <1>3
  <2>2. CASE j > n
    <3>1. Old(j) = j - 1 /\ j - 1 \in 1..Len(s) /\ ~(j < n) /\ j # n /\ j \in 1..(Len(s) + 1)
      BY <2>2, <1>0, <1>2, <1>3
    <3> QED BY <3>1, <1>2
  <2>3. j # n => j < n \/ j > n
    BY <1>0, <1>2, <1>3
  <2> QED BY <2>1, <2>2, <2>3, Zenon
<1>6. n \in 1..Len(r) /\ r[n] = k
  BY <1>0, <1>2, <1>3
<1>7. \A i, j \in 1..Len(s) : i < j => New(i) < New(j)
  BY <1>0, <1>3
<1>8. \A i, j \in 1..Len(r) : i < j /\ i # n /\ j # n => Old(i) < Old(j)
  BY <1>0, <1>2, <1>3
<1>9. \A i \in 1..Len(s) : i >= n => n < New(i) /\ Bucket[k] <= Bucket[s[i]]
  <2> SUFFICES ASSUME NEW i \in 1..Len(s), i >= n
               PROVE  n < New(i) /\ Bucket[k] <= Bucket[s[i]]
    OBVIOUS
  <2>1. n < New(i)
    BY <1>0, <1>3
  <2>2. n \in 1..Len(s) /\ Bucket[k] <= Bucket[s[n]] /\ (i = n \/ n < i)
    BY <1>0, <1>1, <1>3, BucketType
  <2>3. i = n \/ Bucket[s[n]] <= Bucket[s[i]]
    BY <2>2 DEF InOrder
  <2>4. Bucket[s[n]] \in Nat /\ Bucket[s[i]] \in Nat /\ Bucket[k] \in Nat
    BY <2>2, <1>0, BucketType
  <2> QED BY <2>1, <2>2, <2>3, <2>4
<1> HIDE DEF New, Old
<1>10. Range(r) = Range(s) \cup {k}
  <2>1. \A x : x \in Range(r) => x \in Range(s) \cup {k}
    <3> SUFFICES ASSUME NEW j \in 1..Len(r)
                 PROVE  r[j] \in Range(s) \cup {k}
      BY <1>2, RangeIndex
    <3>1. CASE j = n
      BY <3>1, <1>6
    <3>2. CASE j # n
      BY <3>2, <1>5, RangeIndex
    <3> QED BY <3>1, <3>2
  <2>2. \A x \in Range(s) : x \in Range(r)
    <3> SUFFICES ASSUME NEW i \in 1..Len(s)
                 PROVE  s[i] \in Range(r)
      BY RangeIndex
    <3>1. New(i) \in 1..Len(r) /\ r[New(i)] = s[i]
      BY <1>4
    <3> QED BY <3>1, <1>2, RangeIndex
  <2>3. k \in Range(r)
    BY <1>2, <1>6, RangeIndex
  <2> QED BY <2>1, <2>2, <2>3
<1>11. InOrder(r)
  <2> SUFFICES ASSUME NEW i \in 1..Len(r), NEW j \in 1..Len(r), i < j
               PROVE  r[i] # r[j] /\ Bucket[r[i]] <= Bucket[r[j]]
    BY DEF InOrder
  <2>1. CASE i # n /\ j # n
    <3>1. s[Old(i)] # s[Old(j)] /\ Bucket[s[Old(i)]] <= Bucket[s[Old(j)]]
      BY <2>1, <1>5, <1>8 DEF InOrder
    <3> QED BY <3>1, <2>1, <1>5
  <2>2. CASE i = n
    <3>1. j # n /\ j > n
      BY <2>2, <1>3, <1>2, <1>0
    <3>2. r[j] = s[j - 1] /\ j - 1 \in 1..Len(s) /\ j - 1 >= n
      BY <3>1, <1>0, <1>2, <1>3
    <3>3. Bucket[k] <= Bucket[s[j - 1]] /\ s[j - 1] \in Range(s)
      BY <3>2, <1>9, RangeIndex
    <3> QED BY <3>2, <3>3, <2>2, <1>6
  <2>3. CASE j = n
    <3>1. r[i] = s[i] /\ i \in 1..Len(s) /\ i < n
      BY <2>3, <1>0, <1>2, <1>3
    <3>2. Bucket[s[i]] < Bucket[k] /\ s[i] \in Range(s) /\ Bucket[s[i]] \in Nat /\ Bucket[k] \in Nat
      BY <3>1, <1>1, <1>0, RangeIndex, BucketType
    <3> QED BY <3>1, <3>2, <2>3, <1>6
  <2> QED BY <2>1, <2>2, <2>3
<1>12. ASSUME NEW x, NEW y, Before(s, x, y)
       PROVE  Before(r, x, y)
  <2>1. PICK i \in 1..Len(s), j \in 1..Len(s) : i < j /\ s[i] = x /\ s[j] = y
    BY <1>12 DEF Before
  <2>2. New(i) < New(j) /\ New(i) \in 1..Len(r) /\ New(j) \in 1..Len(r)
        /\ r[New(i)] = x /\ r[New(j)] = y
    BY <2>1, <1>4, <1>7
  <2> QED BY <2>2 DEF Before
<1>13. ASSUME NEW x \in Range(s), Bucket[k] <= Bucket[x]
       PROVE  Before(r, k, x)
  <2>1. PICK i \in 1..Len(s) : s[i] = x
    BY RangeIndex
  <2>2. i >= n
    BY <2>1, <1>13, <1>0, <1>1, <1>3, BucketType
  <2>3. n < New(i) /\ New(i) \in 1..Len(r) /\ r[New(i)] = x
    BY <2>1, <2>2, <1>4, <1>9
  <2> QED BY <2>3, <1>6 DEF Before
<1> QED BY <1>2, <1>10, <1>11, <1>12, <1>13 DEF r

\* What a packet that enters key k may do to a table: others keep their order or
\* are evicted, and k comes before everything of its own and of later buckets.
LEMMA UpdateKeepsOrder ==
  ASSUME NEW s \in Seq(FlowKey), InOrder(s), Len(s) <= Capacity, NEW k \in FlowKey,
         NEW r \in UpdatedTables(s, k)
  PROVE  /\ r \in Seq(FlowKey) /\ InOrder(r) /\ Len(r) <= Capacity
         /\ Range(r) \subseteq Range(s) \cup {k}
         /\ \A x, y \in Range(r) \ {k} : Before(s, x, y) => Before(r, x, y)
         /\ \A x \in Range(r) \ {k} : Bucket[k] <= Bucket[x] => Before(r, k, x)
<1> DEFINE rest == RemoveFirst(s, k)
<1>0. Capacity \in Nat \ {0} /\ Len(s) \in Nat
  BY ConnAssumption, LenProperties
<1>1. /\ rest \in Seq(FlowKey) /\ InOrder(rest) /\ Len(rest) <= Len(s)
      /\ Range(rest) = Range(s) \ {k}
      /\ \A x, y : x # k /\ y # k /\ Before(s, x, y) => Before(rest, x, y)
  BY RemoveFirstKeepsOrder
<1> HIDE DEF rest
<1>2. Len(rest) \in Nat /\ DOMAIN rest = 1..Len(rest)
  BY <1>1, LenProperties
<1>3. \E kept \in Seq(FlowKey) :
        /\ r = AtBucketHead(kept, k)
        /\ InOrder(kept) /\ Len(kept) < Capacity
        /\ Range(kept) \subseteq Range(s) \ {k}
        /\ \A x, y \in Range(kept) : Before(s, x, y) => Before(kept, x, y)
  <2>1. CASE Len(rest) < Capacity
    <3>1. r = AtBucketHead(rest, k)
      BY <2>1 DEF UpdatedTables, rest
    <3>2. \A x, y \in Range(rest) : Before(s, x, y) => Before(rest, x, y)
      BY <1>1
    <3> QED BY <3>1, <3>2, <2>1, <1>1
  <2>2. CASE ~(Len(rest) < Capacity)
    <3>1. PICK i \in 1..Len(rest) : r = AtBucketHead(RemoveAt(rest, i), k)
      BY <2>2, <1>2 DEF UpdatedTables, rest
    <3>2. /\ RemoveAt(rest, i) \in Seq(FlowKey) /\ InOrder(RemoveAt(rest, i))
          /\ Len(RemoveAt(rest, i)) = Len(rest) - 1
          /\ Range(RemoveAt(rest, i)) = Range(rest) \ {rest[i]}
          /\ \A x, y : x # rest[i] /\ y # rest[i] /\ Before(rest, x, y)
               => Before(RemoveAt(rest, i), x, y)
      BY <1>1, RemoveAtKeepsOrder
    <3>3. Len(RemoveAt(rest, i)) < Capacity
      BY <3>2, <1>0, <1>1, <1>2
    <3>4. \A x, y \in Range(RemoveAt(rest, i)) :
            Before(s, x, y) => Before(RemoveAt(rest, i), x, y)
      BY <3>2, <1>1
    <3>5. Range(RemoveAt(rest, i)) \subseteq Range(s) \ {k}
      BY <3>2, <1>1
    <3> QED BY <3>1, <3>2, <3>3, <3>4, <3>5
  <2> QED BY <2>1, <2>2
<1>4. PICK kept \in Seq(FlowKey) :
        /\ r = AtBucketHead(kept, k)
        /\ InOrder(kept) /\ Len(kept) < Capacity
        /\ Range(kept) \subseteq Range(s) \ {k}
        /\ \A x, y \in Range(kept) : Before(s, x, y) => Before(kept, x, y)
  BY <1>3
<1>5. k \notin Range(kept)
  BY <1>4
<1>6. /\ r \in Seq(FlowKey) /\ InOrder(r) /\ Len(r) = Len(kept) + 1
      /\ Range(r) = Range(kept) \cup {k}
      /\ \A x, y : Before(kept, x, y) => Before(r, x, y)
      /\ \A x \in Range(kept) : Bucket[k] <= Bucket[x] => Before(r, k, x)
  BY <1>4, <1>5, InsertKeepsOrder
<1>7. Len(r) <= Capacity
  <2>1. Len(kept) \in Nat
    BY LenProperties
  <2> QED BY <2>1, <1>0, <1>4, <1>6
<1>8. Range(r) \ {k} = Range(kept) /\ Range(r) \subseteq Range(s) \cup {k}
  BY <1>4, <1>5, <1>6
<1> QED BY <1>4, <1>6, <1>7, <1>8

\* Where bpf_map_get_next_key goes on: nothing lies between a key and the next one,
\* and nothing before the first one.
LEMMA NextKeyMeets ==
  ASSUME lru \in [Table -> Seq(FlowKey)], NEW t \in Table, InOrder(lru[t]), NEW k
  PROVE  /\ NextKey(t, k) \in FlowKey \cup {ENOENT}
         /\ NextKey(t, k) \in FlowKey =>
              \A x \in Keys(t) :
                (k \in Keys(t) => Before(lru[t], k, x))
                  => /\ Bucket[NextKey(t, k)] <= Bucket[x]
                     /\ x = NextKey(t, k) \/ Before(lru[t], NextKey(t, k), x)
         /\ NextKey(t, k) = ENOENT =>
              \A x \in Keys(t) : k \in Keys(t) /\ ~Before(lru[t], k, x)
<1> DEFINE s == lru[t]
           I == {i \in 1..Len(s) : s[i] = k}
           m == IF k \in Keys(t) THEN Min(I) + 1 ELSE 1
<1>0. /\ s \in Seq(FlowKey) /\ Len(s) \in Nat
      /\ \A i \in 1..Len(s) : s[i] \in FlowKey /\ Bucket[s[i]] \in Nat
      /\ ENOENT \notin FlowKey
  BY LenProperties, BucketType, ConnAssumption
<1>1. Keys(t) = Range(s) /\ \A x : x \in Keys(t) <=> \E i \in 1..Len(s) : s[i] = x
  BY <1>0, RangeIndex DEF Keys
<1>2. k \in Keys(t) => I # {} /\ Min(I) \in 1..Len(s) /\ s[Min(I)] = k
  <2> SUFFICES ASSUME k \in Keys(t)
               PROVE  I # {} /\ Min(I) \in 1..Len(s) /\ s[Min(I)] = k
    OBVIOUS
  <2>1. I # {} /\ I \subseteq 1..Len(s)
    BY <1>1
  <2>2. Min(I) \in I
    BY <2>1, <1>0, FirstPosition
  <2> QED BY <2>1, <2>2
<1>3. NextKey(t, k) = IF m > Len(s) THEN ENOENT ELSE s[m]
  <2>1. CASE k \in Keys(t)
    BY <2>1, <1>2 DEF NextKey, SelectInSeq
  <2>2. CASE k \notin Keys(t)
    BY <2>2 DEF NextKey
  <2> QED BY <2>1, <2>2
<1>4. m \in Nat /\ m >= 1
  BY <1>0, <1>2
<1>5. \A i \in 1..Len(s) : (k \in Keys(t) => Before(s, k, s[i])) => m <= i
  <2> SUFFICES ASSUME NEW i \in 1..Len(s), k \in Keys(t) => Before(s, k, s[i])
               PROVE  m <= i
    OBVIOUS
  <2>1. CASE k \in Keys(t)
    <3>1. PICK a \in 1..Len(s), b \in 1..Len(s) : a < b /\ s[a] = k /\ s[b] = s[i]
      BY <2>1 DEF Before
    <3>2. a = Min(I) /\ b = i
      <4>1. Min(I) \in 1..Len(s) /\ s[Min(I)] = s[a]
        BY <2>1, <3>1, <1>2
      <4>2. \A c, d \in 1..Len(s) : s[c] = s[d] => ~(c < d) /\ ~(d < c)
        BY DEF InOrder
      <4> QED BY <4>1, <4>2, <3>1, <1>0
    <3> QED BY <3>1, <3>2, <2>1, <1>0
  <2>2. CASE k \notin Keys(t)
    BY <2>2
  <2> QED BY <2>1, <2>2
<1>6. k \in Keys(t) => m = Min(I) + 1
  OBVIOUS
<1> HIDE DEF m, s, I
<1>7. m <= Len(s) => NextKey(t, k) = s[m] /\ s[m] \in FlowKey /\ m \in 1..Len(s)
  BY <1>0, <1>3, <1>4
<1>8. ~(m <= Len(s)) => NextKey(t, k) = ENOENT
  BY <1>0, <1>3, <1>4
<1>9. ASSUME m <= Len(s), NEW x \in Keys(t), k \in Keys(t) => Before(s, k, x)
      PROVE  Bucket[s[m]] <= Bucket[x] /\ (x = s[m] \/ Before(s, s[m], x))
  <2>1. PICK i \in 1..Len(s) : s[i] = x
    BY <1>1
  <2>2. m <= i /\ m \in 1..Len(s)
    BY <2>1, <1>5, <1>7, <1>9
  <2>3. CASE m = i
    BY <2>1, <2>3, <1>0
  <2>4. CASE m < i
    <3>1. Bucket[s[m]] <= Bucket[s[i]]
      BY <2>2, <2>4 DEF InOrder, s
    <3>2. Before(s, s[m], x)
      BY <2>1, <2>2, <2>4 DEF Before
    <3> QED BY <3>1, <3>2, <2>1
  <2> QED BY <2>2, <2>3, <2>4, <1>0, <1>4
<1>10. ASSUME ~(m <= Len(s)), NEW x \in Keys(t)
       PROVE  k \in Keys(t) /\ ~Before(s, k, x)
  <2>1. PICK i \in 1..Len(s) : s[i] = x
    BY <1>1
  <2>2. ~(m <= i)
    BY <2>1, <1>0, <1>4, <1>10
  <2> QED BY <2>1, <2>2, <1>5
<1> QED BY <1>0, <1>7, <1>8, <1>9, <1>10 DEF s

\* The tables a call goes through
LEMMA MapsAreTables ==
  /\ Maps \in Seq(Table) /\ Maps # <<>>
  /\ Maps[Len(Maps)] = Fallback
  /\ Forwarding # {} => SetToSeq(Forwarding) \in Seq(Table) /\ SetToSeq(Forwarding) # <<>>
<1> DEFINE f == SetToSeq(Forwarding)
           n == Cardinality(Forwarding)
<1>1. n \in Nat /\ ExistsBijection(1..n, Forwarding)
  BY ConnAssumption, FS_CardinalityType
<1>2. f \in [1..n -> Forwarding]
  <2>1. \E g \in [1..n -> Forwarding] : IsInjective(g)
    BY <1>1 DEF ExistsBijection, Bijection, Injection
  <2> QED BY <2>1 DEF SetToSeq
<1> HIDE DEF f, n
<1>3. f \in Seq(Table) /\ Len(f) = n
  <2>1. f \in [1..n -> Table]
    BY <1>2 DEF Table
  <2> QED BY <2>1, <1>1
<1>4. <<Fallback>> \in Seq(Table) /\ Len(<<Fallback>>) = 1 /\ <<Fallback>>[1] = Fallback
  BY DEF Table
<1>5. /\ f \o <<Fallback>> \in Seq(Table) /\ Len(f \o <<Fallback>>) = n + 1
      /\ \A i \in 1..(n + 1) :
           (f \o <<Fallback>>)[i] = IF i <= n THEN f[i] ELSE <<Fallback>>[i - n]
  BY <1>3, <1>4, ConcatProperties
<1>6. (f \o <<Fallback>>)[n + 1] = Fallback
  <2>1. n + 1 \in 1..(n + 1) /\ ~(n + 1 <= n) /\ (n + 1) - n = 1
    BY <1>1
  <2> QED BY <2>1, <1>4, <1>5
<1>7. f \o <<Fallback>> # <<>>
  BY <1>1, <1>5, EmptySeq
<1>8. Forwarding # {} => f # <<>>
  <2> SUFFICES ASSUME f = <<>>, NEW c \in Forwarding
               PROVE  FALSE
    OBVIOUS
  <2>1. n = 0
    BY <1>3, EmptySeq
  <2>2. Forwarding = {}
    BY <2>1, ConnAssumption, FS_EmptySet DEF n
  <2> QED BY <2>2
<1>9. Maps = f \o <<Fallback>>
  BY DEF Maps, f
<1> QED BY <1>3, <1>5, <1>6, <1>7, <1>8, <1>9 DEF f

LEMMA HeadTail ==
  ASSUME NEW m \in Seq(Table), m # <<>>
  PROVE  Head(m) \in Table /\ Tail(m) \in Seq(Table) /\ Len(Tail(m)) = Len(m) - 1
  BY HeadTailProperties

-----------------------------------------------------------------------------
(* Calls *)

LEMMA FlowIsKey ==
  ASSUME flags \in [VipPort -> SUBSET Flag], NEW src \in Src, NEW dport \in Port
  PROVE  flow(src, dport) \in FlowKey /\ hashedFlow(src, dport) \in FlowKey
<1>1. flow(src, dport) \in FlowKey
  BY DEF flow, FlowKey
<1>2. "F_HASH_DPORT_ONLY" \in flags[VipOf(dport)] => flow(src, dport).dport = dport
  BY DEF flow
<1> QED BY <1>1, <1>2 DEF hashedFlow, FlowKey

\* But for the excepted VIPs, the code looks for what it is asked for.
LEMMA AskedIsMatched ==
  ASSUME NEW srcs, NEW v, ~KeepsPort(v), NEW k \in KeysOf(srcs, v)
  PROVE  /\ k.dport = v
         /\ ~DropsClient(v) => \E src \in srcs : k = flowKeyFromParams(v, src)
<1>1. PICK src \in srcs, p \in Port : VipOf(p) = v /\ k \in {flow(src, p), hashedFlow(src, p)}
  BY DEF KeysOf
<1>2. v = p \/ v = Wildcard
  BY <1>1 DEF VipOf
<1>3. flow(src, p).dport = v
  BY <1>1, <1>2 DEF flow, KeepsPort
<1>4. "F_HASH_DPORT_ONLY" \in flags[v] => hashedFlow(src, p).dport = v
  BY <1>1, <1>3 DEF hashedFlow
<1>5. "F_HASH_DPORT_ONLY" \notin flags[v] => hashedFlow(src, p) = flow(src, p)
  BY <1>1 DEF hashedFlow
<1>6. ~DropsClient(v) => flow(src, p) = flowKeyFromParams(v, src)
  <2>1. flow(src, p).dport = v
    BY <1>3
  <2> QED BY <2>1, <1>1 DEF flow, flowKeyFromParams, DropsClient
<1>7. ~DropsClient(v) => "F_HASH_DPORT_ONLY" \notin flags[v]
  BY DEF DropsClient
<1> QED BY <1>1, <1>3, <1>4, <1>5, <1>6, <1>7

\* What a walk is asked for in a table and finds under its key is deleted or reported.
LEMMA WalkMatches ==
  ASSUME call.op \in Walks, ~Excepted(call), NEW k \in Wanted(call)
  PROVE  vipMatch(k)
<1>1. CASE call.op = "analyzeLru"
  BY <1>1 DEF vipMatch
<1>2. CASE call.op # "analyzeLru"
  <2>1. k \in KeysOf(Src, call.vip) /\ ~KeepsPort(call.vip)
    BY <1>2 DEF Wanted, Excepted, Walks
  <2> QED BY <2>1, AskedIsMatched DEF vipMatch
<1> QED BY <1>1, <1>2

LEMMA LookupMatches ==
  ASSUME call.op \in Lookups, ~Excepted(call), NEW k \in Wanted(call)
  PROVE  k = flowKeyFromParams(call.vip, call.src)
<1>1. k \in KeysOf({call.src}, call.vip) /\ ~KeepsPort(call.vip) /\ ~DropsClient(call.vip)
  BY DEF Wanted, Excepted, Lookups
<1> QED BY <1>1, AskedIsMatched

LEMMA SameWanted ==
  ASSUME flags' = flags, call'.op = call.op, call'.vip = call.vip,
         call.op \in Walks \/ call'.src = call.src
  PROVE  Wanted(call)' = Wanted(call)
<1>1. CASE call.op \in Walks
  BY <1>1 DEF Wanted, KeysOf, hashedFlow, flow, VipOf, Walks
<1>2. CASE call'.src = call.src
  BY <1>2 DEF Wanted, KeysOf, hashedFlow, flow, VipOf
<1> QED BY <1>1, <1>2

LEMMA SameExcepted ==
  ASSUME flags' = flags, call'.op = call.op, call'.vip = call.vip
  PROVE  Excepted(call)' = Excepted(call)
  BY DEF Excepted, KeepsPort, DropsClient

LEMMA CallHasTable ==
  ASSUME CallInv, call # Idle
  PROVE  /\ call \in WalkType \/ call \in LookupType
         /\ call.op \in Walks <=> call \in WalkType
         /\ call.op \in Lookups <=> call \in LookupType
         /\ call.maps \in Seq(Table) /\ Head(call.maps) \in Table
         /\ Tail(call.maps) \in Seq(Table) /\ Len(Tail(call.maps)) = Len(call.maps) - 1
<1>1. call \in WalkType \/ call \in LookupType
  BY DEF CallInv
<1>2. call.maps \in Seq(Table) /\ call.maps # <<>>
  BY <1>1 DEF CallInv, WalkType, LookupType
<1>3. call \in WalkType => call.op \in Walks /\ call.op \notin Lookups
  BY DEF WalkType, Walks, Lookups
<1>4. call \in LookupType => call.op \in Lookups /\ call.op \notin Walks
  BY DEF LookupType, Walks, Lookups
<1> QED BY <1>1, <1>2, <1>3, <1>4, HeadTail

\* Idle is no call.
LEMMA IdleIsNoCall == Idle.op \notin Walks \cup Lookups
  BY DEF Idle, Walks, Lookups

\* A packet moves key k forward and nothing that is pending backward.
LEMMA NotAfterStays ==
  ASSUME TablesInv, NEW t \in Table, NEW k \in FlowKey, NEW r \in UpdatedTables(lru[t], k),
         lru' = [lru EXCEPT ![t] = r],
         NEW q, NEW x \in Range(r) \ {k}, NotAfter(t, q, x)
  PROVE  NotAfter(t, q, x)'
<1>1. lru[t] \in Seq(FlowKey) /\ InOrder(lru[t]) /\ Len(lru[t]) <= Capacity /\ lru'[t] = r
  BY DEF TablesInv
<1>2. /\ Range(r) \subseteq Range(lru[t]) \cup {k}
      /\ \A y, z \in Range(r) \ {k} : Before(lru[t], y, z) => Before(r, y, z)
      /\ \A z \in Range(r) \ {k} : Bucket[k] <= Bucket[z] => Before(r, k, z)
  BY <1>1, UpdateKeepsOrder
<1>3. Bucket[q] <= Bucket[x] /\ (q \in Range(lru[t]) => x = q \/ Before(lru[t], q, x))
  BY DEF NotAfter, Keys
<1>4. q \in Range(r) => x = q \/ Before(r, q, x)
  <2>1. CASE q = k
    BY <2>1, <1>2, <1>3
  <2>2. CASE q # k
    BY <2>2, <1>2, <1>3
  <2> QED BY <2>1, <2>2
<1> QED BY <1>1, <1>3, <1>4 DEF NotAfter, Keys
-----------------------------------------------------------------------------
(* The steps *)

LEMMA EnterStep ==
  ASSUME IndInv, NEW t \in Table, NEW k \in FlowKey, enter(t, k)
  PROVE  IndInv'
<1>1. PICK r \in UpdatedTables(lru[t], k) : lru' = [lru EXCEPT ![t] = r]
  BY DEF enter
<1>2. /\ pending' = IF call # Idle /\ Head(call.maps) = t
                    THEN (pending \ {k}) \cap Range(lru'[t]) ELSE pending
      /\ flags' = flags /\ call' = call /\ missed' = missed
  BY DEF enter
<1>3. lru \in [Table -> Seq(FlowKey)] /\ \A u \in Table : InOrder(lru[u]) /\ Len(lru[u]) <= Capacity
  BY DEF IndInv, TablesInv
<1>4. lru'[t] = r /\ \A u \in Table \ {t} : lru'[u] = lru[u]
  BY <1>1, <1>3
<1>5. r \in Seq(FlowKey) /\ InOrder(r) /\ Len(r) <= Capacity
  BY <1>3, UpdateKeepsOrder
<1>6. TablesInv'
  <2>1. lru' \in [Table -> Seq(FlowKey)]
    BY <1>1, <1>3, <1>5
  <2>2. \A u \in Table : InOrder(lru'[u]) /\ Len(lru'[u]) <= Capacity
    BY <1>3, <1>4, <1>5
  <2> QED BY <2>1, <2>2 DEF TablesInv, InOrder
<1>7. CallInv'
  BY <1>2 DEF IndInv, CallInv, WalkType, LookupType
<1>8. call # Idle => Head(call.maps) \in Table
  BY CallHasTable DEF IndInv
<1>9. Wanted(call)' = Wanted(call)
  BY <1>2, SameWanted
<1>10. PendingInv'
  <2>1. CASE call = Idle
    BY <2>1, <1>2 DEF IndInv, PendingInv
  <2>2. CASE call # Idle /\ Head(call.maps) = t
    BY <2>2, <1>2, <1>9 DEF IndInv, PendingInv, Keys
  <2>3. CASE call # Idle /\ Head(call.maps) # t
    BY <2>3, <1>2, <1>4, <1>8, <1>9 DEF IndInv, PendingInv, Keys
  <2> QED BY <2>1, <2>2, <2>3
<1>11. NothingMissed'
  BY <1>2 DEF IndInv, NothingMissed, KeepsPort, DropsClient
<1>12. AheadInv'
  <2> SUFFICES ASSUME call.op \in Walks
               PROVE  AheadInv'
    BY <1>2 DEF AheadInv
  <2>1. call # Idle
    BY IdleIsNoCall
  <2> DEFINE h == Head(call.maps)
  <2>2. h \in Table
    BY <2>1, <1>8
  <2>3. pending' \subseteq pending /\ (h = t => pending' \subseteq Range(r) \ {k})
    BY <2>1, <1>2, <1>4
  <2>4. ASSUME NEW q, NEW x \in pending', NotAfter(h, q, x)
        PROVE  NotAfter(h, q, x)'
    <3>1. CASE h = t
      <4>1. x \in Range(r) \ {k}
        BY <3>1, <2>3
      <4>2. NotAfter(t, q, x)
        BY <3>1, <2>4
      <4>3. NotAfter(t, q, x)'
        BY <4>1, <4>2, <1>1, NotAfterStays DEF IndInv
      <4> QED BY <4>3, <3>1, <1>2
    <3>2. CASE h # t
      BY <3>2, <2>2, <2>4, <1>2, <1>4 DEF NotAfter, Keys
    <3> QED BY <3>1, <3>2
  <2>5. Excepted(call)' = Excepted(call)
    BY <1>2, SameExcepted
  <2>6. AheadInv
    BY DEF IndInv
  <2>7. /\ call'.i = 0 <=> call'.key = NoKey
        /\ call'.error => pending' = {}
        /\ call'.pc = "visit" => call'.next # NoKey
    BY <2>3, <2>6, <1>2 DEF AheadInv
  <2>8. ASSUME ~Excepted(call), call.pc = "next", call.key # NoKey
        PROVE  \A x \in pending' : NotAfter(h, call.key, x)'
    BY <2>3, <2>4, <2>6, <2>8, <1>2 DEF AheadInv
  <2>9. ASSUME ~Excepted(call), call.pc = "visit"
        PROVE  /\ call.next = ENOENT => pending' \subseteq {call.key}
               /\ call.next \in FlowKey =>
                    \A x \in pending' : x = call.key \/ NotAfter(h, call.next, x)'
    BY <2>3, <2>4, <2>6, <2>9, <1>2 DEF AheadInv
  <2>10. h' = h
    BY <1>2
  <2> HIDE DEF h
  <2> QED BY <2>5, <2>7, <2>8, <2>9, <2>10, <1>2 DEF AheadInv, h, NotAfter, Keys
<1> QED BY <1>6, <1>7, <1>10, <1>11, <1>12 DEF IndInv

LEMMA StartStep ==
  ASSUME IndInv,
         NEW c \in WalkType \cup LookupType, c.maps # <<>>,
         c.op \in Walks => c.i = 0 /\ c.key = NoKey /\ c.pc = "next" /\ c.error = FALSE,
         start(c)
  PROVE  IndInv'
<1>1. call = Idle /\ call' = c /\ missed' = {} /\ flags' = flags /\ lru' = lru
  BY DEF start
<1>2. pending' = Keys(Head(c.maps)) \cap Wanted(c)
  BY DEF start
<1>3. TablesInv'
  BY <1>1 DEF IndInv, TablesInv, InOrder
<1>4. CallInv'
  BY <1>1 DEF IndInv, CallInv, WalkType, LookupType
<1>5. PendingInv'
  <2>1. c # Idle
    BY IdleIsNoCall DEF WalkType, LookupType
  <2>2. Wanted(c)' = Wanted(c)
    BY <1>1 DEF Wanted, KeysOf, hashedFlow, flow, VipOf
  <2>3. Wanted(call)' = Wanted(c)
    BY <1>1, <2>2 DEF Wanted, KeysOf, hashedFlow, flow, VipOf
  <2>4. Keys(Head(call.maps))' = Keys(Head(c.maps))
    BY <1>1 DEF Keys
  <2> QED BY <2>1, <2>3, <2>4, <1>1, <1>2 DEF PendingInv
<1>6. AheadInv'
  <2>1. c.op \in Walks => c.pc # "visit"
    OBVIOUS
  <2> QED BY <2>1, <1>1 DEF AheadInv
<1>7. NothingMissed'
  BY <1>1 DEF NothingMissed
<1> QED BY <1>3, <1>4, <1>5, <1>6, <1>7 DEF IndInv

LEMMA WalkStarts ==
  ASSUME IndInv, NEW op \in Walks, NEW v \in VipPort \cup {Wildcard},
         NEW maps \in Seq(Table), maps # <<>>, NEW limit \in Limits \cup {0},
         walk(op, v, maps, limit)
  PROVE  IndInv'
<1> DEFINE c == [op |-> op, vip |-> v, maps |-> maps, key |-> NoKey, next |-> NoKey, i |-> 0,
                 pc |-> "next", error |-> FALSE, listed |-> 0, limit |-> limit]
<1>1. start(c)
  BY DEF walk
<1>2. c \in WalkType
  BY ConnAssumption DEF WalkType
<1>3. c.maps # <<>> /\ c.i = 0 /\ c.key = NoKey /\ c.pc = "next" /\ c.error = FALSE
  OBVIOUS
<1> HIDE DEF c
<1> QED BY <1>1, <1>2, <1>3, StartStep

LEMMA LookupStarts ==
  ASSUME IndInv, NEW op \in Lookups, NEW v \in VipPort, NEW src \in Src, lookup(op, v, src)
  PROVE  IndInv'
<1> DEFINE c == [op |-> op, vip |-> v, src |-> src, maps |-> Maps]
<1>1. start(c)
  BY DEF lookup
<1>2. c \in LookupType /\ c.maps # <<>>
  BY MapsAreTables DEF LookupType
<1>3. c.op \notin Walks
  BY DEF Walks, Lookups
<1> HIDE DEF c
<1> QED BY <1>1, <1>2, <1>3, StartStep

LEMMA GetNextKeyStep ==
  ASSUME IndInv, getNextKey
  PROVE  IndInv'
<1> DEFINE t == Head(call.maps)
<1>1. /\ call.op \in Walks /\ call.pc = "next"
      /\ flags' = flags /\ lru' = lru /\ pending' = pending /\ missed' = missed
  BY DEF getNextKey
<1>2. PICK n \in {NextKey(t, call.key), EOther} :
        call' = [call EXCEPT !.next = n, !.pc = "visit"]
  BY DEF getNextKey
<1>3. call # Idle
  BY <1>1, IdleIsNoCall
<1>4. call \in WalkType /\ t \in Table /\ call.maps # <<>>
  BY <1>1, <1>3, CallHasTable DEF IndInv, CallInv
<1>5. lru \in [Table -> Seq(FlowKey)] /\ InOrder(lru[t])
  BY <1>4 DEF IndInv, TablesInv
<1> DEFINE k == call.key
<1>6. /\ NextKey(t, k) \in FlowKey \cup {ENOENT}
      /\ NextKey(t, k) \in FlowKey =>
           \A x \in Keys(t) :
             (k \in Keys(t) => Before(lru[t], k, x))
               => /\ Bucket[NextKey(t, k)] <= Bucket[x]
                  /\ x = NextKey(t, k) \/ Before(lru[t], NextKey(t, k), x)
      /\ NextKey(t, k) = ENOENT =>
           \A x \in Keys(t) : k \in Keys(t) /\ ~Before(lru[t], k, x)
  BY <1>4, <1>5, NextKeyMeets
<1>7. /\ call' \in WalkType /\ call'.next = n /\ call'.pc = "visit" /\ call'.key = call.key
      /\ call'.maps = call.maps /\ call'.op = call.op /\ call'.vip = call.vip
      /\ call'.i = call.i /\ call'.error = call.error
  BY <1>2, <1>4, <1>6 DEF WalkType
<1>8. call' # Idle
  BY <1>1, <1>7, IdleIsNoCall
<1>9. TablesInv'
  BY <1>1 DEF IndInv, TablesInv, InOrder
<1>10. CallInv'
  BY <1>1, <1>4, <1>7 DEF IndInv, CallInv, WalkType, LookupType
<1>11. PendingInv'
  <2>1. Wanted(call)' = Wanted(call)
    BY <1>1, <1>7, SameWanted
  <2>2. Keys(Head(call.maps))' = Keys(Head(call.maps))
    BY <1>1, <1>7 DEF Keys
  <2> QED BY <2>1, <2>2, <1>1, <1>3, <1>8 DEF IndInv, PendingInv
<1>12. NothingMissed'
  BY <1>1 DEF IndInv, NothingMissed, KeepsPort, DropsClient
<1>13. n # NoKey
  BY <1>6, ConnAssumption
<1>14. pending \subseteq Keys(t)
  BY <1>3 DEF IndInv, PendingInv
<1>15. ASSUME ~Excepted(call), NEW x \in pending, k # NoKey
       PROVE  k \in Keys(t) => x = k \/ Before(lru[t], k, x)
  BY <1>15, <1>1 DEF IndInv, AheadInv, NotAfter
<1>16. k = NoKey => k \notin Keys(t)
  <2>1. Keys(t) \subseteq FlowKey
    BY <1>4, <1>5, RangeIndex DEF Keys
  <2> QED BY <2>1, ConnAssumption
<1>17. ASSUME ~Excepted(call)
       PROVE  /\ n = ENOENT => pending \subseteq {k}
              /\ n \in FlowKey => \A x \in pending : x = k \/ NotAfter(t, n, x)
  <2>1. ASSUME n = ENOENT, NEW x \in pending
        PROVE  x = k
    <3>1. n = NextKey(t, k)
      BY <2>1, ConnAssumption
    <3>2. k \in Keys(t) /\ ~Before(lru[t], k, x)
      BY <2>1, <3>1, <1>6, <1>14
    <3> QED BY <3>2, <1>15, <1>16, <1>17
  <2>2. ASSUME n \in FlowKey, NEW x \in pending, x # k
        PROVE  NotAfter(t, n, x)
    <3>1. n = NextKey(t, k)
      BY <2>2, ConnAssumption
    <3>2. k \in Keys(t) => Before(lru[t], k, x)
      BY <2>2, <1>15, <1>16, <1>17
    <3> QED BY <2>2, <3>1, <3>2, <1>6, <1>14 DEF NotAfter
  <2> QED BY <2>1, <2>2
<1>18. ASSUME NEW x PROVE NotAfter(t, n, x)' <=> NotAfter(t, n, x)
  BY <1>1, <1>2, <1>4, <1>7 DEF NotAfter, Keys
<1>19. AheadInv'
  <2>1. Excepted(call)' = Excepted(call)
    BY <1>1, <1>7, SameExcepted
  <2>2. (call.i = 0 <=> call.key = NoKey) /\ (call.error => pending = {})
    BY <1>1 DEF IndInv, AheadInv
  <2>3. t' = t
    BY <1>7
  <2> HIDE DEF t, k
  <2> QED BY <2>1, <2>2, <2>3, <1>1, <1>7, <1>13, <1>17, <1>18 DEF AheadInv, t, k, NotAfter, Keys
<1> QED BY <1>9, <1>10, <1>11, <1>12, <1>19 DEF IndInv

\* A call that leaves table t takes up the next one, or ends.
LEMMA LeaveTableStep ==
  ASSUME IndInv, TablesInv', flags' = flags, call # Idle,
         NEW left, NEW rest \in Seq(Table), NEW next,
         leaveTable(left, rest, next),
         left # {} => Excepted(call),
         rest # <<>> =>
           /\ next \in WalkType \cup LookupType /\ next.maps = rest
           /\ next.op = call.op /\ next.vip = call.vip
           /\ call.op \in Walks \/ next.src = call.src
           /\ call.op \in Walks =>
                next.i = 0 /\ next.key = NoKey /\ next.pc = "next" /\ next.error = FALSE
  PROVE  IndInv'
<1>1. /\ missed' = IF left = {} THEN missed ELSE {[op |-> call.op, vip |-> call.vip]}
      /\ call' = IF rest = <<>> THEN Idle ELSE next
      /\ pending' = IF rest = <<>> THEN {} ELSE Range(lru'[Head(rest)]) \cap Wanted(call)
  BY DEF leaveTable
<1>2. call' \in {Idle} \cup WalkType \cup LookupType /\ (call' # Idle => call'.maps # <<>>)
  BY <1>1
<1>3. CallInv'
  BY <1>2 DEF IndInv, CallInv, WalkType, LookupType
<1>4. PendingInv'
  <2>1. CASE rest = <<>>
    BY <2>1, <1>1 DEF PendingInv
  <2>2. CASE rest # <<>>
    <3>1. call' = next /\ Wanted(call)' = Wanted(call)
      BY <2>2, <1>1, SameWanted
    <3>2. pending' = Range(lru'[Head(call'.maps)]) \cap Wanted(call)'
      BY <2>2, <3>1, <1>1
    <3>3. call' # Idle
      BY <2>2, <1>1, IdleIsNoCall DEF WalkType, LookupType
    <3> QED BY <3>2, <3>3 DEF PendingInv, Keys
  <2> QED BY <2>1, <2>2
<1>5. AheadInv'
  <2>1. CASE rest = <<>>
    BY <2>1, <1>1, IdleIsNoCall DEF AheadInv
  <2>2. CASE rest # <<>>
    <3>1. call' = next /\ next.op = call.op
      BY <2>2, <1>1
    <3>2. call.op \in Walks => next.i = 0 /\ next.key = NoKey /\ next.pc = "next" /\ ~next.error
      BY <2>2
    <3>3. call.op \in Walks => next.pc # "visit"
      BY <3>2
    <3> QED BY <3>1, <3>2, <3>3 DEF AheadInv
  <2> QED BY <2>1, <2>2
<1>6. NothingMissed'
  <2>1. CASE left = {}
    BY <2>1, <1>1 DEF IndInv, NothingMissed, KeepsPort, DropsClient
  <2>2. CASE left # {}
    <3>1. missed' = {[op |-> call.op, vip |-> call.vip]} /\ Excepted(call)
      BY <2>2, <1>1
    <3> QED BY <3>1 DEF NothingMissed, Excepted, KeepsPort, DropsClient
  <2> QED BY <2>1, <2>2
<1> QED BY <1>3, <1>4, <1>5, <1>6 DEF IndInv

\* Deleting key k of table t changes no other table and no other order.
LEMMA DeleteKeepsTables ==
  ASSUME TablesInv, NEW t \in Table, NEW k,
         lru' = [lru EXCEPT ![t] = RemoveFirst(@, k)]
  PROVE  /\ TablesInv'
         /\ Range(lru'[t]) = Range(lru[t]) \ {k}
         /\ \A x, y : x # k /\ y # k /\ Before(lru[t], x, y) => Before(lru'[t], x, y)
<1> DEFINE r == RemoveFirst(lru[t], k)
<1>1. /\ lru \in [Table -> Seq(FlowKey)]
      /\ \A u \in Table : InOrder(lru[u]) /\ Len(lru[u]) <= Capacity /\ Len(lru[u]) \in Nat
  BY LenProperties DEF TablesInv
<1>2. /\ r \in Seq(FlowKey) /\ InOrder(r) /\ Len(r) <= Len(lru[t])
      /\ Range(r) = Range(lru[t]) \ {k}
      /\ \A x, y : x # k /\ y # k /\ Before(lru[t], x, y) => Before(r, x, y)
  BY <1>1, RemoveFirstKeepsOrder
<1>3. Len(r) \in Nat
  BY <1>2, LenProperties
<1>4. lru' = [lru EXCEPT ![t] = r]
  OBVIOUS
<1> HIDE DEF r
<1>5. lru'[t] = r /\ \A u \in Table \ {t} : lru'[u] = lru[u]
  BY <1>1, <1>4
<1>6. lru' \in [Table -> Seq(FlowKey)]
  BY <1>1, <1>2, <1>4
<1>7. Len(r) <= Capacity
  <2>1. Capacity \in Nat
    BY ConnAssumption
  <2> QED BY <2>1, <1>1, <1>2, <1>3
<1>8. \A u \in Table : InOrder(lru'[u]) /\ Len(lru'[u]) <= Capacity
  BY <1>1, <1>2, <1>5, <1>7
<1> QED BY <1>2, <1>5, <1>6, <1>8 DEF TablesInv, InOrder

LEMMA VisitStep ==
  ASSUME IndInv, visit
  PROVE  IndInv'
<1>0. PICK works \in BOOLEAN : visitWith(works)
  BY DEF visit
<1> DEFINE t == Head(call.maps)
           match == call.i # 0 /\ vipMatch(call.key)
           found == match /\ works /\ call.key \in Keys(t)
           listed == call.listed + (IF found /\ call.op = "listLru" THEN 1 ELSE 0)
           full == call.op = "listLru" /\ call.next \in FlowKey /\ listed >= call.limit
           last == call.next \in FlowKey /\ call.i = kLruMaxLookups - 1
           error == call.error \/ (match /\ ~found) \/ call.next = EOther \/ full \/ last
           left == stillPending(t, IF found THEN call.key ELSE NoKey, error)
           rest == IF full /\ t # Fallback THEN <<Fallback>> ELSE Tail(call.maps)
           fresh == [call EXCEPT !.maps = rest, !.key = NoKey, !.next = NoKey, !.i = 0,
                                 !.pc = "next", !.error = FALSE, !.listed = listed]
           onward == [call EXCEPT !.key = call.next, !.next = NoKey, !.i = @ + 1,
                                  !.pc = "next", !.error = error, !.listed = listed]
           ends == call.next \in {ENOENT, EOther} \/ full \/ last
<1>1. /\ call.op \in Walks /\ call.pc = "visit"
      /\ lru' = IF found /\ call.op = "purgeVipLru"
                THEN [lru EXCEPT ![t] = RemoveFirst(@, call.key)] ELSE lru
      /\ flags' = flags
  BY <1>0 DEF visitWith
<1>2. ends => leaveTable(left, rest, fresh)
  BY <1>0 DEF visitWith
<1>3. ~ends => call' = onward /\ pending' = left /\ missed' = missed
  BY <1>0 DEF visitWith
<1>4. call # Idle
  BY <1>1, IdleIsNoCall
<1>5. /\ call \in WalkType /\ t \in Table
      /\ Tail(call.maps) \in Seq(Table) /\ call.maps \in Seq(Table) /\ call.maps # <<>>
  BY <1>1, <1>4, CallHasTable DEF IndInv, CallInv
<1>6. listed \in Nat
  BY <1>5 DEF WalkType
<1>7. error \in BOOLEAN
  BY <1>5 DEF WalkType
<1>8. rest \in Seq(Table)
  <2>1. <<Fallback>> \in Seq(Table)
    BY DEF Table
  <2> QED BY <2>1, <1>5
<1>9. left \subseteq pending /\ left \subseteq Range(lru'[t]) /\ (error => left = {})
  <2>0. pending \subseteq Range(lru[t])
    BY <1>4 DEF IndInv, PendingInv, Keys
  <2>1. left \subseteq pending /\ left \subseteq Range(lru'[t])
    BY DEF stillPending
  <2>2. error => left = {}
    BY DEF stillPending
  <2> QED BY <2>1, <2>2
<1>10. /\ TablesInv'
       /\ Range(lru'[t]) \subseteq Range(lru[t])
       /\ found /\ call.op = "purgeVipLru" => call.key \notin Range(lru'[t])
       /\ \A x, y \in Range(lru'[t]) : Before(lru[t], x, y) => Before(lru'[t], x, y)
  <2>1. CASE found /\ call.op = "purgeVipLru"
    <3>1. lru' = [lru EXCEPT ![t] = RemoveFirst(@, call.key)]
      BY <2>1, <1>1
    <3>2. TablesInv
      BY DEF IndInv
    <3>3. /\ TablesInv'
          /\ Range(lru'[t]) = Range(lru[t]) \ {call.key}
          /\ \A x, y : x # call.key /\ y # call.key /\ Before(lru[t], x, y)
               => Before(lru'[t], x, y)
      BY <3>1, <3>2, <1>5, DeleteKeepsTables
    <3> QED BY <3>3
  <2>2. CASE ~(found /\ call.op = "purgeVipLru")
    <3>1. lru' = lru
      BY <2>2, <1>1
    <3>2. TablesInv'
      BY <3>1 DEF IndInv, TablesInv, InOrder
    <3> QED BY <3>1, <3>2, <2>2
  <2> QED BY <2>1, <2>2
<1>11. found => call.key \notin left
  <2> SUFFICES ASSUME found, call.key \in left
               PROVE  FALSE
    OBVIOUS
  <2>1. ~error
    BY <1>9
  <2>2. CASE call.op = "purgeVipLru"
    BY <2>2, <1>9, <1>10
  <2>3. CASE call.op # "purgeVipLru"
    <3>1. call.op \notin {"purgeVipLru", "deleteLru"}
      BY <2>3, <1>1 DEF Walks
    <3>2. left \subseteq pending \ {call.key}
      BY <2>1, <3>1 DEF stillPending
    <3> QED BY <3>2
  <2> QED BY <2>2, <2>3
<1>12. pending \subseteq Keys(t) \cap Wanted(call) /\ Keys(t) \subseteq FlowKey
  <2>1. pending \subseteq Keys(t) \cap Wanted(call)
    BY <1>4 DEF IndInv, PendingInv
  <2>2. lru[t] \in Seq(FlowKey)
    BY <1>5 DEF IndInv, TablesInv
  <2> QED BY <2>1, <2>2, RangeIndex DEF Keys
<1>13. ~Excepted(call) => call.key \notin left
  <2> SUFFICES ASSUME ~Excepted(call), call.key \in left
               PROVE  FALSE
    OBVIOUS
  <2>1. call.key \in pending /\ call.key \in Keys(t) /\ call.key \in Wanted(call) /\ call.key # NoKey
    BY <1>9, <1>12, ConnAssumption
  <2>2. call.i # 0
    BY <2>1, <1>1 DEF IndInv, AheadInv
  <2>3. vipMatch(call.key)
    BY <2>1, <1>1, WalkMatches
  <2>4. match
    BY <2>2, <2>3
  <2>5. found
    BY <2>4, <1>9
  <2> QED BY <2>5, <1>11
<1>14. /\ call.next # NoKey
       /\ ~Excepted(call) =>
            /\ call.next = ENOENT => pending \subseteq {call.key}
            /\ call.next \in FlowKey =>
                 \A x \in pending : x = call.key \/ NotAfter(t, call.next, x)
  BY <1>1 DEF IndInv, AheadInv
<1> HIDE DEF left, error, full, last, rest, found, match, listed
<1>15. CASE ends
  <2>1. left # {} => Excepted(call)
    <3> SUFFICES ASSUME ~Excepted(call)
                 PROVE  left = {}
      OBVIOUS
    <3>1. CASE error
      BY <3>1, <1>9
    <3>2. CASE ~error
      <4>1. call.next = ENOENT
        BY <3>2, <1>15 DEF error
      <4>2. left \subseteq {call.key}
        BY <4>1, <1>9, <1>14
      <4> QED BY <4>2, <1>13
    <3> QED BY <3>1, <3>2
  <2>2. fresh \in WalkType
    <3>1. 0 \in 0..(kLruMaxLookups - 1)
      BY ConnAssumption
    <3> QED BY <3>1, <1>5, <1>6, <1>8 DEF WalkType
  <2>3. /\ fresh.maps = rest /\ fresh.op = call.op /\ fresh.vip = call.vip
        /\ fresh.i = 0 /\ fresh.key = NoKey /\ fresh.pc = "next" /\ fresh.error = FALSE
    BY <1>5 DEF WalkType
  <2> HIDE DEF fresh
  <2>4. leaveTable(left, rest, fresh)
    BY <1>2, <1>15
  <2>5. /\ fresh \in WalkType \cup LookupType /\ fresh.maps = rest
        /\ fresh.op = call.op /\ fresh.vip = call.vip
        /\ call.op \in Walks \/ fresh.src = call.src
        /\ call.op \in Walks =>
             fresh.i = 0 /\ fresh.key = NoKey /\ fresh.pc = "next" /\ fresh.error = FALSE
    BY <2>2, <2>3, <1>1
  <2> QED BY <2>1, <2>4, <2>5, <1>1, <1>4, <1>8, <1>10, LeaveTableStep
<1>16. CASE ~ends
  <2>1. call' = onward /\ pending' = left /\ missed' = missed
    BY <1>3, <1>16
  <2>2. call.next \in FlowKey /\ call.i # kLruMaxLookups - 1
    <3>1. call.next \in FlowKey
      BY <1>5, <1>14, <1>16 DEF WalkType
    <3> QED BY <3>1, <1>16 DEF last
  <2>3. call.i + 1 \in 0..(kLruMaxLookups - 1) /\ call.i + 1 # 0
    BY <2>2, <1>5, ConnAssumption DEF WalkType
  <2>4. /\ call' \in WalkType /\ call'.key = call.next /\ call'.i = call.i + 1
        /\ call'.pc = "next" /\ call'.error = error /\ call'.maps = call.maps
        /\ call'.op = call.op /\ call'.vip = call.vip
    BY <2>1, <2>2, <2>3, <1>5, <1>6, <1>7 DEF WalkType
  <2>5. call' # Idle
    BY <2>4, <1>1, IdleIsNoCall
  <2>6. CallInv'
    BY <2>4, <1>1, <1>5 DEF IndInv, CallInv, WalkType, LookupType
  <2>7. PendingInv'
    <3>1. Wanted(call)' = Wanted(call)
      BY <2>4, <1>1, SameWanted
    <3>2. pending' \subseteq Range(lru'[t]) /\ pending' \subseteq Wanted(call)
      BY <2>1, <1>9, <1>12
    <3> QED BY <2>4, <2>5, <3>1, <3>2 DEF PendingInv, Keys
  <2>8. NothingMissed'
    BY <2>1, <1>1 DEF IndInv, NothingMissed, KeepsPort, DropsClient
  <2>9. ASSUME ~Excepted(call), NEW x \in left
        PROVE  /\ Bucket[call.next] <= Bucket[x]
               /\ call.next \in Range(lru'[t]) => x = call.next \/ Before(lru'[t], call.next, x)
    <3>1. x # call.key /\ x \in pending /\ x \in Range(lru'[t])
      BY <2>9, <1>9, <1>13
    <3>2. NotAfter(t, call.next, x)
      BY <2>2, <2>9, <3>1, <1>14
    <3> QED BY <3>1, <3>2, <1>10 DEF NotAfter, Keys
  <2>10. AheadInv'
    <3>1. Excepted(call)' = Excepted(call)
      BY <2>4, <1>1, SameExcepted
    <3>2. call'.key # NoKey /\ call'.pc # "visit"
      BY <2>2, <2>4, ConnAssumption
    <3>3. call'.error => pending' = {}
      BY <2>1, <2>4, <1>9
    <3>4. t' = t
      BY <2>4
    <3> HIDE DEF t
    <3> QED BY <2>1, <2>3, <2>4, <2>9, <3>1, <3>2, <3>3, <3>4 DEF AheadInv, t, NotAfter, Keys
  <2> QED BY <2>6, <2>7, <2>8, <2>10, <1>10 DEF IndInv
<1> QED BY <1>15, <1>16

LEMMA VisitKeyStep ==
  ASSUME IndInv, visitKey
  PROVE  IndInv'
<1> DEFINE t == Head(call.maps)
           k == flowKeyFromParams(call.vip, call.src)
           next == [call EXCEPT !.maps = Tail(@)]
<1>1. call.op \in Lookups /\ flags' = flags
  BY DEF visitKey
<1>2. PICK error \in BOOLEAN :
        /\ lru' = IF call.op = "deleteLru" /\ ~error THEN [lru EXCEPT ![t] = RemoveFirst(@, k)]
                  ELSE lru
        /\ leaveTable(stillPending(t, k, error), Tail(call.maps), next)
  BY DEF visitKey
<1>3. call # Idle
  BY <1>1, IdleIsNoCall
<1>4. call \in LookupType /\ t \in Table /\ Tail(call.maps) \in Seq(Table)
  BY <1>1, <1>3, CallHasTable DEF IndInv
<1> DEFINE left == stillPending(t, k, error)
<1>5. TablesInv' /\ (call.op = "deleteLru" /\ ~error => k \notin Range(lru'[t]))
  <2>0. TablesInv
    BY DEF IndInv
  <2>1. CASE call.op = "deleteLru" /\ ~error
    <3>1. lru' = [lru EXCEPT ![t] = RemoveFirst(@, k)]
      BY <2>1, <1>2
    <3> HIDE DEF t, k
    <3>2. TablesInv' /\ Range(lru'[t]) = Range(lru[t]) \ {k}
      BY <2>0, <3>1, <1>4, DeleteKeepsTables
    <3> QED BY <3>2
  <2>2. CASE ~(call.op = "deleteLru" /\ ~error)
    BY <2>0, <2>2, <1>2 DEF TablesInv, InOrder
  <2> QED BY <2>1, <2>2
<1>6. left # {} => Excepted(call)
  <2> SUFFICES ASSUME ~Excepted(call), left # {}
               PROVE  FALSE
    OBVIOUS
  <2>1. \A x \in pending : x = k
    <3>1. pending \subseteq Wanted(call)
      BY <1>3 DEF IndInv, PendingInv
    <3> QED BY <3>1, <1>1, LookupMatches
  <2>2. ~error /\ left \subseteq pending /\ left \subseteq Range(lru'[t])
    BY DEF stillPending
  <2>3. k \in left
    BY <2>1, <2>2
  <2>4. call.op # "deleteLru"
    BY <2>2, <2>3, <1>5
  <2>5. call.op \notin {"purgeVipLru", "deleteLru"}
    BY <2>4, <1>1 DEF Lookups
  <2>6. left \subseteq pending \ {k}
    BY <2>2, <2>5 DEF stillPending
  <2> QED BY <2>3, <2>6
<1>7. next \in LookupType /\ next.maps = Tail(call.maps) /\ next.op = call.op
      /\ next.vip = call.vip /\ next.src = call.src
  BY <1>4 DEF LookupType
<1>8. call.op \notin Walks
  BY <1>1 DEF Walks, Lookups
<1> HIDE DEF left, next, t, k
<1>9. leaveTable(left, Tail(call.maps), next)
  BY <1>2 DEF left, t, k, next
<1> QED BY <1>1, <1>3, <1>4, <1>5, <1>6, <1>7, <1>8, <1>9, LeaveTableStep
-----------------------------------------------------------------------------
(* The theorems *)

LEMMA InitInv == Init => IndInv
<1> SUFFICES ASSUME Init PROVE IndInv
  OBVIOUS
<1>1. TablesInv
  <2>1. <<>> \in Seq(FlowKey) /\ Len(<<>>) = 0
    BY EmptySeq
  <2>2. Capacity \in Nat
    BY ConnAssumption
  <2> QED BY <2>1, <2>2 DEF Init, TablesInv, InOrder
<1>2. CallInv
  BY ConnAssumption DEF Init, CallInv
<1>3. PendingInv /\ NothingMissed
  BY DEF Init, PendingInv, NothingMissed
<1>4. AheadInv
  BY IdleIsNoCall DEF Init, AheadInv
<1> QED BY <1>1, <1>2, <1>3, <1>4 DEF IndInv

LEMMA PacketStep ==
  ASSUME IndInv, NEW c \in Cpu, NEW src \in Src, NEW dport \in Port,
         get_packet_dst(c, src, dport) \/ check_and_update_real_index_in_lru(c, src, dport)
  PROVE  IndInv'
<1>1. TableOf(c) \in Table
  BY DEF TableOf, Table
<1>2. flow(src, dport) \in FlowKey /\ hashedFlow(src, dport) \in FlowKey
  BY FlowIsKey DEF IndInv, CallInv
<1>3. \E k \in {flow(src, dport), hashedFlow(src, dport)} : enter(TableOf(c), k)
  BY DEF get_packet_dst, check_and_update_real_index_in_lru
<1> QED BY <1>1, <1>2, <1>3, EnterStep

LEMMA NextInv == IndInv /\ [Next]_vars => IndInv'
<1> SUFFICES ASSUME IndInv, [Next]_vars
             PROVE  IndInv'
  OBVIOUS
<1>1. CASE \E c \in Cpu, s \in Src, p \in Port :
             /\ <<c, s, p>> \in Arrivals
             /\ get_packet_dst(c, s, p) \/ check_and_update_real_index_in_lru(c, s, p)
  BY <1>1, PacketStep
<1>2. ASSUME NEW v \in VipPort, purgeVipLru(v)
      PROVE  IndInv'
  <2>1. "purgeVipLru" \in Walks
    BY DEF Walks
  <2> QED BY <2>1, <1>2, WalkStarts, MapsAreTables DEF purgeVipLru
<1>3. ASSUME NEW v \in VipPort, NEW n \in Limits, listLru(v, n)
      PROVE  IndInv'
  <2>1. "listLru" \in Walks
    BY DEF Walks
  <2> QED BY <2>1, <1>3, WalkStarts, MapsAreTables DEF listLru
<1>4. ASSUME NEW v \in VipPort, NEW s \in Src, deleteLru(v, s) \/ searchLru(v, s)
      PROVE  IndInv'
  <2>1. "deleteLru" \in Lookups /\ "searchLru" \in Lookups
    BY DEF Lookups
  <2> QED BY <2>1, <1>4, LookupStarts DEF deleteLru, searchLru
<1>5. CASE analyzeLru
  <2>1. "analyzeLru" \in Walks
    BY DEF Walks
  <2> QED BY <2>1, <1>5, WalkStarts, MapsAreTables DEF analyzeLru
<1>6. CASE Administration
  BY <1>6, GetNextKeyStep, VisitStep, VisitKeyStep DEF Administration
<1>7. CASE UNCHANGED vars
  <2>1. TablesInv' /\ CallInv'
    BY <1>7 DEF vars, IndInv, TablesInv, CallInv, InOrder, WalkType, LookupType
  <2>2. PendingInv' /\ NothingMissed'
    <3>1. Wanted(call)' = Wanted(call)
      BY <1>7, SameWanted DEF vars
    <3> QED BY <1>7, <3>1 DEF vars, IndInv, PendingInv, NothingMissed, Keys, KeepsPort, DropsClient
  <2>3. AheadInv'
    BY <1>7 DEF vars, IndInv, AheadInv, Excepted, KeepsPort, DropsClient, NotAfter, Keys
  <2> QED BY <2>1, <2>2, <2>3 DEF IndInv
<1> QED BY <1>1, <1>2, <1>3, <1>4, <1>5, <1>6, <1>7 DEF Next

\* The tables stay in order and within their size, a call in progress has its type, and
\* a walk has passed by nothing it was asked for, whatever packets arrive in between.
THEOREM Inductive == Spec => []IndInv
  BY InitInv, NextInv, PTL DEF Spec

\* A purge, a list or an analysis that meets no error has handled every entry of the VIP
\* that was there when it came to the table and was not written since, and deleteLru and
\* searchLru reach the entry of their flow, but for the VIPs whose flows are kept under
\* other keys.
THEOREM WalksMissNothing == Spec => []NothingMissed
<1>1. IndInv => NothingMissed
  BY DEF IndInv
<1> QED BY <1>1, Inductive, PTL
-----------------------------------------------------------------------------
(* How long a call takes: the safety half of WalksEnd *)

\* The most steps that call c still takes
StepsLeft(c) ==
  CASE c.op \in Walks -> 2 * (kLruMaxLookups * Len(c.maps) - c.i) - (IF c.pc = "visit" THEN 1 ELSE 0)
    [] c.op \in Lookups -> Len(c.maps)
    [] OTHER -> 0

\* A list that is full turns to the fallback table, which is still to come.
FallbackIsLast == call.op = "listLru" => call.maps[Len(call.maps)] = Fallback

\* Each step of a call in progress brings its end nearer, and packets do not disturb it.
CallNearsEnd ==
  /\ StepsLeft(call) \in Nat /\ (StepsLeft(call) = 0 <=> call = Idle)
  /\ Administration => StepsLeft(call') < StepsLeft(call)
  /\ call # Idle /\ ~Administration => call' = call

LEMMA AtLeastOnce ==
  ASSUME NEW k \in Nat, NEW n \in Nat, n >= 1
  PROVE  k * n \in Nat /\ k * n >= k
<1>1. PICK m \in Nat : n = m + 1
  <2>1. n - 1 \in Nat /\ n = (n - 1) + 1
    OBVIOUS
  <2> QED BY <2>1
<1>2. k * m \in Nat /\ k * (m + 1) = k * m + k
  OBVIOUS
<1> QED BY <1>1, <1>2

LEMMA StepsType ==
  ASSUME NEW c \in {Idle} \cup WalkType \cup LookupType, c # Idle => c.maps # <<>>
  PROVE  /\ StepsLeft(c) \in Nat /\ (StepsLeft(c) = 0 <=> c = Idle)
         /\ c.op \in Walks =>
              /\ c.maps \in Seq(Table) /\ Len(c.maps) \in Nat
              /\ c.i \in 0..(kLruMaxLookups - 1) /\ c.pc \in {"next", "visit"}
              /\ StepsLeft(c) = 2 * (kLruMaxLookups * Len(c.maps) - c.i)
                                  - (IF c.pc = "visit" THEN 1 ELSE 0)
         /\ c.op \in Lookups =>
              /\ c.maps \in Seq(Table) /\ c.maps # <<>> /\ c.op \notin Walks
              /\ StepsLeft(c) = Len(c.maps)
<1>1. c.op \in Walks => c \in WalkType /\ c # Idle
  BY IdleIsNoCall DEF LookupType, Walks, Lookups
<1>2. c.op \in Lookups => c \in LookupType /\ c # Idle /\ c.op \notin Walks
  BY IdleIsNoCall DEF WalkType, Walks, Lookups
<1>3. ASSUME c.op \in Walks
      PROVE  /\ c.maps \in Seq(Table) /\ Len(c.maps) \in Nat
             /\ c.i \in 0..(kLruMaxLookups - 1) /\ c.pc \in {"next", "visit"}
             /\ StepsLeft(c) = 2 * (kLruMaxLookups * Len(c.maps) - c.i)
                                 - (IF c.pc = "visit" THEN 1 ELSE 0)
             /\ StepsLeft(c) \in Nat \ {0}
  <2>1. c \in WalkType /\ c.maps # <<>> /\ c.maps \in Seq(Table) /\ c.pc \in {"next", "visit"}
    BY <1>1, <1>3 DEF WalkType
  <2>2. Len(c.maps) \in Nat /\ Len(c.maps) >= 1 /\ c.i \in 0..(kLruMaxLookups - 1)
    BY <2>1, EmptySeq, LenProperties DEF WalkType
  <2>3. kLruMaxLookups * Len(c.maps) \in Nat /\ kLruMaxLookups * Len(c.maps) >= kLruMaxLookups
    BY <2>2, AtLeastOnce, ConnAssumption
  <2>4. StepsLeft(c) = 2 * (kLruMaxLookups * Len(c.maps) - c.i)
                         - (IF c.pc = "visit" THEN 1 ELSE 0)
    BY <1>3 DEF StepsLeft, Walks, Lookups
  <2>5. PICK m \in Nat : m = kLruMaxLookups * Len(c.maps)
    BY <2>3
  <2>6. m >= kLruMaxLookups /\ StepsLeft(c) = 2 * (m - c.i) - (IF c.pc = "visit" THEN 1 ELSE 0)
    BY <2>3, <2>4, <2>5
  <2>7. StepsLeft(c) \in Nat \ {0}
    BY <2>2, <2>6, ConnAssumption
  <2> QED BY <2>1, <2>2, <2>4, <2>7
<1>4. ASSUME c.op \in Lookups
      PROVE  /\ c.maps \in Seq(Table) /\ c.maps # <<>> /\ c.op \notin Walks
             /\ StepsLeft(c) = Len(c.maps) /\ StepsLeft(c) \in Nat \ {0}
  <2>1. c.maps # <<>> /\ c.maps \in Seq(Table)
    BY <1>2, <1>4 DEF LookupType
  <2>2. StepsLeft(c) = Len(c.maps)
    BY <1>2, <1>4 DEF StepsLeft
  <2> QED BY <2>1, <2>2, <1>2, <1>4, EmptySeq, LenProperties
<1>5. c = Idle => StepsLeft(c) = 0
  BY IdleIsNoCall DEF StepsLeft
<1>6. c = Idle \/ c.op \in Walks \/ c.op \in Lookups
  BY DEF WalkType, LookupType
<1> QED BY <1>1, <1>2, <1>3, <1>4, <1>5, <1>6

LEMMA FallbackStart == Init => FallbackIsLast
  BY DEF Init, FallbackIsLast, Idle

LEMMA LastOfTail ==
  ASSUME NEW m \in Seq(Table), m # <<>>, Tail(m) # <<>>
  PROVE  Tail(m)[Len(Tail(m))] = m[Len(m)]
<1>1. /\ Len(m) \in Nat /\ Len(Tail(m)) = Len(m) - 1
      /\ \A j \in 1..Len(Tail(m)) : Tail(m)[j] = m[j + 1]
  BY HeadTailProperties, LenProperties
<1>2. Len(Tail(m)) # 0
  BY HeadTailProperties, EmptySeq
<1>3. Len(Tail(m)) \in 1..Len(Tail(m)) /\ Len(Tail(m)) + 1 = Len(m)
  BY <1>1, <1>2
<1> QED BY <1>1, <1>3

\* What a visit makes of a walk: it goes on to the next key, or to fewer tables.
LEMMA VisitAdvances ==
  ASSUME IndInv, FallbackIsLast, visit
  PROVE  /\ call' # Idle => call'.op = call.op /\ call'.op \in Walks
         /\ \/ call' = Idle
            \/ call'.maps = call.maps /\ call'.i = call.i + 1 /\ call'.pc = "next"
            \/ /\ call'.i = 0 /\ call'.pc = "next" /\ Len(call'.maps) < Len(call.maps)
               /\ call'.maps \in {Tail(call.maps), <<Fallback>>} /\ call'.maps # <<>>
<1>0. PICK works \in BOOLEAN : visitWith(works)
  BY DEF visit
<1> DEFINE t == Head(call.maps)
           match == call.i # 0 /\ vipMatch(call.key)
           found == match /\ works /\ call.key \in Keys(t)
           listed == call.listed + (IF found /\ call.op = "listLru" THEN 1 ELSE 0)
           full == call.op = "listLru" /\ call.next \in FlowKey /\ listed >= call.limit
           last == call.next \in FlowKey /\ call.i = kLruMaxLookups - 1
           error == call.error \/ (match /\ ~found) \/ call.next = EOther \/ full \/ last
           left == stillPending(t, IF found THEN call.key ELSE NoKey, error)
           rest == IF full /\ t # Fallback THEN <<Fallback>> ELSE Tail(call.maps)
           fresh == [call EXCEPT !.maps = rest, !.key = NoKey, !.next = NoKey, !.i = 0,
                                 !.pc = "next", !.error = FALSE, !.listed = listed]
           onward == [call EXCEPT !.key = call.next, !.next = NoKey, !.i = @ + 1,
                                  !.pc = "next", !.error = error, !.listed = listed]
           ends == call.next \in {ENOENT, EOther} \/ full \/ last
<1>1. call.op \in Walks
  BY <1>0 DEF visitWith
<1>2. ends => call' = IF rest = <<>> THEN Idle ELSE fresh
  BY <1>0 DEF visitWith, leaveTable
<1>3. ~ends => call' = onward
  BY <1>0 DEF visitWith
<1>4. /\ call \in WalkType /\ call.maps \in Seq(Table) /\ call.maps # <<>>
      /\ Len(Tail(call.maps)) = Len(call.maps) - 1
  BY <1>1, IdleIsNoCall, CallHasTable DEF IndInv, CallInv
<1>5. full => call.op = "listLru"
  OBVIOUS
<1> HIDE DEF full, last, error, listed, left
<1>6. /\ fresh.maps = rest /\ fresh.i = 0 /\ fresh.pc = "next" /\ fresh.op = call.op
      /\ onward.maps = call.maps /\ onward.i = call.i + 1 /\ onward.pc = "next"
      /\ onward.op = call.op
  BY <1>4 DEF WalkType
<1>7. Len(call.maps) \in Nat /\ Len(rest) < Len(call.maps)
  <2>1. Len(call.maps) \in Nat /\ Len(Tail(call.maps)) < Len(call.maps)
    BY <1>4, LenProperties
  <2>2. ASSUME full, t # Fallback
        PROVE  Len(<<Fallback>>) < Len(call.maps)
    <3>1. call.maps[Len(call.maps)] = Fallback
      BY <2>2, <1>5 DEF FallbackIsLast
    <3>2. Head(call.maps) = call.maps[1]
      BY <1>4, HeadTailProperties
    <3>3. Len(call.maps) # 1 /\ Len(call.maps) # 0
      BY <2>2, <3>1, <3>2, <1>4, EmptySeq
    <3>4. Len(<<Fallback>>) = 1
      OBVIOUS
    <3>5. \A n \in Nat : n # 0 /\ n # 1 => 1 < n
      OBVIOUS
    <3>6. 1 < Len(call.maps)
      BY <3>3, <3>5, <2>1
    <3> QED BY <3>4, <3>6
  <2> QED BY <2>1, <2>2
<1>8. rest \in {Tail(call.maps), <<Fallback>>}
  OBVIOUS
<1> HIDE DEF rest, fresh, onward, ends
<1>9. CASE ~ends
  BY <1>9, <1>1, <1>3, <1>6
<1>10. CASE ends /\ rest # <<>>
  BY <1>10, <1>1, <1>2, <1>6, <1>7, <1>8
<1>11. CASE ends /\ rest = <<>>
  BY <1>11, <1>2
<1> QED BY <1>9, <1>10, <1>11

LEMMA FallbackStays ==
  ASSUME IndInv, FallbackIsLast, [Next]_vars
  PROVE  FallbackIsLast'
<1>1. ASSUME call' = call
      PROVE  FallbackIsLast'
  BY <1>1 DEF FallbackIsLast
<1>2. ASSUME NEW c \in Cpu, NEW s \in Src, NEW p \in Port,
             get_packet_dst(c, s, p) \/ check_and_update_real_index_in_lru(c, s, p)
      PROVE  call' = call
  BY <1>2 DEF get_packet_dst, check_and_update_real_index_in_lru, enter
<1>3. ASSUME NEW v, NEW n, purgeVipLru(v) \/ listLru(v, n)
      PROVE  FallbackIsLast'
  <2>1. call'.maps = Maps
    BY <1>3 DEF purgeVipLru, listLru, walk, start
  <2> QED BY <2>1, MapsAreTables DEF FallbackIsLast
<1>4. ASSUME NEW v, NEW s, deleteLru(v, s) \/ searchLru(v, s)
      PROVE  FallbackIsLast'
  BY <1>4 DEF deleteLru, searchLru, lookup, start, FallbackIsLast
<1>5. ASSUME analyzeLru
      PROVE  FallbackIsLast'
  BY <1>5 DEF analyzeLru, walk, start, FallbackIsLast
<1>6. ASSUME getNextKey
      PROVE  FallbackIsLast'
  <2>1. call \in WalkType
    BY <1>6, IdleIsNoCall, CallHasTable DEF getNextKey, IndInv
  <2>2. call'.maps = call.maps /\ call'.op = call.op
    BY <1>6, <2>1 DEF getNextKey, WalkType
  <2> QED BY <2>2 DEF FallbackIsLast
<1>7. ASSUME visit
      PROVE  FallbackIsLast'
  <2>1. CASE call' = Idle
    BY <2>1 DEF FallbackIsLast, Idle
  <2>2. CASE call' # Idle /\ call'.maps = call.maps
    BY <2>2, <1>7, VisitAdvances DEF FallbackIsLast
  <2>3. CASE call' # Idle /\ call'.maps = Tail(call.maps) /\ call'.maps # <<>>
    <3>1. call.maps \in Seq(Table) /\ call.maps # <<>>
      BY <1>7, IdleIsNoCall, CallHasTable DEF visit, visitWith, IndInv, CallInv
    <3> QED BY <2>3, <3>1, <1>7, LastOfTail, VisitAdvances DEF FallbackIsLast
  <2>4. CASE call' # Idle /\ call'.maps = <<Fallback>>
    BY <2>4 DEF FallbackIsLast
  <2> QED BY <2>1, <2>2, <2>3, <2>4, <1>7, VisitAdvances
<1>8. ASSUME visitKey
      PROVE  FallbackIsLast'
  <2>1. call.op \in Lookups /\ call \in LookupType
    BY <1>8, IdleIsNoCall, CallHasTable DEF visitKey, IndInv, Lookups, Walks
  <2>2. call' = Idle \/ call' = [call EXCEPT !.maps = Tail(@)]
    BY <1>8 DEF visitKey, leaveTable
  <2>3. call'.op # "listLru"
    BY <2>1, <2>2 DEF LookupType, Lookups, Idle
  <2> QED BY <2>3 DEF FallbackIsLast
<1> QED BY <1>1, <1>2, <1>3, <1>4, <1>5, <1>6, <1>7, <1>8 DEF Next, Administration, vars

LEMMA FewerTables ==
  ASSUME NEW k \in Nat, NEW m \in Nat, NEW n \in Nat, m < n
  PROVE  k * m \in Nat /\ k * n \in Nat /\ k * m + k <= k * n
<1>1. PICK d \in Nat : n = m + 1 + d
  <2>1. n - m - 1 \in Nat /\ n = m + 1 + (n - m - 1)
    OBVIOUS
  <2> QED BY <2>1
<1>2. k * m \in Nat /\ k * d \in Nat /\ k * (m + 1 + d) = k * m + k + k * d
  OBVIOUS
<1> QED BY <1>1, <1>2

LEMMA NearsEnd ==
  ASSUME IndInv, FallbackIsLast, [Next]_vars, CallInv'
  PROVE  CallNearsEnd
<1> DEFINE k == kLruMaxLookups
<1>1. /\ call \in {Idle} \cup WalkType \cup LookupType /\ (call # Idle => call.maps # <<>>)
      /\ call' \in {Idle} \cup WalkType \cup LookupType /\ (call' # Idle => call'.maps # <<>>)
  BY DEF IndInv, CallInv, WalkType, LookupType
<1>2. StepsLeft(call) \in Nat /\ (StepsLeft(call) = 0 <=> call = Idle)
  BY <1>1, StepsType
<1>3. ASSUME call' = Idle, call # Idle
      PROVE  StepsLeft(call') < StepsLeft(call)
  BY <1>1, <1>2, <1>3, StepsType
<1>4. ASSUME getNextKey
      PROVE  StepsLeft(call') < StepsLeft(call)
  <2>1. call.op \in Walks /\ call.pc = "next" /\ call \in WalkType
    BY <1>4, IdleIsNoCall, CallHasTable DEF getNextKey, IndInv
  <2>2. call'.maps = call.maps /\ call'.op = call.op /\ call'.i = call.i /\ call'.pc = "visit"
    BY <1>4, <2>1 DEF getNextKey, WalkType
  <2>3. /\ StepsLeft(call) = 2 * (k * Len(call.maps) - call.i) - 0
        /\ StepsLeft(call') = 2 * (k * Len(call.maps) - call.i) - 1
        /\ Len(call.maps) \in Nat /\ call.i \in Nat
    BY <1>1, <2>1, <2>2, StepsType
  <2>4. k * Len(call.maps) \in Nat
    BY <2>3, ConnAssumption
  <2> QED BY <2>3, <2>4
<1>5. ASSUME visit
      PROVE  StepsLeft(call') < StepsLeft(call)
  <2>1. call.op \in Walks /\ call.pc = "visit" /\ call # Idle
    BY <1>5, IdleIsNoCall DEF visit, visitWith
  <2>2. /\ StepsLeft(call) = 2 * (k * Len(call.maps) - call.i) - 1
        /\ Len(call.maps) \in Nat /\ call.i \in 0..(k - 1)
    BY <1>1, <2>1, StepsType
  <2>3. k * Len(call.maps) \in Nat
    BY <2>2, ConnAssumption
  <2>4. call' # Idle => call'.op \in Walks
    BY <1>5, VisitAdvances
  <2>5. ASSUME call' # Idle, call'.maps = call.maps, call'.i = call.i + 1, call'.pc = "next"
        PROVE  StepsLeft(call') < StepsLeft(call)
    <3>1. StepsLeft(call') = 2 * (k * Len(call.maps) - (call.i + 1)) - 0
      BY <2>4, <2>5, <1>1, StepsType
    <3> QED BY <3>1, <2>2, <2>3
  <2>6. ASSUME call' # Idle, call'.i = 0, call'.pc = "next", Len(call'.maps) < Len(call.maps)
        PROVE  StepsLeft(call') < StepsLeft(call)
    <3>1. StepsLeft(call') = 2 * (k * Len(call'.maps) - 0) - 0 /\ Len(call'.maps) \in Nat
      BY <2>4, <2>6, <1>1, StepsType
    <3>2. k * Len(call'.maps) \in Nat /\ k * Len(call'.maps) + k <= k * Len(call.maps)
      BY <2>6, <2>2, <3>1, FewerTables, ConnAssumption
    <3>3. PICK m \in Nat, n \in Nat : m = k * Len(call'.maps) /\ n = k * Len(call.maps)
      BY <3>2, <2>3
    <3>4. m + k <= n /\ StepsLeft(call') = 2 * m /\ StepsLeft(call) = 2 * (n - call.i) - 1
      BY <3>1, <3>2, <3>3, <2>2
    <3> QED BY <3>4, <2>2, ConnAssumption
  <2> QED BY <2>1, <2>5, <2>6, <1>3, <1>5, VisitAdvances
<1>6. ASSUME visitKey
      PROVE  StepsLeft(call') < StepsLeft(call)
  <2>1. call.op \in Lookups /\ call \in LookupType /\ call # Idle
    BY <1>6, IdleIsNoCall, CallHasTable DEF visitKey, IndInv
  <2>2. /\ StepsLeft(call) = Len(call.maps) /\ call.maps \in Seq(Table) /\ call.maps # <<>>
    BY <1>1, <2>1, StepsType
  <2>3. call' = Idle \/ call' = [call EXCEPT !.maps = Tail(@)]
    BY <1>6 DEF visitKey, leaveTable
  <2>4. ASSUME call' = [call EXCEPT !.maps = Tail(@)], call' # Idle
        PROVE  StepsLeft(call') < StepsLeft(call)
    <3>1. call'.op \in Lookups /\ call'.maps = Tail(call.maps)
      BY <2>1, <2>4 DEF LookupType
    <3>2. StepsLeft(call') = Len(Tail(call.maps))
      BY <3>1, <2>4, <1>1, StepsType
    <3> QED BY <3>2, <2>2, HeadTail, LenProperties
  <2> QED BY <2>1, <2>3, <2>4, <1>3
<1>7. call # Idle /\ ~Administration => call' = call
  <2>1. ASSUME NEW c \in Cpu, NEW s \in Src, NEW p \in Port,
               get_packet_dst(c, s, p) \/ check_and_update_real_index_in_lru(c, s, p)
        PROVE  call' = call
    BY <2>1 DEF get_packet_dst, check_and_update_real_index_in_lru, enter
  <2>2. ASSUME call # Idle
        PROVE  /\ ~analyzeLru
               /\ \A v, n : ~purgeVipLru(v) /\ ~listLru(v, n)
               /\ \A v, s : ~deleteLru(v, s) /\ ~searchLru(v, s)
    BY <2>2 DEF analyzeLru, purgeVipLru, listLru, deleteLru, searchLru, walk, lookup, start
  <2> QED BY <2>1, <2>2 DEF Next, vars
<1> QED BY <1>2, <1>4, <1>5, <1>6, <1>7 DEF CallNearsEnd, Administration

\* Every step of a call in progress brings its end nearer: it lowers the number of those
\* that can still come, however the packets send its walk back to the first key of a table, and
\* nothing else changes it (kLruMaxLookups against a table that never ends).
THEOREM CallsNearEnd == Spec => [][CallNearsEnd]_vars
<1>1. IndInv /\ FallbackIsLast /\ [Next]_vars => FallbackIsLast'
  BY FallbackStays
<1>2. IndInv /\ FallbackIsLast /\ [Next]_vars /\ IndInv' => [CallNearsEnd]_vars
  BY NearsEnd DEF IndInv
<1> QED BY <1>1, <1>2, FallbackStart, Inductive, PTL DEF Spec
=============================================================================
