--------------------------- MODULE LbControlProofs ---------------------------
(* Theorems about LbControl, for every value of its constants: first those about
   the numbers and what they name, then, from "The users of a number" on, those
   that count: who uses a real number, and what the kernel's maps and the rings
   make of it.                                                                *)
EXTENDS LbControl, SequenceTheorems, FiniteSetTheorems, WellFoundedInduction, TLAPS

USE DEF RealNum, VipNum

(* A non-empty set of indices has a last one: the weight that a batch leaves
   for a real is the one of its last update.                               *)
LEMMA LastExists ==
  ASSUME NEW k \in Nat, NEW T, T \subseteq 1 .. k, T # {}
  PROVE  \E i \in T : \A j \in i + 1 .. k : j \notin T
<1> DEFINE U == {n \in Nat : k - n \in T}
<1> DEFINE R == OpToRel(<, Nat)
<1>1. U \subseteq Nat /\ U # {}
  <2>1. PICK t \in T : TRUE
    OBVIOUS
  <2>2. k - t \in Nat /\ k - (k - t) = t
    BY <2>1
  <2> QED BY <2>1, <2>2
<1>2. IsWellFoundedOn(R, Nat)
  BY NatLessThanWellFounded
<1>3. PICK x \in U : \A y \in U : ~ (<<y, x>> \in R)
  <2> HIDE DEF U, R
  <2> QED BY <1>1, <1>2, WFMin
<1>4. \A y \in U : ~ (y < x)
  BY <1>3 DEF OpToRel
<1>5. k - x \in T
  OBVIOUS
<1>6. ASSUME NEW j \in (k - x) + 1 .. k PROVE j \notin T
  <2> SUFFICES ASSUME j \in T PROVE FALSE
    OBVIOUS
  <2>1. k - j \in Nat /\ k - (k - j) = j /\ k - j < x
    BY <1>5
  <2> QED BY <2>1, <1>4
<1> QED BY <1>5, <1>6
-----------------------------------------------------------------------------
(* The pool of real numbers *)

PoolInv == PoolType /\ NumberConservation /\ IndexAgrees

LEMMA PoolUnchanged == PoolInv /\ UNCHANGED poolVars => PoolInv'
BY DEF PoolInv, PoolType, NumberConservation, IndexAgrees, poolVars, Known

(* Taking a user off, of any address, preserves the pool: the number of the
   last user's real goes to the back of the free list and to no other real. *)
LEMMA DecreaseKeepsPool ==
  ASSUME PoolInv, NEW a, decreaseRefCountForReal(a)
  PROVE  PoolInv'
<1> USE ConfigAssumption, DataAssumption
<1>1. CASE UNCHANGED poolVars
  BY <1>1, PoolUnchanged
<1>2. CASE /\ a \in Addr /\ Known(a) /\ reals_[a].refCount > 1
           /\ reals_' = [reals_ EXCEPT ![a].refCount = @ - 1]
           /\ UNCHANGED <<realNums_, numToReals_, emptyReal>>
  <2>1. reals_[a] \in RealMeta
    BY <1>2 DEF PoolInv, PoolType, Known
  <2>2. /\ reals_'[a] \in RealMeta /\ reals_'[a].num = reals_[a].num
        /\ \A b \in Addr : b # a => reals_'[b] = reals_[b]
        /\ reals_'[a] # NoReal
    <3>1. reals_ \in [Addr -> RealMeta \cup {NoReal}]
      BY DEF PoolInv, PoolType
    <3>2. reals_'[a] = [reals_[a] EXCEPT !.refCount = @ - 1]
          /\ \A b \in Addr : b # a => reals_'[b] = reals_[b]
      BY <1>2, <3>1
    <3>3. reals_[a].refCount - 1 \in Nat \ {0}
      BY <1>2, <2>1 DEF RealMeta
    <3>4. reals_'[a] \in RealMeta /\ reals_'[a].num = reals_[a].num
      BY <2>1, <3>2, <3>3 DEF RealMeta
    <3> QED BY <3>2, <3>4 DEF RealMeta, NoReal
  <2>3. PoolType'
    BY <1>2, <2>2 DEF PoolInv, PoolType
  <2>4. \A b \in Addr : (Known(b)' <=> Known(b)) /\ reals_'[b].num = reals_[b].num
    BY <1>2, <2>2 DEF Known
  <2>5. NumberConservation' /\ IndexAgrees'
    BY <1>2, <2>4 DEF PoolInv, NumberConservation, IndexAgrees
  <2> QED BY <2>3, <2>5 DEF PoolInv
<1>3. CASE /\ a \in Addr /\ Known(a) /\ reals_[a].refCount = 1
           /\ realNums_' = Append(realNums_, reals_[a].num)
           /\ reals_' = [reals_ EXCEPT ![a] = NoReal]
           /\ numToReals_' = [numToReals_ EXCEPT ![reals_[a].num] = Absent]
           /\ UNCHANGED emptyReal
  <2> DEFINE n == reals_[a].num
  <2>1. reals_[a] \in RealMeta /\ n \in RealNum
    BY <1>3 DEF PoolInv, PoolType, Known, RealMeta
  <2>2. PoolType'
    BY <1>3, <2>1, AppendProperties DEF PoolInv, PoolType
  <2>3. /\ Len(realNums_) \in Nat
        /\ Len(realNums_') = Len(realNums_) + 1
        /\ realNums_'[Len(realNums_) + 1] = n
        /\ \A i \in 1 .. Len(realNums_) : realNums_'[i] = realNums_[i]
    BY <1>3, <2>1, AppendProperties DEF PoolInv, PoolType
  <2>4. /\ ~Known(a)'
        /\ \A b \in Addr : b # a => (Known(b)' <=> Known(b)) /\ reals_'[b] = reals_[b]
        /\ \A m \in RealNum : numToReals_'[m] = IF m = n THEN Absent ELSE numToReals_[m]
    BY <1>3, <2>1 DEF Known, PoolInv, PoolType
  <2>5. \A i \in 1 .. Len(realNums_) : realNums_[i] # n
    BY <1>3 DEF PoolInv, NumberConservation
  <2>6. \A b \in Addr : Known(b) /\ b # a => reals_[b].num # n
    BY <1>3 DEF PoolInv, NumberConservation
  <2> HIDE DEF n
  <2>7. NumberConservation'
    <3>1. \A i, j \in 1 .. Len(realNums_') : realNums_'[i] = realNums_'[j] => i = j
      BY <2>3, <2>5 DEF PoolInv, NumberConservation
    <3>2. \A b, c \in Addr :
            Known(b)' /\ Known(c)' /\ reals_'[b].num = reals_'[c].num => b = c
      BY <2>4 DEF PoolInv, NumberConservation
    <3>3. \A b \in Addr, i \in 1 .. Len(realNums_') :
            Known(b)' => reals_'[b].num # realNums_'[i]
      BY <2>3, <2>4, <2>6 DEF PoolInv, NumberConservation
    <3>4. ASSUME NEW m \in RealNum
          PROVE (\E i \in 1 .. Len(realNums_') : realNums_'[i] = m) \/
                (\E b \in Addr : Known(b)' /\ reals_'[b].num = m)
      <4>1. CASE m = n
        BY <4>1, <2>3
      <4>2. CASE \E i \in 1 .. Len(realNums_) : realNums_[i] = m
        BY <4>2, <2>3
      <4>3. CASE m # n /\ \E b \in Addr : Known(b) /\ reals_[b].num = m
        BY <4>3, <2>4 DEF n
      <4> QED BY <4>1, <4>2, <4>3 DEF PoolInv, NumberConservation
    <3> QED BY <3>1, <3>2, <3>3, <3>4 DEF NumberConservation
  <2>8. IndexAgrees'
    <3>1. \A b \in Addr : Known(b)' => numToReals_'[reals_'[b].num] = b
      BY <2>4, <2>6 DEF PoolInv, PoolType, IndexAgrees, RealMeta, Known
    <3>2. ASSUME NEW m \in RealNum, numToReals_'[m] \in Addr
          PROVE reals_'[numToReals_'[m]] # NoReal /\ reals_'[numToReals_'[m]].num = m
      <4>1. m # n /\ numToReals_'[m] = numToReals_[m]
        BY <2>4, <3>2, DataAssumption
      <4>2. Known(numToReals_[m]) /\ reals_[numToReals_[m]].num = m
        BY <4>1, <3>2 DEF PoolInv, IndexAgrees
      <4>3. numToReals_[m] # a
        BY <4>1, <4>2 DEF n
      <4> QED BY <2>4, <3>2, <4>1, <4>2, <4>3 DEF Known
    <3> QED BY <3>1, <3>2 DEF IndexAgrees, Known
  <2> QED BY <2>2, <2>7, <2>8 DEF PoolInv
<1>4. CASE decreaseEmpty
  BY <1>4 DEF decreaseEmpty, PoolInv, PoolType, NumberConservation, IndexAgrees, Known,
              EmptyReal
<1> QED BY <1>1, <1>2, <1>3, <1>4 DEF decreaseRefCountForReal

(* Taking a user off a known real, one of several or the last *)
LEMMA DecreaseKnown ==
  ASSUME NEW a \in Addr, Known(a), decreaseRefCountForReal(a)
  PROVE  \/ /\ reals_[a].refCount > 1
            /\ reals_' = [reals_ EXCEPT ![a].refCount = @ - 1]
            /\ UNCHANGED <<realNums_, numToReals_, emptyReal>>
         \/ /\ reals_[a].refCount = 1
            /\ realNums_' = Append(realNums_, reals_[a].num)
            /\ reals_' = [reals_ EXCEPT ![a] = NoReal]
            /\ numToReals_' = [numToReals_ EXCEPT ![reals_[a].num] = Absent]
            /\ UNCHANGED emptyReal
BY DataAssumption DEF decreaseRefCountForReal, Unlisted

(* Adding a user preserves the pool; unless the pool is empty, the address
   then has the number that increaseRefCountForReal returns.               *)
LEMMA IncreaseKeepsPool ==
  ASSUME PoolInv, NEW a \in Addr, NEW flags \in SUBSET RealFlag, NEW ok \in BOOLEAN,
         increaseRefCountForReal(a, flags, ok)
  PROVE  PoolInv'
<1> USE ConfigAssumption, DataAssumption
<1>1. CASE UNCHANGED poolVars
  BY <1>1, PoolUnchanged
<1>2. CASE /\ Known(a)
           /\ reals_' = [reals_ EXCEPT ![a].refCount = @ + 1]
           /\ UNCHANGED <<realNums_, numToReals_, emptyReal, reals>>
  <2>1. reals_[a] \in RealMeta
    BY <1>2 DEF PoolInv, PoolType, Known
  <2>2. /\ reals_'[a] \in RealMeta /\ reals_'[a].num = reals_[a].num
        /\ \A b \in Addr : b # a => reals_'[b] = reals_[b]
        /\ reals_'[a] # NoReal
    <3>1. reals_ \in [Addr -> RealMeta \cup {NoReal}]
      BY DEF PoolInv, PoolType
    <3>2. reals_'[a] = [reals_[a] EXCEPT !.refCount = @ + 1]
          /\ \A b \in Addr : b # a => reals_'[b] = reals_[b]
      BY <1>2, <3>1
    <3>3. reals_[a].refCount + 1 \in Nat \ {0}
      BY <1>2, <2>1 DEF RealMeta
    <3>4. reals_'[a] \in RealMeta /\ reals_'[a].num = reals_[a].num
      BY <2>1, <3>2, <3>3 DEF RealMeta
    <3> QED BY <3>2, <3>4 DEF RealMeta, NoReal
  <2>3. PoolType'
    BY <1>2, <2>2 DEF PoolInv, PoolType
  <2>4. \A b \in Addr : (Known(b)' <=> Known(b)) /\ reals_'[b].num = reals_[b].num
    BY <1>2, <2>2 DEF Known
  <2>5. NumberConservation' /\ IndexAgrees'
    BY <1>2, <2>4 DEF PoolInv, NumberConservation, IndexAgrees
  <2> QED BY <2>3, <2>5 DEF PoolInv
<1>3. CASE /\ ~Known(a) /\ realNums_ # <<>>
           /\ realNums_' = Tail(realNums_)
           /\ numToReals_' = [numToReals_ EXCEPT ![Head(realNums_)] = a]
           /\ reals_' = [reals_ EXCEPT ![a] =
                 [num |-> Head(realNums_), refCount |-> 1, flags |-> flags]]
           /\ UNCHANGED emptyReal
  <2> DEFINE n == Head(realNums_)
  <2>1. /\ n \in RealNum /\ Len(realNums_) \in Nat \ {0} /\ n = realNums_[1]
        /\ Len(realNums_') = Len(realNums_) - 1
        /\ realNums_' \in Seq(RealNum)
        /\ \A i \in 1 .. Len(realNums_') : realNums_'[i] = realNums_[i + 1]
    BY <1>3, HeadTailProperties, EmptySeq DEF PoolInv, PoolType
  <2> HIDE DEF n
  <2>2. /\ reals_'[a] = [num |-> n, refCount |-> 1, flags |-> flags]
        /\ \A b \in Addr : b # a => reals_'[b] = reals_[b]
        /\ \A m \in RealNum : numToReals_'[m] = IF m = n THEN a ELSE numToReals_[m]
    BY <1>3, <2>1 DEF PoolInv, PoolType, n
  <2>3. PoolType'
    BY <1>3, <2>1, <2>2 DEF PoolInv, PoolType, RealMeta, n
  <2>4. /\ Known(a)' /\ reals_'[a].num = n
        /\ \A b \in Addr : b # a => (Known(b)' <=> Known(b)) /\ reals_'[b].num = reals_[b].num
    BY <2>2, <2>1 DEF Known, NoReal
  <2>5. \A b \in Addr : Known(b) => reals_[b].num # n
    BY <2>1 DEF PoolInv, NumberConservation
  <2>6. NumberConservation'
    <3>0. \A i, j \in 1 .. Len(realNums_) : realNums_[i] = realNums_[j] => i = j
      BY DEF PoolInv, NumberConservation
    <3>1. \A i, j \in 1 .. Len(realNums_') : realNums_'[i] = realNums_'[j] => i = j
      <4> SUFFICES ASSUME NEW i \in 1 .. Len(realNums_'), NEW j \in 1 .. Len(realNums_'),
                          realNums_'[i] = realNums_'[j]
                   PROVE i = j
        OBVIOUS
      <4>1. i + 1 \in 1 .. Len(realNums_) /\ j + 1 \in 1 .. Len(realNums_)
        <5>1. /\ Len(realNums_) \in Nat \ {0} /\ Len(realNums_') = Len(realNums_) - 1
              /\ i \in 1 .. Len(realNums_') /\ j \in 1 .. Len(realNums_')
          BY <2>1
        <5> QED BY ONLY <5>1
      <4>2. realNums_[i + 1] = realNums_[j + 1]
        BY <2>1
      <4>3. i + 1 = j + 1
        BY <3>0, <4>1, <4>2
      <4> QED BY <4>3
    <3>2. \A b, c \in Addr :
            Known(b)' /\ Known(c)' /\ reals_'[b].num = reals_'[c].num => b = c
      BY <2>4, <2>5 DEF PoolInv, NumberConservation
    <3>3. \A b \in Addr, i \in 1 .. Len(realNums_') :
            Known(b)' => reals_'[b].num # realNums_'[i]
      <4> SUFFICES ASSUME NEW b \in Addr, NEW i \in 1 .. Len(realNums_'), Known(b)'
                   PROVE reals_'[b].num # realNums_'[i]
        OBVIOUS
      <4>0. i + 1 \in 1 .. Len(realNums_) /\ 1 \in 1 .. Len(realNums_) /\ i + 1 # 1
        BY <2>1
      <4>1. CASE b = a
        <5>1. realNums_[i + 1] # realNums_[1]
          BY <3>0, <4>0
        <5>2. realNums_'[i] = realNums_[i + 1]
          BY <2>1
        <5> QED BY <4>1, <5>1, <5>2, <2>1, <2>4
      <4>2. CASE b # a
        BY <4>0, <4>2, <2>1, <2>4 DEF PoolInv, NumberConservation
      <4> QED BY <4>1, <4>2
    <3>4. ASSUME NEW m \in RealNum
          PROVE (\E i \in 1 .. Len(realNums_') : realNums_'[i] = m) \/
                (\E b \in Addr : Known(b)' /\ reals_'[b].num = m)
      <4>1. CASE m = n
        BY <4>1, <2>4
      <4>2. CASE m # n /\ \E i \in 1 .. Len(realNums_) : realNums_[i] = m
        <5>1. PICK i \in 1 .. Len(realNums_) : realNums_[i] = m
          BY <4>2
        <5>2. i - 1 \in 1 .. Len(realNums_') /\ (i - 1) + 1 = i
          BY <5>1, <4>2, <2>1
        <5> QED BY <5>1, <5>2, <2>1
      <4>3. CASE \E b \in Addr : Known(b) /\ reals_[b].num = m
        BY <4>3, <2>4, <1>3
      <4> QED BY <4>1, <4>2, <4>3 DEF PoolInv, NumberConservation
    <3> QED BY <3>1, <3>2, <3>3, <3>4 DEF NumberConservation
  <2>7. IndexAgrees'
    <3>1. \A b \in Addr : Known(b)' => numToReals_'[reals_'[b].num] = b
      <4> SUFFICES ASSUME NEW b \in Addr, Known(b)'
                   PROVE numToReals_'[reals_'[b].num] = b
        OBVIOUS
      <4>1. CASE b = a
        BY <4>1, <2>1, <2>2, <2>4
      <4>2. CASE b # a
        <5>1. Known(b) /\ reals_'[b].num = reals_[b].num /\ reals_[b].num # n
          BY <4>2, <2>4, <2>5
        <5>2. reals_[b].num \in RealNum /\ numToReals_[reals_[b].num] = b
          BY <5>1 DEF PoolInv, PoolType, IndexAgrees, Known, RealMeta
        <5> QED BY <5>1, <5>2, <2>2
      <4> QED BY <4>1, <4>2
    <3>2. ASSUME NEW m \in RealNum, numToReals_'[m] \in Addr
          PROVE reals_'[numToReals_'[m]] # NoReal /\ reals_'[numToReals_'[m]].num = m
      BY <3>2, <1>3, <2>2, <2>4 DEF PoolInv, IndexAgrees, Known
    <3> QED BY <3>1, <3>2 DEF IndexAgrees, Known
  <2> QED BY <2>3, <2>6, <2>7 DEF PoolInv
<1> QED BY <1>1, <1>2, <1>3 DEF increaseRefCountForReal, poolVars

(* What operator[] inserts is under numbers nobody has. *)
LEMMA ReadKeepsPool ==
  ASSUME PoolInv, NEW nums, numToReals_' = ReadThrough(nums),
         UNCHANGED <<realNums_, reals_>>, emptyReal' \in EmptyReal
  PROVE  PoolInv'
<1> USE DataAssumption
<1>1. /\ numToReals_' \in [RealNum -> Addr \cup {EmptyAddr, Absent}]
      /\ \A n \in RealNum : numToReals_'[n] = numToReals_[n] \/
             (numToReals_[n] = Absent /\ numToReals_'[n] = EmptyAddr)
  BY DEF PoolInv, PoolType, ReadThrough
<1>2. NumberConservation'
  BY DEF PoolInv, NumberConservation, Known
<1>3. IndexAgrees'
  <2>1. \A a \in Addr : Known(a) => reals_[a].num \in RealNum
    BY DEF PoolInv, PoolType, Known, RealMeta
  <2> QED BY <1>1, <2>1 DEF PoolInv, IndexAgrees, Known
<1> QED BY <1>1, <1>2, <1>3 DEF PoolInv, PoolType

(* decreaseRefCountForReal(numToReals_[n]) and the entry operator[] leaves. *)
LEMMA ReleaseKeepsPool ==
  ASSUME PoolInv, NEW n \in RealNum, releaseNum(n)
  PROVE  PoolInv'
<1>1. CASE /\ numToReals_' = ReadThrough({n})
           /\ emptyReal' = IF emptyReal = "none" THEN "none" ELSE "wrapped"
           /\ UNCHANGED <<realNums_, reals_>>
  <2>1. emptyReal' \in EmptyReal
    BY <1>1 DEF EmptyReal
  <2> QED BY <1>1, <2>1, ReadKeepsPool
<1>2. CASE decreaseRefCountForReal(numToReals_[n])
  BY <1>2, DecreaseKeepsPool
<1> QED BY <1>1, <1>2 DEF releaseNum

(* The number increaseRefCountForReal returns is a real's or MaxReals. *)
LEMMA NumForType ==
  ASSUME PoolType, NEW a \in Addr
  PROVE  NumFor(a) \in RealNum \cup {MaxReals}
<1>1. CASE Known(a)
  BY <1>1 DEF NumFor, PoolType, RealMeta, Known
<1>2. CASE ~Known(a) /\ realNums_ = <<>>
  BY <1>2 DEF NumFor
<1>3. CASE ~Known(a) /\ realNums_ # <<>>
  BY <1>3, HeadTailProperties DEF NumFor, PoolType
<1> QED BY <1>1, <1>2, <1>3
-----------------------------------------------------------------------------
(* VIP numbers *)

VipInv == VipType /\ VipNumberConservation

LEMMA VipUnchanged == VipInv /\ UNCHANGED vipVars => VipInv'
BY DEF VipInv, VipType, VipNumberConservation, vipVars, HasVip

(* A step that gives every VIP a new object with the same number keeps the
   free list of VIP numbers right.                                         *)
LEMMA SameNumbersKeepVips ==
  ASSUME VipInv, UNCHANGED vipNums_, VipType',
         \A v \in VipKey : vips_'[v].num = vips_[v].num /\ (HasVip(v)' <=> HasVip(v))
  PROVE  VipInv'
BY DEF VipInv, VipNumberConservation

(* addVip takes the front of the free list. *)
LEMMA AddVipKeepsVips ==
  ASSUME VipInv, NEW v \in VipKey, NEW flags \in SUBSET VipFlag, addVip(v, flags)
  PROVE  VipInv'
<1> USE ConfigAssumption
<1> DEFINE n == Head(vipNums_)
<1>1. /\ n \in VipNum /\ Len(vipNums_) \in Nat \ {0} /\ n = vipNums_[1]
      /\ Len(vipNums_') = Len(vipNums_) - 1
      /\ vipNums_' \in Seq(VipNum)
      /\ \A i \in 1 .. Len(vipNums_') : vipNums_'[i] = vipNums_[i + 1]
  BY HeadTailProperties, EmptySeq DEF addVip, VipInv, VipType
<1> HIDE DEF n
<1>2. [NoVip EXCEPT !.num = n, !.flags = flags] \in VipObject
  BY <1>1 DEF NoVip, VipObject
<1>3. /\ vips_'[v] \in VipObject /\ vips_'[v].num = n
      /\ \A w \in VipKey : w # v => vips_'[w] = vips_[w]
      /\ vips_' \in [VipKey -> VipObject \cup {NoVip}]
  BY <1>2 DEF addVip, VipInv, VipType, n, NoVip
<1>4. /\ HasVip(v)' /\ ~HasVip(v)
      /\ \A w \in VipKey : w # v => (HasVip(w)' <=> HasVip(w)) /\ vips_'[w].num = vips_[w].num
  <2>1. NoVip.num = -1 /\ n # -1
    BY <1>1 DEF NoVip
  <2>2. vips_'[v] # NoVip
    BY <2>1, <1>3
  <2> QED BY <1>3, <2>2 DEF HasVip, addVip
<1>5. \A w \in VipKey : HasVip(w) => vips_[w].num # n
  BY <1>1 DEF VipInv, VipNumberConservation
<1>6. \A i, j \in 1 .. Len(vipNums_) : vipNums_[i] = vipNums_[j] => i = j
  BY DEF VipInv, VipNumberConservation
<1>7. \A i, j \in 1 .. Len(vipNums_') : vipNums_'[i] = vipNums_'[j] => i = j
  <2> SUFFICES ASSUME NEW i \in 1 .. Len(vipNums_'), NEW j \in 1 .. Len(vipNums_'),
                      vipNums_'[i] = vipNums_'[j]
               PROVE i = j
    OBVIOUS
  <2>1. i + 1 \in 1 .. Len(vipNums_) /\ j + 1 \in 1 .. Len(vipNums_)
    <3>1. /\ Len(vipNums_) \in Nat \ {0} /\ Len(vipNums_') = Len(vipNums_) - 1
          /\ i \in 1 .. Len(vipNums_') /\ j \in 1 .. Len(vipNums_')
      BY <1>1
    <3> QED BY ONLY <3>1
  <2>2. vipNums_[i + 1] = vipNums_[j + 1]
    BY <1>1
  <2>3. i + 1 = j + 1
    BY <1>6, <2>1, <2>2
  <2> QED BY <2>3
<1>8. \A w, x \in VipKey : HasVip(w)' /\ HasVip(x)' /\ vips_'[w].num = vips_'[x].num => w = x
  BY <1>3, <1>4, <1>5 DEF VipInv, VipNumberConservation
<1>9. ASSUME NEW w \in VipKey, NEW i \in 1 .. Len(vipNums_'), HasVip(w)'
      PROVE  vips_'[w].num # vipNums_'[i]
  <2>0. /\ i + 1 \in 1 .. Len(vipNums_) /\ 1 \in 1 .. Len(vipNums_) /\ i + 1 # 1
        /\ vipNums_'[i] = vipNums_[i + 1]
    <3>1. /\ Len(vipNums_) \in Nat \ {0} /\ Len(vipNums_') = Len(vipNums_) - 1
          /\ i \in 1 .. Len(vipNums_')
      BY <1>1
    <3>2. i + 1 \in 1 .. Len(vipNums_) /\ 1 \in 1 .. Len(vipNums_) /\ i + 1 # 1
      BY ONLY <3>1
    <3> QED BY <3>1, <3>2, <1>1
  <2>1. CASE w = v
    <3>1. vipNums_[i + 1] # vipNums_[1]
      BY <1>6, <2>0
    <3> QED BY <2>0, <2>1, <3>1, <1>1, <1>3
  <2>2. CASE w # v
    <3>1. HasVip(w) /\ vips_'[w].num = vips_[w].num
      BY <1>9, <2>2, <1>4
    <3> QED BY <2>0, <3>1 DEF VipInv, VipNumberConservation
  <2> QED BY <2>1, <2>2
<1>10. ASSUME NEW m \in VipNum
       PROVE (\E i \in 1 .. Len(vipNums_') : vipNums_'[i] = m) \/
             (\E w \in VipKey : HasVip(w)' /\ vips_'[w].num = m)
  <2>1. CASE m = n
    BY <2>1, <1>3, <1>4
  <2>2. CASE m # n /\ \E i \in 1 .. Len(vipNums_) : vipNums_[i] = m
    <3>1. PICK i \in 1 .. Len(vipNums_) : vipNums_[i] = m
      BY <2>2
    <3>2. i - 1 \in 1 .. Len(vipNums_') /\ (i - 1) + 1 = i
      BY <3>1, <2>2, <1>1
    <3> QED BY <3>1, <3>2, <1>1
  <2>3. CASE \E w \in VipKey : HasVip(w) /\ vips_[w].num = m
    BY <2>3, <1>4
  <2> QED BY <2>1, <2>2, <2>3 DEF VipInv, VipNumberConservation
<1> QED BY <1>1, <1>3, <1>7, <1>8, <1>9, <1>10 DEF VipInv, VipType, VipNumberConservation

(* delVip puts the number of the VIP at the back of the free list. *)
LEMMA DelVipKeepsVips ==
  ASSUME VipInv, CallOK, delVipDone
  PROVE  VipInv'
<1> USE ConfigAssumption
<1>0. call.vip \in VipKey /\ HasVip(call.vip)
  BY DEF delVipDone, CallOK, CallType, Idle, Crashed, ModifyRealsCall, DelVipCall,
         ClearSrcCall, QuicCall
<1>1. PICK v \in VipKey : v = call.vip /\ HasVip(v)
  BY <1>0
<1> DEFINE n == vips_[v].num
<1>2. vips_[v] \in VipObject /\ n \in VipNum
  BY <1>1 DEF VipInv, VipType, HasVip, VipObject
<1>3. /\ Len(vipNums_) \in Nat
      /\ vipNums_' \in Seq(VipNum)
      /\ Len(vipNums_') = Len(vipNums_) + 1
      /\ vipNums_'[Len(vipNums_) + 1] = n
      /\ \A i \in 1 .. Len(vipNums_) : vipNums_'[i] = vipNums_[i]
  BY <1>1, <1>2, AppendProperties DEF VipInv, VipType, delVipDone
<1>4. /\ vips_' \in [VipKey -> VipObject \cup {NoVip}]
      /\ ~HasVip(v)'
      /\ \A w \in VipKey : w # v => (HasVip(w)' <=> HasVip(w)) /\ vips_'[w] = vips_[w]
  BY <1>1 DEF VipInv, VipType, delVipDone, HasVip
<1>5. /\ \A i \in 1 .. Len(vipNums_) : vipNums_[i] # n
      /\ \A w \in VipKey : HasVip(w) /\ w # v => vips_[w].num # n
  BY <1>1 DEF VipInv, VipNumberConservation
<1> HIDE DEF n
<1>6. ASSUME NEW i \in 1 .. Len(vipNums_'), NEW j \in 1 .. Len(vipNums_'),
             vipNums_'[i] = vipNums_'[j]
      PROVE  i = j
  <2>1. CASE i \in 1 .. Len(vipNums_) /\ j \in 1 .. Len(vipNums_)
    <3>1. vipNums_[i] = vipNums_[j]
      BY <2>1, <1>3, <1>6
    <3> QED BY <2>1, <3>1 DEF VipInv, VipNumberConservation
  <2>2. CASE i \in 1 .. Len(vipNums_) /\ j = Len(vipNums_) + 1
    BY <2>2, <1>3, <1>5, <1>6
  <2>3. CASE i = Len(vipNums_) + 1 /\ j \in 1 .. Len(vipNums_)
    BY <2>3, <1>3, <1>5, <1>6
  <2> QED BY <2>1, <2>2, <2>3, <1>3
<1>7. \A w, x \in VipKey : HasVip(w)' /\ HasVip(x)' /\ vips_'[w].num = vips_'[x].num => w = x
  BY <1>4 DEF VipInv, VipNumberConservation
<1>8. ASSUME NEW w \in VipKey, NEW i \in 1 .. Len(vipNums_'), HasVip(w)'
      PROVE  vips_'[w].num # vipNums_'[i]
  <2>1. w # v /\ HasVip(w) /\ vips_'[w] = vips_[w]
    BY <1>4, <1>8
  <2>2. CASE i \in 1 .. Len(vipNums_)
    <3>1. vips_[w].num # vipNums_[i]
      BY <2>1, <2>2 DEF VipInv, VipNumberConservation
    <3> QED BY <2>1, <2>2, <3>1, <1>3
  <2>3. CASE i = Len(vipNums_) + 1
    <3>1. vips_[w].num # n
      BY <2>1, <1>5
    <3> QED BY <2>1, <2>3, <3>1, <1>3
  <2> QED BY <2>2, <2>3, <1>3
<1>9. ASSUME NEW m \in VipNum
      PROVE (\E i \in 1 .. Len(vipNums_') : vipNums_'[i] = m) \/
            (\E w \in VipKey : HasVip(w)' /\ vips_'[w].num = m)
  <2>1. CASE m = n
    BY <2>1, <1>3
  <2>2. CASE \E i \in 1 .. Len(vipNums_) : vipNums_[i] = m
    BY <2>2, <1>3
  <2>3. CASE m # n /\ \E w \in VipKey : HasVip(w) /\ vips_[w].num = m
    BY <2>3, <1>4 DEF n
  <2> QED BY <2>1, <2>2, <2>3 DEF VipInv, VipNumberConservation
<1> QED BY <1>3, <1>4, <1>6, <1>7, <1>8, <1>9 DEF VipInv, VipType, VipNumberConservation
-----------------------------------------------------------------------------
(* The call in progress *)

LEMMA CallFields ==
  ASSUME CallOK
  PROVE  /\ call.op = "modifyReals" => call \in ModifyRealsCall /\ HasVip(call.vip)
         /\ call.op = "delVip" => call \in DelVipCall /\ HasVip(call.vip)
         /\ call.op = "clearSrc" => call \in ClearSrcCall
         /\ call.op = "quic" => call \in QuicCall
BY DEF CallOK, CallType, Idle, Crashed, ModifyRealsCall, DelVipCall, ClearSrcCall,
       QuicCall

LEMMA IdleOK == call' \in {Idle, Crashed} => CallOK'
BY DEF CallOK, CallType, Idle, Crashed

(* A call that works on no VIP, or on one that stays, keeps CallOK. *)
LEMMA CallStays ==
  ASSUME CallOK, UNCHANGED call,
         \A v \in VipKey : HasVip(v) => HasVip(v)'
  PROVE  CallOK'
<1>1. call.op \in {"modifyReals", "delVip"} => call.vip \in VipKey
  BY CallFields DEF ModifyRealsCall, DelVipCall
<1>2. ASSUME call.op \in {"modifyReals", "delVip"} PROVE HasVip(call.vip)'
  <2>1. PICK v \in VipKey : v = call.vip /\ HasVip(v)
    BY <1>1, <1>2 DEF CallOK
  <2>2. HasVip(v)' /\ v = call'.vip
    BY <2>1
  <2> QED BY <2>2 DEF HasVip
<1> QED BY <1>2 DEF CallOK

(* A batch is a sequence. *)
LEMMA BatchIsSeq ==
  ASSUME NEW S, NEW b \in Batches(S)
  PROVE  b \in Seq(S) /\ b # <<>>
<1>1. PICK k \in 1 .. MaxBatch : b \in [1 .. k -> S]
  BY DEF Batches
<1>2. k \in Nat /\ k # 0
  BY <1>1, CallerAssumption
<1> QED BY <1>1, <1>2
-----------------------------------------------------------------------------
(* Kernel maps *)

LEMMA OutcomesAreBoolean == \A good : Outcomes(good) \subseteq BOOLEAN
BY DEF Outcomes

LEMMA UpdateVipMapTypes ==
  ASSUME KernelType, NEW v \in VipKey,
         NEW meta \in [num : VipNum, flags : SUBSET VipFlag] \cup {Absent},
         updateVipMap(v, meta),
         UNCHANGED <<reals, server_id_map, lpm_src, ch_rings>>
  PROVE  KernelType'
BY DEF KernelType, updateVipMap, countFailure, KernelMap

LEMMA UpdateRealsMapTypes ==
  ASSUME reals \in [RealNum -> [address : Addr, flags : SUBSET RealFlag] \cup {Absent}],
         NEW a \in Addr, NEW n \in RealNum, NEW flags \in SUBSET RealFlag, NEW ok,
         updateRealsMap(a, n, flags, ok)
  PROVE  reals' \in [RealNum -> [address : Addr, flags : SUBSET RealFlag] \cup {Absent}]
BY DEF updateRealsMap

(* A first use of a real writes a well-formed element into the reals map. *)
LEMMA IncreaseKeepsReals ==
  ASSUME KernelType, PoolType, NEW a \in Addr, NEW flags \in SUBSET RealFlag, NEW ok,
         increaseRefCountForReal(a, flags, ok)
  PROVE  reals' \in [RealNum -> [address : Addr, flags : SUBSET RealFlag] \cup {Absent}]
<1>1. CASE UNCHANGED reals
  BY <1>1 DEF KernelType
<1>2. CASE realNums_ # <<>> /\ updateRealsMap(a, Head(realNums_), flags, ok)
  <2>1. Head(realNums_) \in RealNum
    BY <1>2, HeadTailProperties DEF PoolType
  <2> QED BY <1>2, <2>1, UpdateRealsMapTypes DEF KernelType
<1> QED BY <1>1, <1>2 DEF increaseRefCountForReal

LEMMA ProgramHashRingTypes ==
  ASSUME KernelType, NEW ring, programHashRing(ring),
         UNCHANGED <<vip_map, reals, server_id_map, lpm_src>>
  PROVE  KernelType'
BY DEF KernelType, programHashRing, countFailure, KernelMap

LEMMA KernelUnchanged == KernelType /\ UNCHANGED kernelVars => KernelType'
BY DEF KernelType, kernelVars

LEMMA UserUnchanged == UserType /\ UNCHANGED userVars => UserType'
BY DEF UserType, userVars
-----------------------------------------------------------------------------
(* The inductive invariant: NumberConservation needs IndexAgrees, because
   delVip and the source rules release a real through numToReals_, and the
   types of the call in progress, because its steps index the tables with
   what the call carries.                                                  *)
IndInv == PoolInv /\ VipInv /\ UserType /\ KernelType /\ CallOK

LEMMA InitIndInv == Init => IndInv
<1> SUFFICES ASSUME Init PROVE IndInv
  OBVIOUS
<1> USE ConfigAssumption, DataAssumption
<1>1. PoolType /\ VipType
  <2>1. realNums_ \in Seq(RealNum) /\ Len(realNums_) = MaxReals - 1
    BY DEF Init
  <2>2. vipNums_ \in Seq(VipNum) /\ Len(vipNums_) = MaxVips
    BY DEF Init
  <2> QED BY <2>1, <2>2 DEF Init, PoolType, VipType, EmptyReal
<1>2. \A a \in Addr : ~Known(a)
  BY DEF Init, Known
<1>3. \A v \in VipKey : ~HasVip(v)
  BY DEF Init, HasVip
<1>4. NumberConservation
  <2>1. Len(realNums_) = MaxReals - 1 /\ \A i \in 1 .. MaxReals - 1 : realNums_[i] = i
    BY DEF Init
  <2> QED BY <2>1, <1>2 DEF NumberConservation
<1>5. IndexAgrees
  BY <1>2 DEF Init, IndexAgrees
<1>6. VipNumberConservation
  <2>1. Len(vipNums_) = MaxVips /\ \A i \in 1 .. MaxVips : vipNums_[i] = i - 1
    BY DEF Init
  <2>2. \A n \in VipNum : n + 1 \in 1 .. MaxVips /\ (n + 1) - 1 = n
    OBVIOUS
  <2>3. \A n \in VipNum : vipNums_[n + 1] = n
    BY <2>1, <2>2
  <2> QED BY <2>1, <2>2, <2>3, <1>3 DEF VipNumberConservation
<1>7. UserType /\ KernelType
  BY DEF Init, UserType, KernelType
<1>8. CallOK
  BY DEF Init, CallOK, CallType, Idle
<1> QED BY <1>1, <1>4, <1>5, <1>6, <1>7, <1>8 DEF IndInv, PoolInv, VipInv

(* A call that only starts a loop. *)
LEMMA StartKeepsIndInv ==
  ASSUME IndInv, CallOK', UNCHANGED <<poolVars, vipVars, userVars, kernelVars>>
  PROVE  IndInv'
BY PoolUnchanged, VipUnchanged, UserUnchanged, KernelUnchanged DEF IndInv

LEMMA ModifyRealKeeps ==
  ASSUME IndInv, NEW a \in Addr, NEW flags \in SUBSET RealFlag, NEW set \in BOOLEAN,
         modifyReal(a, flags, set)
  PROVE  IndInv'
<1> DEFINE new == IF set THEN reals_[a].flags \cup flags ELSE reals_[a].flags \ flags
<1>1. reals_[a] \in RealMeta
  BY DEF IndInv, PoolInv, PoolType, modifyReal, Known
<1>2. new \in SUBSET RealFlag /\ reals_[a].num \in RealNum
  BY <1>1 DEF RealMeta
<1>3. /\ reals_' = [reals_ EXCEPT ![a].flags = new]
      /\ UNCHANGED <<realNums_, numToReals_, emptyReal>>
  BY DEF modifyReal
<1>4. \E ok \in Outcomes(TRUE) :
        updateRealsMap(a, reals_[a].num, new, ok) /\ countFailure("reals", ok)
  BY DEF modifyReal
<1> HIDE DEF new
<1>5. PoolInv'
  <2>1. reals_'[a] = [reals_[a] EXCEPT !.flags = new]
    BY <1>3 DEF IndInv, PoolInv, PoolType
  <2>2. /\ reals_'[a] \in RealMeta /\ reals_'[a].num = reals_[a].num
        /\ reals_'[a] # NoReal
    BY <2>1, <1>1, <1>2 DEF RealMeta, NoReal
  <2>3. \A b \in Addr : b # a => reals_'[b] = reals_[b]
    BY <1>3 DEF IndInv, PoolInv, PoolType
  <2>4. PoolType'
    BY <1>3, <2>2 DEF IndInv, PoolInv, PoolType
  <2>5. \A b \in Addr : (Known(b)' <=> Known(b)) /\ reals_'[b].num = reals_[b].num
    BY <2>2, <2>3 DEF Known, modifyReal
  <2>6. NumberConservation'
    BY <1>3, <2>5 DEF NumberConservation, IndInv, PoolInv
  <2>7. IndexAgrees'
    BY <1>3, <2>5 DEF IndexAgrees, IndInv, PoolInv
  <2> QED BY <2>4, <2>6, <2>7 DEF PoolInv
<1>6. KernelType'
  <2>1. reals' \in [RealNum -> [address : Addr, flags : SUBSET RealFlag] \cup {Absent}]
    BY <1>2, <1>4, UpdateRealsMapTypes DEF IndInv, KernelType
  <2> QED BY <2>1, <1>4 DEF IndInv, KernelType, countFailure, KernelMap, modifyReal
<1>7. VipInv' /\ UserType' /\ CallOK'
  BY VipUnchanged, UserUnchanged, IdleOK DEF IndInv, modifyReal
<1> QED BY <1>5, <1>6, <1>7 DEF IndInv

LEMMA AddVipKeeps ==
  ASSUME IndInv, NEW v \in VipKey, NEW flags \in SUBSET VipFlag, addVip(v, flags)
  PROVE  IndInv'
<1>1. VipInv'
  BY AddVipKeepsVips DEF IndInv
<1>2. KernelType'
  <2>1. Head(vipNums_) \in VipNum
    BY HeadTailProperties DEF IndInv, VipInv, VipType, addVip
  <2>2. [num |-> Head(vipNums_), flags |-> flags]
          \in [num : VipNum, flags : SUBSET VipFlag] \cup {Absent}
    BY <2>1
  <2>3. updateVipMap(v, [num |-> Head(vipNums_), flags |-> flags])
    BY DEF addVip
  <2> HIDE DEF VipNum
  <2> QED BY <2>2, <2>3, UpdateVipMapTypes DEF IndInv, addVip
<1>3. PoolInv' /\ UserType' /\ CallOK'
  BY PoolUnchanged, UserUnchanged, IdleOK DEF IndInv, addVip
<1> QED BY <1>1, <1>2, <1>3 DEF IndInv

(* A VIP's object is replaced by one with the same number. *)
LEMMA SameNumberObject ==
  ASSUME VipInv, NEW v \in VipKey, HasVip(v), NEW obj \in VipObject,
         obj.num = vips_[v].num, vips_' = [vips_ EXCEPT ![v] = obj], UNCHANGED vipNums_
  PROVE  VipInv' /\ \A w \in VipKey : HasVip(w)' <=> HasVip(w)
<1>1. VipType'
  BY DEF VipInv, VipType
<1>2. obj # NoVip
  <2>1. obj.num \in VipNum /\ NoVip.num = -1
    BY DEF VipObject, NoVip
  <2> QED BY <2>1, ConfigAssumption
<1>3. vips_'[v] = obj /\ \A w \in VipKey : w # v => vips_'[w] = vips_[w]
  BY DEF VipInv, VipType
<1>4. \A w \in VipKey : vips_'[w].num = vips_[w].num /\ (HasVip(w)' <=> HasVip(w))
  BY <1>2, <1>3 DEF HasVip
<1> QED BY <1>1, <1>4, SameNumbersKeepVips

LEMMA ModifyVipKeeps ==
  ASSUME IndInv, NEW v \in VipKey, NEW flags \in SUBSET VipFlag, NEW set \in BOOLEAN,
         modifyVip(v, flags, set)
  PROVE  IndInv'
<1> DEFINE new == IF set THEN vips_[v].flags \cup flags ELSE vips_[v].flags \ flags
<1> DEFINE obj == [vips_[v] EXCEPT !.flags = new]
<1>1. HasVip(v) /\ vips_[v] \in VipObject
  BY DEF IndInv, VipInv, VipType, modifyVip, HasVip
<1>2. new \in SUBSET VipFlag /\ vips_[v].num \in VipNum
  BY <1>1 DEF VipObject
<1>3. /\ vips_' = [vips_ EXCEPT ![v] = obj]
      /\ updateVipMap(v, [num |-> vips_[v].num, flags |-> new])
  BY DEF modifyVip
<1>4. obj \in VipObject /\ obj.num = vips_[v].num
  <2> HIDE DEF new
  <2> QED BY <1>1, <1>2 DEF VipObject
<1> HIDE DEF obj, new
<1>5. VipInv' /\ \A w \in VipKey : HasVip(w)' <=> HasVip(w)
  BY <1>1, <1>3, <1>4, SameNumberObject DEF IndInv, modifyVip
<1>6. KernelType'
  <2>1. [num |-> vips_[v].num, flags |-> new]
          \in [num : VipNum, flags : SUBSET VipFlag] \cup {Absent}
    BY <1>2
  <2> HIDE DEF VipNum
  <2> QED BY <1>3, <2>1, UpdateVipMapTypes DEF IndInv, modifyVip
<1>7. PoolInv' /\ UserType' /\ CallOK'
  BY PoolUnchanged, UserUnchanged, IdleOK DEF IndInv, modifyVip
<1> QED BY <1>5, <1>6, <1>7 DEF IndInv

(* A ring holds numbers of its endpoints. *)
LEMMA RingIsOfEndpoints ==
  ASSUME NEW func, NEW weight, NEW S, NEW size,
         NEW ring \in Rings(func, Endpoints(weight, S), size)
  PROVE  ring \subseteq S /\ ring # {}
BY DEF Rings, Endpoints

LEMMA ChangeHashKeeps ==
  ASSUME IndInv, NEW v \in VipKey, NEW func, changeHashFunctionForVip(v, func)
  PROVE  IndInv'
<1>1. HasVip(v) /\ vips_[v] \in VipObject
  BY DEF IndInv, VipInv, VipType, changeHashFunctionForVip, HasVip
<1>2. /\ \/ UNCHANGED vips_
         \/ \E new \in SUBSET RealNum : vips_' = [vips_ EXCEPT ![v].ring = new]
      /\ \E new : programHashRing(new)
  <2>1. recalculateHashRing(v, func) \subseteq SUBSET RealNum
    BY RingIsOfEndpoints DEF recalculateHashRing, VipReals
  <2> QED BY <2>1 DEF changeHashFunctionForVip
<1>3. VipInv'
  <2>1. CASE UNCHANGED vips_
    BY <2>1, VipUnchanged DEF IndInv, changeHashFunctionForVip, vipVars
  <2>2. CASE \E new \in SUBSET RealNum : vips_' = [vips_ EXCEPT ![v].ring = new]
    <3>1. PICK new \in SUBSET RealNum : vips_' = [vips_ EXCEPT ![v].ring = new]
      BY <2>2
    <3> DEFINE obj == [vips_[v] EXCEPT !.ring = new]
    <3>2. obj \in VipObject /\ obj.num = vips_[v].num /\ vips_' = [vips_ EXCEPT ![v] = obj]
      BY <1>1, <3>1 DEF VipObject
    <3> HIDE DEF obj
    <3> QED BY <1>1, <3>2, SameNumberObject DEF IndInv, changeHashFunctionForVip
  <2> QED BY <1>2, <2>1, <2>2
<1>4. KernelType'
  BY <1>2, ProgramHashRingTypes DEF IndInv, changeHashFunctionForVip
<1>5. PoolInv' /\ UserType' /\ CallOK'
  BY PoolUnchanged, UserUnchanged, IdleOK DEF IndInv, changeHashFunctionForVip
<1> QED BY <1>3, <1>4, <1>5 DEF IndInv

(* The calls that only read: rules, reals of a VIP, statistics *)
LEMMA GetterKeeps ==
  ASSUME IndInv, \/ getSrcRoutingRule
                 \/ \E v \in VipKey : getRealsForVip(v) \/ getVipLruMissStats(v)
  PROVE  IndInv'
<1>1. /\ \E nums : numToReals_' = ReadThrough(nums)
      /\ UNCHANGED <<realNums_, reals_, vipVars, userVars, kernelVars>> /\ call' = Idle
  BY DEF getSrcRoutingRule, getRealsForVip, getVipLruMissStats
<1>2. emptyReal \in EmptyReal
  BY DEF IndInv, PoolInv, PoolType
<1>3. emptyReal' \in EmptyReal
  BY <1>2 DEF getSrcRoutingRule, getRealsForVip, getVipLruMissStats, EmptyReal
<1>4. PoolInv'
  BY <1>1, <1>3, ReadKeepsPool DEF IndInv
<1> QED BY <1>1, <1>4, VipUnchanged, UserUnchanged, KernelUnchanged, IdleOK DEF IndInv

LEMMA DelVipKeeps ==
  ASSUME IndInv, NEW v \in VipKey, delVip(v)
  PROVE  IndInv'
<1>1. call' \in DelVipCall /\ call'.op = "delVip" /\ call'.vip = v
  BY DEF delVip, DelVipCall, VipReals
<1>2. HasVip(v)'
  BY DEF delVip, HasVip, vipVars
<1>3. CallOK'
  <2>1. HasVip(call.vip)'
    BY <1>1, <1>2 DEF HasVip
  <2> QED BY <1>1, <2>1 DEF CallOK, CallType
<1> QED BY <1>3, StartKeepsIndInv DEF delVip

LEMMA DelVipRealKeeps ==
  ASSUME IndInv, delVipReal
  PROVE  IndInv'
<1>1. call \in DelVipCall /\ HasVip(call.vip)
  BY CallFields DEF IndInv, delVipReal
<1>2. PICK n \in call.left : releaseNum(n) /\ call' = [call EXCEPT !.left = @ \ {n}]
  BY DEF delVipReal
<1>3. n \in RealNum
  BY <1>1, <1>2 DEF DelVipCall
<1>4. PoolInv'
  BY <1>2, <1>3, ReleaseKeepsPool DEF IndInv
<1>5. call' \in DelVipCall /\ call'.vip = call.vip
  BY <1>1, <1>2 DEF DelVipCall
<1>6. CallOK'
  <2>1. HasVip(call.vip)'
    BY <1>1, <1>5 DEF HasVip, delVipReal, vipVars
  <2> QED BY <1>5, <2>1 DEF CallOK, CallType
<1>7. VipInv' /\ UserType' /\ KernelType'
  BY VipUnchanged, UserUnchanged, KernelUnchanged DEF IndInv, delVipReal
<1> QED BY <1>4, <1>6, <1>7 DEF IndInv

LEMMA DelVipDoneKeeps ==
  ASSUME IndInv, delVipDone
  PROVE  IndInv'
<1>1. call.vip \in VipKey
  BY CallFields DEF IndInv, delVipDone, DelVipCall
<1>2. VipInv'
  BY DelVipKeepsVips DEF IndInv
<1>3. KernelType'
  <2>1. updateVipMap(call.vip, Absent)
    BY DEF delVipDone
  <2> QED BY <1>1, <2>1, UpdateVipMapTypes DEF IndInv, delVipDone
<1>4. PoolInv' /\ UserType' /\ CallOK'
  BY PoolUnchanged, UserUnchanged, IdleOK DEF IndInv, delVipDone
<1> QED BY <1>2, <1>3, <1>4 DEF IndInv

LEMMA ModifyRealsStartKeeps ==
  ASSUME IndInv, NEW v \in VipKey, NEW action \in Action, NEW b \in RealBatches(action),
         modifyRealsForVip(action, b, v)
  PROVE  IndInv'
<1>1. DelReal \subseteq NewReal
  <2>1. (CHOOSE w \in Weight : TRUE) \in Weight
    BY DataAssumption
  <2> QED BY <2>1 DEF DelReal, NewReal
<1>2. b \in Seq(NewReal)
  <2>1. b \in Batches(NewReal) \/ b \in Batches(DelReal)
    BY DEF RealBatches
  <2>2. Batches(DelReal) \subseteq Batches(NewReal)
    BY <1>1 DEF Batches
  <2> QED BY <2>1, <2>2, BatchIsSeq
<1>3. <<>> \in Seq(UpdateReal)
  OBVIOUS
<1>4. call' \in ModifyRealsCall /\ call'.vip = v
  BY <1>2, <1>3 DEF modifyRealsForVip, ModifyRealsCall, VipReals
<1>5. HasVip(call.vip)'
  BY <1>4 DEF modifyRealsForVip, HasVip, vipVars
<1>6. CallOK'
  BY <1>4, <1>5 DEF CallOK, CallType
<1> QED BY <1>6, StartKeepsIndInv DEF modifyRealsForVip

(* The next element of a batch for a VIP, and what is left after it. *)
LEMMA NextRealType ==
  ASSUME CallOK, call.op = "modifyReals", call.todo # <<>>
  PROVE  /\ call \in ModifyRealsCall
         /\ NextReal \in NewReal
         /\ Tail(call.todo) \in Seq(NewReal)
         /\ HasVip(call.vip)
<1>1. call \in ModifyRealsCall /\ HasVip(call.vip)
  BY CallFields
<1>2. call.todo \in Seq(NewReal)
  BY <1>1 DEF ModifyRealsCall
<1> QED BY <1>1, <1>2, HeadTailProperties DEF NextReal

(* A batch call goes on with well-formed fields and the same VIP. *)
LEMMA ModifyRealsGoesOn ==
  ASSUME call \in ModifyRealsCall, HasVip(call.vip), UNCHANGED vips_,
         call' \in ModifyRealsCall, call'.vip = call.vip
  PROVE  CallOK'
BY DEF CallOK, CallType, HasVip

LEMMA DelRealKeeps ==
  ASSUME IndInv, delRealStep
  PROVE  IndInv'
<1> DEFINE a == NextReal.address
<1> DEFINE n == reals_[a].num
<1>1. /\ call \in ModifyRealsCall /\ NextReal \in NewReal
      /\ Tail(call.todo) \in Seq(NewReal) /\ HasVip(call.vip)
  BY NextRealType DEF IndInv, delRealStep
<1>2. a \in Addr /\ NextReal.weight \in Weight
  BY <1>1 DEF NewReal
<1>3. UNCHANGED vips_ /\ VipInv' /\ UserType' /\ KernelType'
  BY VipUnchanged, UserUnchanged, KernelUnchanged DEF IndInv, delRealStep, vipVars
<1>4. CASE /\ call' = [call EXCEPT !.todo = Tail(@)]
           /\ UNCHANGED poolVars
  <2>1. call' \in ModifyRealsCall /\ call'.vip = call.vip
    BY <1>1, <1>4 DEF ModifyRealsCall
  <2> QED BY <1>1, <1>3, <1>4, <2>1, PoolUnchanged, ModifyRealsGoesOn DEF IndInv
<1>5. CASE /\ Known(a)
           /\ decreaseRefCountForReal(a)
           /\ call' = [call EXCEPT !.todo = Tail(@),
                         !.ureals = Append(@, [num |-> n, weight |-> NextReal.weight])]
  <2>1. n \in RealNum
    BY <1>2, <1>5 DEF IndInv, PoolInv, PoolType, Known, RealMeta
  <2>2. Append(call.ureals, [num |-> n, weight |-> NextReal.weight]) \in Seq(UpdateReal)
    BY <1>1, <1>2, <2>1 DEF ModifyRealsCall, UpdateReal
  <2>3. call' \in ModifyRealsCall /\ call'.vip = call.vip
    BY <1>1, <1>5, <2>2 DEF ModifyRealsCall
  <2>4. PoolInv'
    BY <1>5, DecreaseKeepsPool DEF IndInv
  <2> QED BY <1>1, <1>3, <2>3, <2>4, ModifyRealsGoesOn DEF IndInv
<1> QED BY <1>4, <1>5 DEF delRealStep

LEMMA AddRealKeeps ==
  ASSUME IndInv, addRealStep
  PROVE  IndInv'
<1> DEFINE a == NextReal.address
<1> DEFINE n == NumFor(a)
<1> DEFINE more == Append(call.ureals, [num |-> n, weight |-> NextReal.weight])
<1>1. /\ call \in ModifyRealsCall /\ NextReal \in NewReal
      /\ Tail(call.todo) \in Seq(NewReal) /\ HasVip(call.vip)
  BY NextRealType DEF IndInv, addRealStep
<1>2. a \in Addr /\ NextReal.weight \in Weight /\ NextReal.flags \in SUBSET RealFlag
  BY <1>1 DEF NewReal
<1>3. UNCHANGED vips_ /\ VipInv' /\ UserType'
  BY VipUnchanged, UserUnchanged DEF IndInv, addRealStep, vipVars
<1>4. UNCHANGED <<vip_map, server_id_map, lpm_src, ch_rings>>
  BY DEF addRealStep
<1>5. n \in RealNum => more \in Seq(UpdateReal)
  BY <1>1, <1>2 DEF ModifyRealsCall, UpdateReal
<1>6. n \in RealNum \cup {MaxReals}
  BY <1>2, NumForType DEF IndInv, PoolInv
<1>7. ASSUME NEW ok, increaseRefCountForReal(a, NextReal.flags, ok), ok \in BOOLEAN,
             bpfFailed' = bpfFailed \/ bpfFailed' = bpfFailed \cup {"reals"}
      PROVE  PoolInv' /\ KernelType'
  <2>1. PoolInv'
    BY <1>2, <1>7, IncreaseKeepsPool DEF IndInv
  <2>2. reals' \in [RealNum -> [address : Addr, flags : SUBSET RealFlag] \cup {Absent}]
    BY <1>2, <1>7, IncreaseKeepsReals DEF IndInv, PoolInv
  <2> QED BY <1>4, <1>7, <2>1, <2>2 DEF IndInv, KernelType, KernelMap
<1>8. CASE /\ Known(a)
           /\ call' = [call EXCEPT !.todo = Tail(@), !.ureals = more]
           /\ UNCHANGED <<poolVars, reals, bpfFailed>>
  <2>1. n \in RealNum
    BY <1>2, <1>8 DEF NumFor, IndInv, PoolInv, PoolType, Known, RealMeta
  <2>2. call' \in ModifyRealsCall /\ call'.vip = call.vip
    <3> HIDE DEF more
    <3> QED BY <1>1, <1>5, <1>8, <2>1 DEF ModifyRealsCall
  <2>3. PoolInv' /\ KernelType'
    BY <1>4, <1>8, PoolUnchanged, KernelUnchanged DEF IndInv, kernelVars
  <2> QED BY <1>1, <1>3, <2>2, <2>3, ModifyRealsGoesOn DEF IndInv
<1>9. CASE /\ Known(a)
           /\ increaseRefCountForReal(a, NextReal.flags, TRUE)
           /\ call' = [call EXCEPT !.todo = Tail(@), !.ureals = more,
                                   !.cur_reals = @ \cup {n}]
           /\ UNCHANGED bpfFailed
  <2>1. n \in RealNum
    BY <1>2, <1>9 DEF NumFor, IndInv, PoolInv, PoolType, Known, RealMeta
  <2>2. call' \in ModifyRealsCall /\ call'.vip = call.vip
    <3> HIDE DEF more, n
    <3> QED BY <1>1, <1>5, <1>9, <2>1 DEF ModifyRealsCall
  <2>3. PoolInv' /\ KernelType'
    BY <1>7, <1>9
  <2> QED BY <1>1, <1>3, <2>2, <2>3, ModifyRealsGoesOn DEF IndInv
<1>10. CASE /\ ~Known(a)
            /\ \E ok \in RealsOutcomes(a) :
                 /\ increaseRefCountForReal(a, NextReal.flags, ok)
                 /\ countFailure("reals", ok)
            /\ call' = [call EXCEPT !.todo = Tail(@),
                          !.ureals = IF n = MaxReals THEN @ ELSE more]
  <2>1. (IF n = MaxReals THEN call.ureals ELSE more) \in Seq(UpdateReal)
    <3> HIDE DEF more, n
    <3> QED BY <1>1, <1>5, <1>6 DEF ModifyRealsCall
  <2>2. call' \in ModifyRealsCall /\ call'.vip = call.vip
    <3> HIDE DEF more, n
    <3> QED BY <1>1, <1>10, <2>1 DEF ModifyRealsCall
  <2>3. PICK ok \in RealsOutcomes(a) : /\ increaseRefCountForReal(a, NextReal.flags, ok)
                                       /\ countFailure("reals", ok)
    BY <1>10
  <2>4. ok \in BOOLEAN
    BY <2>3, OutcomesAreBoolean DEF RealsOutcomes
  <2>5. bpfFailed' = bpfFailed \/ bpfFailed' = bpfFailed \cup {"reals"}
    BY <2>3 DEF countFailure
  <2>6. PoolInv' /\ KernelType'
    BY <1>7, <2>3, <2>4, <2>5
  <2> QED BY <1>1, <1>3, <2>2, <2>6, ModifyRealsGoesOn DEF IndInv
<1> QED BY <1>8, <1>9, <1>10 DEF addRealStep

(* What a batch leaves as the weight of a real is a weight: the last update of
   an updated real exists.                                                 *)
LEMMA NewWeightType ==
  ASSUME NEW v \in VipKey, vips_[v] \in VipObject, NEW action,
         NEW ureals \in Seq(UpdateReal)
  PROVE  NewWeight(v, action, ureals) \in [RealNum -> Weight \cup {NoWeight}]
<1> SUFFICES ASSUME NEW n \in RealNum
             PROVE  NewWeight(v, action, ureals)[n] \in Weight \cup {NoWeight}
  BY DEF NewWeight
<1>1. CASE n \notin UpdatedNums(ureals)
  BY <1>1 DEF NewWeight, VipObject
<1>2. CASE n \in UpdatedNums(ureals) /\ action = "DEL"
  BY <1>2 DEF NewWeight
<1>3. CASE n \in UpdatedNums(ureals) /\ action # "DEL"
  <2> DEFINE T == {i \in 1 .. Len(ureals) : ureals[i].num = n}
  <2> DEFINE k == Len(ureals)
  <2>1. k \in Nat /\ T \subseteq 1 .. k /\ T # {}
    BY <1>3 DEF UpdatedNums
  <2>2. \E i \in T : \A j \in i + 1 .. k : j \notin T
    <3> HIDE DEF T, k
    <3> QED BY <2>1, LastExists
  <2>3. \E i \in 1 .. Len(ureals) : /\ ureals[i].num = n
                                   /\ \A j \in i + 1 .. Len(ureals) : ureals[j].num # n
    <3>1. PICK i \in T : \A j \in i + 1 .. k : j \notin T
      BY <2>2
    <3>2. \A j \in i + 1 .. k : j \in 1 .. k
      BY <2>1, <3>1
    <3> QED BY <3>1, <3>2
  <2>4. LastUpdate(ureals, n) \in 1 .. Len(ureals)
    BY <2>3 DEF LastUpdate
  <2>5. \A i \in 1 .. Len(ureals) : ureals[i] \in UpdateReal
    BY ElementOfSeq
  <2>6. \A i \in 1 .. Len(ureals) : ureals[i].weight \in Weight
    BY <2>5 DEF UpdateReal
  <2> QED BY <1>3, <2>4, <2>6 DEF NewWeight
<1> QED BY <1>1, <1>2, <1>3

(* What the end of a batch makes of the VIP: a ring of its endpoints, or the
   ring it had when nothing changed or no endpoint is left.                  *)
LEMMA DoneVip ==
  ASSUME VipInv, modifyRealsDone, NEW v \in VipKey, v = call.vip, vips_[v] \in VipObject
  PROVE  \E r \in SUBSET RealNum :
           /\ vips_' = [vips_ EXCEPT ![v] = [vips_[v] EXCEPT
                          !.weight = NewWeight(v, call.action, call.ureals), !.ring = r]]
           /\ LET endpoints == getEndpoints(v, call.action, call.ureals)
              IN \/ DOMAIN endpoints = {} /\ r = vips_[v].ring
                 \/ r \in Rings("Maglev", endpoints, ChRingSize)
           /\ \E new : programHashRing(new)
           /\ UNCHANGED vipNums_
<1> DEFINE w == NewWeight(v, call.action, call.ureals)
<1> DEFINE endpoints == getEndpoints(v, call.action, call.ureals)
<1>1. vips_ \in [VipKey -> VipObject \cup {NoVip}] /\ vips_[v].ring \in SUBSET RealNum
  BY DEF VipInv, VipType, VipObject
<1>2. vips_[v] = [vips_[v] EXCEPT !.ring = vips_[v].ring]
  BY DEF VipObject
<1>3. \A r : [[vips_ EXCEPT ![v].weight = w] EXCEPT ![v].ring = r]
             = [vips_ EXCEPT ![v] = [vips_[v] EXCEPT !.weight = w, !.ring = r]]
  <2> HIDE DEF w
  <2> QED BY <1>1 DEF VipObject
<1>4. [vips_ EXCEPT ![v].weight = w]
        = [vips_ EXCEPT ![v] = [vips_[v] EXCEPT !.weight = w, !.ring = vips_[v].ring]]
  <2> HIDE DEF w
  <2>1. [vips_[v] EXCEPT !.weight = w, !.ring = vips_[v].ring]
          = [[vips_[v] EXCEPT !.ring = vips_[v].ring] EXCEPT !.weight = w]
    BY DEF VipObject
  <2>2. [vips_ EXCEPT ![v].weight = w] = [vips_ EXCEPT ![v] = [vips_[v] EXCEPT !.weight = w]]
    OBVIOUS
  <2>3. [[vips_[v] EXCEPT !.ring = vips_[v].ring] EXCEPT !.weight = w] = [vips_[v] EXCEPT !.weight = w]
    BY <1>2
  <2> QED BY <2>1, <2>2, <2>3
<1>5. \A r \in Rings("Maglev", endpoints, ChRingSize) : r \in SUBSET RealNum
  BY DEF Rings, getEndpoints, Endpoints
<1>6. \/ /\ DOMAIN endpoints = {}
         /\ vips_' = [vips_ EXCEPT ![v].weight = w]
         /\ programHashRing({})
      \/ \E new \in Rings("Maglev", endpoints, ChRingSize) :
           /\ vips_' = [[vips_ EXCEPT ![v].weight = w] EXCEPT ![v].ring = new]
           /\ programHashRing(new)
  BY DEF modifyRealsDone
<1>7. UNCHANGED vipNums_
  BY DEF modifyRealsDone
<1> HIDE DEF w, endpoints
<1>8. CASE /\ DOMAIN endpoints = {}
           /\ vips_' = [vips_ EXCEPT ![v].weight = w]
           /\ programHashRing({})
  <2>1. vips_[v].ring \in SUBSET RealNum
    BY <1>1
  <2> QED BY <1>4, <1>7, <1>8, <2>1 DEF w, endpoints
<1>9. CASE \E new \in Rings("Maglev", endpoints, ChRingSize) :
             /\ vips_' = [[vips_ EXCEPT ![v].weight = w] EXCEPT ![v].ring = new]
             /\ programHashRing(new)
  <2>1. PICK new \in Rings("Maglev", endpoints, ChRingSize) :
             /\ vips_' = [[vips_ EXCEPT ![v].weight = w] EXCEPT ![v].ring = new]
             /\ programHashRing(new)
    BY <1>9
  <2>2. new \in SUBSET RealNum
    BY <1>5
  <2> WITNESS new \in SUBSET RealNum
  <2> QED BY <1>3, <1>7, <2>1 DEF w, endpoints
<1> QED BY <1>6, <1>8, <1>9

LEMMA ModifyRealsDoneKeeps ==
  ASSUME IndInv, modifyRealsDone
  PROVE  IndInv'
<1>1. call \in ModifyRealsCall /\ HasVip(call.vip)
  BY CallFields DEF IndInv, modifyRealsDone
<1>2. PICK v \in VipKey : v = call.vip /\ HasVip(v)
  BY <1>1 DEF ModifyRealsCall
<1> DEFINE w == NewWeight(v, call.action, call.ureals)
<1>3. vips_[v] \in VipObject
  BY <1>2 DEF IndInv, VipInv, VipType, HasVip
<1>4. PICK r \in SUBSET RealNum :
        /\ vips_' = [vips_ EXCEPT ![v] = [vips_[v] EXCEPT !.weight = w, !.ring = r]]
        /\ \E new : programHashRing(new)
        /\ UNCHANGED vipNums_
  BY <1>2, <1>3, DoneVip DEF IndInv
<1>5. w \in [RealNum -> Weight \cup {NoWeight}]
  <2>1. call.ureals \in Seq(UpdateReal)
    BY <1>1 DEF ModifyRealsCall
  <2> QED BY <1>3, <2>1, NewWeightType
<1> HIDE DEF w
<1> DEFINE obj == [vips_[v] EXCEPT !.weight = w, !.ring = r]
<1>8. vips_' = [vips_ EXCEPT ![v] = obj]
  BY <1>4
<1>9. obj \in VipObject /\ obj.num = vips_[v].num
  BY <1>3, <1>4, <1>5 DEF VipObject
<1> HIDE DEF obj
<1>10. VipInv'
  BY <1>2, <1>4, <1>8, <1>9, SameNumberObject DEF IndInv
<1>11. KernelType'
  BY <1>4, ProgramHashRingTypes DEF IndInv, modifyRealsDone
<1>12. PoolInv' /\ UserType' /\ CallOK'
  BY PoolUnchanged, UserUnchanged, IdleOK DEF IndInv, modifyRealsDone
<1> QED BY <1>10, <1>11, <1>12 DEF IndInv

LEMMA AddSrcKeeps ==
  ASSUME IndInv, NEW s \in Src, NEW dst \in Addr, addSrcRoutingRule(s, dst)
  PROVE  IndInv'
<1> DEFINE n == NumFor(dst)
<1>1. n \in RealNum
  BY NumForType DEF IndInv, PoolInv, addSrcRoutingRule
<1> HIDE DEF n
<1>2. lpmSrcMapping_' = [lpmSrcMapping_ EXCEPT ![s] = n] /\ UNCHANGED quicMapping_
  BY DEF addSrcRoutingRule, n
<1>3. UserType'
  BY <1>1, <1>2, ConfigAssumption DEF IndInv, UserType
<1>4. PICK ok1 \in RealsOutcomes(dst), ok2 \in LpmOutcomes(s, n) :
        /\ increaseRefCountForReal(dst, {}, ok1)
        /\ modifyLpmSrcRule(s, n, ok2)
        /\ bpfFailed' = bpfFailed \cup (IF ok1 THEN {} ELSE {"reals"})
                                 \cup (IF ok2 THEN {} ELSE {"lpm_src"})
  BY DEF addSrcRoutingRule, n
<1>5. ok1 \in BOOLEAN
  BY <1>4, OutcomesAreBoolean DEF RealsOutcomes
<1>6. PoolInv'
  BY <1>4, <1>5, IncreaseKeepsPool DEF IndInv
<1>7. KernelType'
  <2>1. reals' \in [RealNum -> [address : Addr, flags : SUBSET RealFlag] \cup {Absent}]
    BY <1>4, IncreaseKeepsReals DEF IndInv, PoolInv
  <2>2. lpm_src' \in [Src -> 0 .. MaxReals - 1]
    BY <1>1, <1>4, ConfigAssumption DEF modifyLpmSrcRule, IndInv, KernelType
  <2>3. bpfFailed' \subseteq KernelMap
    BY <1>4 DEF IndInv, KernelType, KernelMap
  <2> QED BY <2>1, <2>2, <2>3 DEF IndInv, KernelType, addSrcRoutingRule
<1>8. VipInv' /\ CallOK'
  BY VipUnchanged, IdleOK DEF IndInv, addSrcRoutingRule
<1> QED BY <1>3, <1>6, <1>7, <1>8 DEF IndInv

(* Taking a rule out of the kernel's table. *)
LEMMA DelLpmTypes ==
  ASSUME KernelType, NEW s \in Src,
         \E ok \in LpmOutcomes(s, 0) :
           modifyLpmSrcRule(s, 0, ok) /\ countFailure("lpm_src", ok),
         UNCHANGED <<vip_map, reals, server_id_map, ch_rings>>
  PROVE  KernelType'
<1> USE ConfigAssumption
<1>1. lpm_src' \in [Src -> 0 .. MaxReals - 1]
  BY DEF modifyLpmSrcRule, KernelType
<1>2. bpfFailed' \subseteq KernelMap
  BY DEF KernelType, KernelMap, countFailure
<1> QED BY <1>1, <1>2 DEF KernelType

LEMMA DelSrcKeeps ==
  ASSUME IndInv, NEW s \in Src, delSrcRoutingRule(s)
  PROVE  IndInv'
<1> USE ConfigAssumption
<1>1. lpmSrcMapping_[s] \in RealNum
  BY DEF IndInv, UserType, delSrcRoutingRule
<1>2. PoolInv'
  BY <1>1, ReleaseKeepsPool DEF IndInv, delSrcRoutingRule
<1>3. UserType'
  BY DEF IndInv, UserType, delSrcRoutingRule
<1>4. KernelType'
  BY DelLpmTypes DEF IndInv, delSrcRoutingRule
<1>5. VipInv' /\ CallOK'
  BY VipUnchanged, IdleOK DEF IndInv, delSrcRoutingRule
<1> QED BY <1>2, <1>3, <1>4, <1>5 DEF IndInv

LEMMA ClearSrcStartKeeps ==
  ASSUME IndInv, clearAllSrcRoutingRules
  PROVE  IndInv'
<1>1. CallOK'
  BY DEF clearAllSrcRoutingRules, CallOK, CallType, ClearSrcCall
<1> QED BY <1>1, StartKeepsIndInv DEF clearAllSrcRoutingRules

LEMMA ClearSrcStepKeeps ==
  ASSUME IndInv, clearSrcStep
  PROVE  IndInv'
<1>1. call \in ClearSrcCall
  BY CallFields DEF IndInv, clearSrcStep
<1>2. VipInv' /\ UserType'
  BY VipUnchanged, UserUnchanged DEF IndInv, clearSrcStep
<1>3. PICK s \in call.left :
        \/ /\ call' = Crashed
           /\ UNCHANGED <<poolVars, lpm_src, bpfFailed>>
        \/ /\ decreaseRefCountForReal(numToReals_[lpmSrcMapping_[s]])
           /\ \E ok \in LpmOutcomes(s, 0) :
                modifyLpmSrcRule(s, 0, ok) /\ countFailure("lpm_src", ok)
           /\ call' = [call EXCEPT !.left = @ \ {s}]
  BY DEF clearSrcStep
<1>4. s \in Src
  BY <1>1, <1>3 DEF ClearSrcCall
<1>5. CASE call' = Crashed /\ UNCHANGED <<poolVars, lpm_src, bpfFailed>>
  BY <1>2, <1>5, PoolUnchanged, KernelUnchanged, IdleOK DEF IndInv, clearSrcStep, kernelVars
<1>6. CASE /\ decreaseRefCountForReal(numToReals_[lpmSrcMapping_[s]])
           /\ \E ok \in LpmOutcomes(s, 0) :
                modifyLpmSrcRule(s, 0, ok) /\ countFailure("lpm_src", ok)
           /\ call' = [call EXCEPT !.left = @ \ {s}]
  <2>1. PoolInv'
    BY <1>6, DecreaseKeepsPool DEF IndInv
  <2>2. KernelType'
    BY <1>4, <1>6, DelLpmTypes DEF IndInv, clearSrcStep
  <2>3. CallOK'
    BY <1>1, <1>6 DEF ClearSrcCall, CallOK, CallType
  <2> QED BY <1>2, <2>1, <2>2, <2>3 DEF IndInv
<1> QED BY <1>3, <1>5, <1>6

LEMMA ClearSrcDoneKeeps ==
  ASSUME IndInv, clearSrcDone
  PROVE  IndInv'
<1>1. UserType'
  BY ConfigAssumption DEF IndInv, UserType, clearSrcDone
<1> QED BY <1>1, PoolUnchanged, VipUnchanged, KernelUnchanged, IdleOK DEF IndInv, clearSrcDone

LEMMA QuicStartKeeps ==
  ASSUME IndInv, NEW action \in Action, NEW b \in Batches(QuicReal),
         modifyQuicRealsMapping(action, b)
  PROVE  IndInv'
<1>1. b \in Seq(QuicReal)
  BY BatchIsSeq
<1>2. call' \in QuicCall
  BY <1>1, ConfigAssumption DEF modifyQuicRealsMapping, QuicCall
<1>3. CallOK'
  BY <1>2 DEF CallOK, CallType, QuicCall
<1> QED BY <1>3, StartKeepsIndInv DEF modifyQuicRealsMapping

(* The next element of a batch of server ids, and what is left after it. *)
LEMMA NextQuicType ==
  ASSUME CallOK, call.op = "quic", call.todo # <<>>
  PROVE  /\ call \in QuicCall
         /\ NextQuic.id \in QuicId /\ NextQuic.address \in Addr
         /\ Tail(call.todo) \in Seq(QuicReal)
<1>1. call \in QuicCall
  BY CallFields
<1>2. call.todo \in Seq(QuicReal)
  BY <1>1 DEF QuicCall
<1>3. NextQuic \in QuicReal /\ Tail(call.todo) \in Seq(QuicReal)
  BY <1>2, HeadTailProperties DEF NextQuic
<1> QED BY <1>1, <1>3 DEF QuicReal

LEMMA DelQuicKeeps ==
  ASSUME IndInv, delQuicStep
  PROVE  IndInv'
<1>1. /\ call \in QuicCall /\ Tail(call.todo) \in Seq(QuicReal)
      /\ NextQuic.id \in QuicId /\ NextQuic.address \in Addr
  BY NextQuicType DEF IndInv, delQuicStep
<1>2. CallOK'
  <2>1. call' \in QuicCall
    BY <1>1 DEF delQuicStep, QuicCall
  <2> QED BY <2>1 DEF CallOK, CallType, QuicCall
<1>3. PoolInv' /\ UserType'
  <2>1. CASE UNCHANGED <<poolVars, quicMapping_>>
    BY <2>1, PoolUnchanged, UserUnchanged DEF IndInv, userVars, delQuicStep
  <2>2. CASE /\ decreaseRefCountForReal(NextQuic.address)
             /\ quicMapping_' = [quicMapping_ EXCEPT ![NextQuic.id] = Absent]
    BY <1>1, <2>2, DecreaseKeepsPool DEF IndInv, UserType, delQuicStep
  <2> QED BY <2>1, <2>2 DEF delQuicStep
<1>4. VipInv' /\ KernelType'
  BY VipUnchanged, KernelUnchanged DEF IndInv, delQuicStep
<1> QED BY <1>2, <1>3, <1>4 DEF IndInv

LEMMA OverrideQuicKeeps ==
  ASSUME IndInv, overrideQuicStep
  PROVE  IndInv'
<1>1. call \in QuicCall
  BY NextQuicType DEF IndInv, overrideQuicStep
<1>2. CallOK'
  <2>1. call' \in QuicCall
    BY <1>1 DEF overrideQuicStep, QuicCall
  <2> QED BY <2>1 DEF CallOK, CallType, QuicCall
<1>3. PoolInv'
  BY DecreaseKeepsPool DEF IndInv, overrideQuicStep
<1>4. VipInv' /\ KernelType' /\ UserType'
  BY VipUnchanged, KernelUnchanged, UserUnchanged DEF IndInv, overrideQuicStep
<1> QED BY <1>2, <1>3, <1>4 DEF IndInv

LEMMA AddQuicKeeps ==
  ASSUME IndInv, addQuicStep
  PROVE  IndInv'
<1> USE ConfigAssumption
<1> DEFINE id == NextQuic.id
<1> DEFINE a == NextQuic.address
<1> DEFINE n == NumFor(a)
<1> DEFINE skip == [call EXCEPT !.todo = Tail(@), !.released = FALSE]
<1>1. /\ call \in QuicCall /\ Tail(call.todo) \in Seq(QuicReal)
      /\ id \in QuicId /\ a \in Addr
  BY NextQuicType DEF IndInv, addQuicStep
<1>2. skip \in QuicCall
  BY <1>1 DEF QuicCall
<1>3. n \in RealNum \cup {MaxReals}
  BY <1>1, NumForType DEF IndInv, PoolInv
<1>4. VipInv'
  BY VipUnchanged DEF IndInv, addQuicStep
<1>5. UNCHANGED <<lpmSrcMapping_, vip_map, server_id_map, lpm_src, ch_rings>>
  BY DEF addQuicStep
<1>6. call' \in QuicCall => CallOK'
  BY DEF CallOK, CallType, QuicCall
<1>7. CASE call' = skip /\ UNCHANGED <<poolVars, quicMapping_, reals, bpfFailed>>
  BY <1>2, <1>4, <1>5, <1>6, <1>7, PoolUnchanged, UserUnchanged, KernelUnchanged
     DEF IndInv, userVars, kernelVars
<1>8. CASE /\ \E ok \in RealsOutcomes(a) :
                increaseRefCountForReal(a, {}, ok) /\ countFailure("reals", ok)
           /\ \/ /\ call' = skip
                 /\ UNCHANGED quicMapping_
              \/ /\ n # MaxReals
                 /\ call' = [skip EXCEPT !.to_update[id] = n]
                 /\ quicMapping_' = [quicMapping_ EXCEPT ![id] = a]
  <2> HIDE DEF n, skip, id, a
  <2>1. call' \in QuicCall
    <3>1. n # MaxReals => [skip EXCEPT !.to_update[id] = n] \in QuicCall
      <4> SUFFICES ASSUME n # MaxReals
                   PROVE  [skip EXCEPT !.to_update[id] = n] \in QuicCall
        OBVIOUS
      <4> DEFINE u == [skip.to_update EXCEPT ![id] = n]
      <4>1. n \in 0 .. MaxReals - 1
        BY <1>3
      <4>2. u \in [QuicId -> 0 .. MaxReals - 1]
        BY <4>1, <1>1, <1>2 DEF QuicCall
      <4>3. [skip EXCEPT !.to_update[id] = n] = [skip EXCEPT !.to_update = u]
        OBVIOUS
      <4> HIDE DEF u
      <4> QED BY <4>2, <4>3, <1>2 DEF QuicCall
    <3> QED BY <1>2, <1>8, <3>1
  <2>2. UserType'
    BY <1>1, <1>5, <1>8 DEF IndInv, UserType
  <2>3. PICK ok \in RealsOutcomes(a) :
          increaseRefCountForReal(a, {}, ok) /\ countFailure("reals", ok)
    BY <1>8
  <2>4. ok \in BOOLEAN
    BY <2>3, OutcomesAreBoolean DEF RealsOutcomes
  <2>5. PoolInv'
    BY <1>1, <2>3, <2>4, IncreaseKeepsPool DEF IndInv
  <2>6. KernelType'
    <3>1. reals' \in [RealNum -> [address : Addr, flags : SUBSET RealFlag] \cup {Absent}]
      BY <1>1, <2>3, IncreaseKeepsReals DEF IndInv, PoolInv
    <3> QED BY <1>5, <2>3, <3>1 DEF IndInv, KernelType, countFailure, KernelMap
  <2> QED BY <1>4, <1>6, <2>1, <2>2, <2>5, <2>6 DEF IndInv
<1> QED BY <1>7, <1>8 DEF addQuicStep

LEMMA QuicDoneKeeps ==
  ASSUME IndInv, quicDone
  PROVE  IndInv'
<1>1. call.to_update \in [QuicId -> 0 .. MaxReals - 1]
  BY CallFields DEF IndInv, quicDone, QuicCall
<1>2. server_id_map' \in [QuicId -> 0 .. MaxReals - 1] /\ bpfFailed' \subseteq KernelMap
  BY <1>1 DEF quicDone, IndInv, KernelType, KernelMap, countFailure
<1>3. KernelType'
  BY <1>2 DEF IndInv, KernelType, quicDone
<1> QED BY <1>3, PoolUnchanged, VipUnchanged, UserUnchanged, IdleOK DEF IndInv, quicDone

LEMMA InvalidateKeeps ==
  ASSUME IndInv, NEW id \in QuicId, invalidateServerId(id)
  PROVE  IndInv'
<1>1. server_id_map' \in [QuicId -> 0 .. MaxReals - 1] /\ bpfFailed' \subseteq KernelMap
  BY ConfigAssumption DEF invalidateServerId, IndInv, KernelType, KernelMap, countFailure
<1>2. KernelType'
  BY <1>1 DEF IndInv, KernelType, invalidateServerId
<1> QED BY <1>2, PoolUnchanged, VipUnchanged, UserUnchanged, IdleOK
       DEF IndInv, invalidateServerId

LEMMA RevalidateKeeps ==
  ASSUME IndInv, NEW id \in QuicId, NEW a \in Addr, revalidateServerId(id, a)
  PROVE  IndInv'
<1>1. reals_[a].num \in 0 .. MaxReals - 1
  BY ConfigAssumption DEF IndInv, PoolInv, PoolType, RealMeta, NoReal
<1>2. server_id_map' \in [QuicId -> 0 .. MaxReals - 1] /\ bpfFailed' \subseteq KernelMap
  BY <1>1 DEF revalidateServerId, IndInv, KernelType, KernelMap, countFailure
<1>3. KernelType'
  BY <1>2 DEF IndInv, KernelType, revalidateServerId
<1> QED BY <1>3, PoolUnchanged, VipUnchanged, UserUnchanged, IdleOK
       DEF IndInv, revalidateServerId
-----------------------------------------------------------------------------
LEMMA CallerKeeps == ASSUME IndInv, CallerStep PROVE IndInv'
BY ModifyRealKeeps, AddVipKeeps, ModifyVipKeeps, ChangeHashKeeps, DelVipKeeps,
   ModifyRealsStartKeeps, AddSrcKeeps, DelSrcKeeps, ClearSrcStartKeeps, GetterKeeps,
   QuicStartKeeps, InvalidateKeeps, RevalidateKeeps DEF CallerStep, Action

LEMMA LoopKeeps == ASSUME IndInv, LoopStep PROVE IndInv'
BY DelVipRealKeeps, DelVipDoneKeeps, DelRealKeeps, AddRealKeeps, ModifyRealsDoneKeeps,
   ClearSrcStepKeeps, ClearSrcDoneKeeps, DelQuicKeeps, OverrideQuicKeeps, AddQuicKeeps,
   QuicDoneKeeps DEF LoopStep

LEMMA StutterKeeps == ASSUME IndInv, UNCHANGED vars PROVE IndInv'
<1>1. UNCHANGED <<poolVars, vipVars, userVars, kernelVars>> /\ UNCHANGED call
  BY DEF vars
<1>2. CallOK'
  BY <1>1, CallStays DEF IndInv, HasVip, vipVars
<1> QED BY <1>1, <1>2, StartKeepsIndInv

(* IndInv is inductive. *)
THEOREM Inductive == Spec => []IndInv
<1>1. Init => IndInv
  BY InitIndInv
<1>2. IndInv /\ [Next]_vars => IndInv'
  BY CallerKeeps, LoopKeeps, StutterKeeps DEF Next, Dead
<1> QED BY <1>1, <1>2, PTL DEF Spec

(* Every table of VsoshlbLb holds values of its type, whatever the caller does,
   whichever kernel calls fail and wherever a batch has got to.            *)
THEOREM TypeCorrect == Spec => []TypeOK
<1>1. IndInv => TypeOK
  BY DEF IndInv, PoolInv, VipInv, TypeOK
<1> QED BY <1>1, Inductive, PTL

(* No real number is ever lost or given to two reals (realNums_, reals_). *)
THEOREM RealNumbersConserved == Spec => []NumberConservation
<1>1. IndInv => NumberConservation
  BY DEF IndInv, PoolInv
<1> QED BY <1>1, Inductive, PTL

(* reals_ and numToReals_ are inverse to each other. *)
THEOREM IndexCorrect == Spec => []IndexAgrees
<1>1. IndInv => IndexAgrees
  BY DEF IndInv, PoolInv
<1> QED BY <1>1, Inductive, PTL

(* No VIP number is ever lost or given to two VIPs (vipNums_, vips_). *)
THEOREM VipNumbersConserved == Spec => []VipNumberConservation
<1>1. IndInv => VipNumberConservation
  BY DEF IndInv, VipInv
<1> QED BY <1>1, Inductive, PTL
-----------------------------------------------------------------------------
(* LbControl implements RealIds: the numbers change one real at a time. *)

Id == [a \in Addr |-> reals_[a].num]
IdStep == [Ids!Next]_Id

LEMMA SameIds ==
  ASSUME \A a \in Addr : reals_'[a].num = reals_[a].num
  PROVE  IdStep
BY DEF IdStep, Id

LEMMA DecreaseIdStep ==
  ASSUME PoolInv, NEW a, decreaseRefCountForReal(a)
  PROVE  IdStep
<1>1. CASE UNCHANGED poolVars
  BY <1>1, SameIds DEF poolVars
<1>2. CASE /\ a \in Addr /\ Known(a)
           /\ reals_' = [reals_ EXCEPT ![a].refCount = @ - 1]
  <2>1. reals_[a] \in RealMeta
    BY <1>2 DEF PoolInv, PoolType, Known
  <2>2. \A b \in Addr : reals_'[b].num = reals_[b].num
    BY <1>2, <2>1 DEF PoolInv, PoolType, RealMeta
  <2> QED BY <2>2, SameIds
<1>3. CASE a \in Addr /\ Known(a) /\ reals_' = [reals_ EXCEPT ![a] = NoReal]
  <2>1. reals_[a].num \in RealNum
    BY <1>3 DEF PoolInv, PoolType, Known, RealMeta
  <2>2. reals_[a].num # 0
    BY <2>1, ConfigAssumption
  <2>3. Id' = [Id EXCEPT ![a] = 0]
    BY <1>3 DEF Id, PoolInv, PoolType, NoReal
  <2>4. Ids!onRealDeleted(a)
    BY <1>3, <2>2, <2>3 DEF Ids!onRealDeleted, Id
  <2> QED BY <1>3, <2>4 DEF IdStep, Ids!Next
<1> QED BY <1>1, <1>2, <1>3, SameIds DEF decreaseRefCountForReal, decreaseEmpty

LEMMA ReleaseIdStep ==
  ASSUME PoolInv, NEW n, releaseNum(n)
  PROVE  IdStep
BY SameIds, DecreaseIdStep DEF releaseNum

LEMMA IncreaseIdStep ==
  ASSUME PoolInv, NEW a \in Addr, NEW flags, NEW ok, increaseRefCountForReal(a, flags, ok)
  PROVE  IdStep
<1>1. CASE UNCHANGED poolVars
  BY <1>1, SameIds DEF poolVars
<1>2. CASE Known(a) /\ reals_' = [reals_ EXCEPT ![a].refCount = @ + 1]
  <2>1. reals_[a] \in RealMeta
    BY <1>2 DEF PoolInv, PoolType, Known
  <2>2. \A b \in Addr : reals_'[b].num = reals_[b].num
    BY <1>2, <2>1 DEF PoolInv, PoolType, RealMeta
  <2> QED BY <2>2, SameIds
<1>3. CASE /\ ~Known(a) /\ realNums_ # <<>>
           /\ reals_' = [reals_ EXCEPT ![a] =
                           [num |-> Head(realNums_), refCount |-> 1, flags |-> flags]]
  <2>1. PICK n \in RealNum :
          n = Head(realNums_) /\ n = realNums_[1] /\ 1 \in 1 .. Len(realNums_)
    <3>1. realNums_ \in Seq(RealNum) /\ realNums_ # <<>>
      BY <1>3 DEF PoolInv, PoolType
    <3>2. Len(realNums_) \in Nat /\ Len(realNums_) # 0
      BY <3>1, EmptySeq
    <3>3. 1 \in 1 .. Len(realNums_)
      BY <3>2
    <3>4. Head(realNums_) = realNums_[1]
      OBVIOUS
    <3>5. Head(realNums_) \in RealNum /\ Head(realNums_) = realNums_[1]
      BY <3>1, <3>3, <3>4, ElementOfSeq
    <3> QED BY <3>3, <3>5
  <2>2. n # 0
    BY <2>1, ConfigAssumption
  <2>3. \A b \in Addr : reals_[b].num # n
    <3> SUFFICES ASSUME NEW b \in Addr PROVE reals_[b].num # n
      OBVIOUS
    <3>1. CASE Known(b)
      BY <2>1, <3>1 DEF PoolInv, NumberConservation
    <3>2. CASE ~Known(b)
      BY <2>2, <3>2 DEF Known, NoReal
    <3> QED BY <3>1, <3>2
  <2>4. Id' = [Id EXCEPT ![a] = n]
    BY <1>3, <2>1 DEF Id, PoolInv, PoolType
  <2>5. Id[a] = 0
    BY <1>3 DEF Id, Known, NoReal
  <2>6. Ids!onRealAdded(a, n)
    BY <2>3, <2>4, <2>5 DEF Ids!onRealAdded, Id
  <2> QED BY <2>1, <2>6 DEF IdStep, Ids!Next
<1> QED BY <1>1, <1>2, <1>3 DEF increaseRefCountForReal

LEMMA CallerIdStep == ASSUME IndInv, CallerStep PROVE IdStep
<1>1. CASE \E a \in Addr, f \in SUBSET RealFlag, set \in BOOLEAN : modifyReal(a, f, set)
  <2>1. PICK a \in Addr, f \in SUBSET RealFlag, set \in BOOLEAN : modifyReal(a, f, set)
    BY <1>1
  <2>2. \E new : reals_' = [reals_ EXCEPT ![a].flags = new]
    BY <2>1 DEF modifyReal
  <2>3. reals_[a] \in RealMeta
    BY <2>1 DEF modifyReal, IndInv, PoolInv, PoolType, Known
  <2>4. \A b \in Addr : reals_'[b].num = reals_[b].num
    BY <2>2, <2>3 DEF IndInv, PoolInv, PoolType, RealMeta
  <2> QED BY <2>4, SameIds
<1>2. CASE \E s \in Src, dst \in Addr : addSrcRoutingRule(s, dst)
  BY <1>2, IncreaseIdStep DEF addSrcRoutingRule, IndInv
<1>3. CASE \E s \in Src : delSrcRoutingRule(s)
  BY <1>3, ReleaseIdStep DEF delSrcRoutingRule, IndInv
<1>4. CASE UNCHANGED reals_
  BY <1>4, SameIds
<1> QED BY <1>1, <1>2, <1>3, <1>4
       DEF CallerStep, addVip, modifyVip, changeHashFunctionForVip, delVip,
           modifyRealsForVip, clearAllSrcRoutingRules, getSrcRoutingRule,
           getRealsForVip, getVipLruMissStats, modifyQuicRealsMapping, invalidateServerId, revalidateServerId, poolVars

LEMMA LoopIdStep == ASSUME IndInv, LoopStep PROVE IdStep
<1>1. CASE \E a : decreaseRefCountForReal(a)
  BY <1>1, DecreaseIdStep DEF IndInv
<1>2. CASE \E n : releaseNum(n)
  BY <1>2, ReleaseIdStep DEF IndInv
<1>3. CASE \E a \in Addr : \E flags, ok : increaseRefCountForReal(a, flags, ok)
  BY <1>3, IncreaseIdStep DEF IndInv
<1>4. CASE UNCHANGED reals_
  BY <1>4, SameIds
<1>5. addRealStep => NextReal.address \in Addr
  BY NextRealType DEF addRealStep, IndInv, NewReal
<1>6. addQuicStep => NextQuic.address \in Addr
  BY NextQuicType DEF addQuicStep, IndInv
<1> QED BY <1>1, <1>2, <1>3, <1>4, <1>5, <1>6
       DEF LoopStep, delVipReal, delVipDone, delRealStep, addRealStep, modifyRealsDone,
           clearSrcStep, clearSrcDone, delQuicStep, overrideQuicStep, addQuicStep,
           quicDone, poolVars

(* The numbers of reals that realsIdCallback_ reports (onRealAdded,
   onRealDeleted) obey RealIds: a number is given to one real at a time, is
   fresh when given, and changes only by being given up first.             *)
THEOREM RealIdsRefinement == Spec => RealIdsSpec
<1>1. Init => Ids!Init
  BY DEF Init, Ids!Init, NoReal
<1>2. IndInv /\ [Next]_vars => IdStep
  <2>1. UNCHANGED vars => IdStep
    BY SameIds DEF vars, poolVars
  <2> QED BY <2>1, CallerIdStep, LoopIdStep DEF Next, Dead
<1>3. IdStep => [Ids!Next]_([a \in Addr |-> reals_[a].num])
  BY DEF IdStep, Id
<1> QED BY <1>1, <1>2, <1>3, Inductive, PTL DEF Spec, RealIdsSpec, Ids!Spec

HIDE DEF RealNum, VipNum

-----------------------------------------------------------------------------
(* The users of a number or an address *)
VipsOf(n)  == {v \in VipKey : n \in VipUses(v)}
RulesOf(n) == {s \in SrcCounted : lpmSrcMapping_[s] = n}
IdsOf(a)   == {id \in QuicCounted : quicMapping_[id] = a}

\* NoDangling from the side of the numbers
Held ==
  /\ \A n \in RealNum : VipsOf(n) # {} \/ RulesOf(n) # {} => \E a \in Addr : Known(a) /\ reals_[a].num = n
  /\ \A a \in Addr : IdsOf(a) # {} => Known(a)

\* Nobody but the users of number n and address a comes or goes, ...
OthersStay(n, a) ==
  /\ \A m \in RealNum \ {n} : VipsOf(m)' = VipsOf(m) /\ RulesOf(m)' = RulesOf(m)
  /\ \A b \in Addr \ {a} : IdsOf(b)' = IdsOf(b)

\* ... one of these goes, or one comes.
UserGoes(n, a) ==
  \/ /\ \E v \in VipsOf(n) : VipsOf(n)' = VipsOf(n) \ {v}
     /\ RulesOf(n)' = RulesOf(n) /\ IdsOf(a)' = IdsOf(a)
  \/ /\ \E s \in RulesOf(n) : RulesOf(n)' = RulesOf(n) \ {s}
     /\ VipsOf(n)' = VipsOf(n) /\ IdsOf(a)' = IdsOf(a)
  \/ /\ \E id \in IdsOf(a) : IdsOf(a)' = IdsOf(a) \ {id}
     /\ VipsOf(n)' = VipsOf(n) /\ RulesOf(n)' = RulesOf(n)

UserComes(n, a) ==
  \/ /\ \E v \in VipKey \ VipsOf(n) : VipsOf(n)' = VipsOf(n) \cup {v}
     /\ RulesOf(n)' = RulesOf(n) /\ IdsOf(a)' = IdsOf(a)
  \/ /\ \E s \in Src \ RulesOf(n) : RulesOf(n)' = RulesOf(n) \cup {s}
     /\ VipsOf(n)' = VipsOf(n) /\ IdsOf(a)' = IdsOf(a)
  \/ /\ \E id \in QuicId \ IdsOf(a) : IdsOf(a)' = IdsOf(a) \cup {id}
     /\ VipsOf(n)' = VipsOf(n) /\ RulesOf(n)' = RulesOf(n)

SameUsers ==
  /\ \A n \in RealNum : VipsOf(n)' = VipsOf(n) /\ RulesOf(n)' = RulesOf(n)
  /\ \A a \in Addr : IdsOf(a)' = IdsOf(a)

Exact == NoDangling /\ RefCountExact
-----------------------------------------------------------------------------
(* Counting *)

LEMMA UsersAreFinite ==
  ASSUME NEW n, NEW a
  PROVE  /\ IsFiniteSet(VipsOf(n)) /\ IsFiniteSet(RulesOf(n)) /\ IsFiniteSet(IdsOf(a))
         /\ Cardinality(VipsOf(n)) \in Nat /\ Cardinality(RulesOf(n)) \in Nat
         /\ Cardinality(IdsOf(a)) \in Nat
<1>1. VipsOf(n) \subseteq VipKey /\ RulesOf(n) \subseteq Src /\ IdsOf(a) \subseteq QuicId
  BY DEF VipsOf, RulesOf, IdsOf, SrcCounted, QuicCounted
<1>2. IsFiniteSet(VipsOf(n)) /\ IsFiniteSet(RulesOf(n)) /\ IsFiniteSet(IdsOf(a))
  BY <1>1, FiniteAssumption, FS_Subset
<1> QED BY <1>2, FS_CardinalityType

LEMMA OneLess ==
  ASSUME NEW S, NEW T, IsFiniteSet(S), NEW x \in S, T = S \ {x}
  PROVE  Cardinality(T) = Cardinality(S) - 1 /\ Cardinality(S) \in Nat /\ Cardinality(T) \in Nat
<1>1. Cardinality(T) = Cardinality(S) - 1 /\ IsFiniteSet(T)
  BY FS_RemoveElement
<1> QED BY <1>1, FS_CardinalityType

LEMMA OneMore ==
  ASSUME NEW S, NEW T, IsFiniteSet(S), NEW x, x \notin S, T = S \cup {x}
  PROVE  Cardinality(T) = Cardinality(S) + 1 /\ Cardinality(S) \in Nat
<1>1. Cardinality(T) = Cardinality(S) + 1
  BY FS_AddElement
<1> QED BY <1>1, FS_CardinalityType

LEMMA NoneLeft == ASSUME NEW S, IsFiniteSet(S) PROVE Cardinality(S) = 0 <=> S = {}
BY FS_EmptySet

(* Types *)
LEMMA KnownReal ==
  ASSUME PoolInv, NEW a \in Addr, Known(a)
  PROVE  /\ reals_[a].num \in RealNum /\ reals_[a].refCount \in Nat \ {0}
         /\ reals_[a] \in RealMeta
BY DEF PoolInv, PoolType, Known, RealMeta

LEMMA UserNumbers ==
  ASSUME IndInv
  PROVE  /\ \A v \in VipKey : VipUses(v) \subseteq RealNum
         /\ \A s \in SrcCounted : lpmSrcMapping_[s] \in RealNum
         /\ \A id \in QuicCounted : quicMapping_[id] \in Addr
<1>1. ASSUME NEW v \in VipKey PROVE VipUses(v) \subseteq RealNum
  <2>1. call.op = "delVip" => call.left \subseteq RealNum
    BY CallFields DEF IndInv, DelVipCall
  <2>2. call.op = "modifyReals" => UpdatedNums(call.ureals) \subseteq RealNum
    <3>1. SUFFICES ASSUME call.op = "modifyReals" PROVE UpdatedNums(call.ureals) \subseteq RealNum
      OBVIOUS
    <3>2. call.ureals \in Seq(UpdateReal)
      BY <3>1, CallFields DEF IndInv, ModifyRealsCall
    <3>3. \A i \in 1 .. Len(call.ureals) : call.ureals[i] \in UpdateReal
      BY <3>2
    <3> QED BY <3>3 DEF UpdatedNums, UpdateReal
  <2>3. VipReals(v) \subseteq RealNum
    BY DEF VipReals
  <2> QED BY <2>1, <2>2, <2>3 DEF VipUses
<1>2. \A s \in SrcCounted : lpmSrcMapping_[s] \in RealNum
  BY ConfigAssumption DEF SrcCounted, IndInv, UserType, RealNum
<1>3. \A id \in QuicCounted : quicMapping_[id] \in Addr
  BY DEF QuicCounted, IndInv, UserType
<1> QED BY <1>1, <1>2, <1>3

LEMMA HeldIsNoDangling == ASSUME IndInv PROVE NoDangling <=> Held
<1>1. \A n : n \in Allocated <=> \E a \in Addr : Known(a) /\ reals_[a].num = n
  BY DEF Allocated
<1>2. ASSUME NoDangling PROVE Held
  BY <1>1, <1>2 DEF NoDangling, Held, VipsOf, RulesOf, IdsOf
<1>3. ASSUME Held PROVE NoDangling
  <2>1. ASSUME NEW v \in VipKey, NEW n \in VipUses(v) PROVE n \in Allocated
    <3>1. n \in RealNum /\ v \in VipsOf(n)
      BY UserNumbers DEF VipsOf
    <3> QED BY <1>1, <1>3, <3>1 DEF Held
  <2>2. ASSUME NEW s \in SrcCounted PROVE lpmSrcMapping_[s] \in Allocated
    <3>1. lpmSrcMapping_[s] \in RealNum /\ s \in RulesOf(lpmSrcMapping_[s])
      BY UserNumbers DEF RulesOf
    <3> QED BY <1>1, <1>3, <3>1 DEF Held
  <2>3. ASSUME NEW id \in QuicCounted PROVE Known(quicMapping_[id])
    <3>1. quicMapping_[id] \in Addr /\ id \in IdsOf(quicMapping_[id])
      BY UserNumbers DEF IdsOf
    <3> QED BY <1>3, <3>1 DEF Held
  <2> QED BY <2>1, <2>2, <2>3 DEF NoDangling
<1> QED BY <1>2, <1>3

LEMMA HeldNow == IndInv /\ Held => NoDangling
BY HeldIsNoDangling

LEMMA HeldNext == (IndInv /\ Held => NoDangling)'
BY HeldNow, PTL

(* The users of every other real stay the same; the counts follow. *)
LEMMA LessUser ==
  ASSUME IndInv, IndInv', Exact, NEW a \in Addr, NEW n, Known(a), n = reals_[a].num,
         decreaseRefCountForReal(a), OthersStay(n, a), UserGoes(n, a)
  PROVE  Exact'
<1> DEFINE V == Cardinality(VipsOf(n))
           R == Cardinality(RulesOf(n))
           I == Cardinality(IdsOf(a))
<1>1. n \in RealNum /\ reals_[a].refCount \in Nat \ {0}
  BY KnownReal DEF IndInv
<1>2. reals_[a].refCount = V + R + I
  BY DEF Exact, RefCountExact, UsersOf, VipsOf, RulesOf, IdsOf
<1>3. /\ IsFiniteSet(VipsOf(n)) /\ IsFiniteSet(RulesOf(n)) /\ IsFiniteSet(IdsOf(a))
      /\ V \in Nat /\ R \in Nat /\ I \in Nat
  BY UsersAreFinite
<1>4. /\ IsFiniteSet(VipsOf(n)') /\ IsFiniteSet(RulesOf(n)') /\ IsFiniteSet(IdsOf(a)')
      /\ Cardinality(VipsOf(n)') \in Nat /\ Cardinality(RulesOf(n)') \in Nat
      /\ Cardinality(IdsOf(a)') \in Nat
      /\ Cardinality(VipsOf(n)') + Cardinality(RulesOf(n)') + Cardinality(IdsOf(a)')
           = V + R + I - 1
  <2>1. CASE /\ \E v \in VipsOf(n) : VipsOf(n)' = VipsOf(n) \ {v}
             /\ RulesOf(n)' = RulesOf(n) /\ IdsOf(a)' = IdsOf(a)
    <3>1. IsFiniteSet(VipsOf(n)') /\ Cardinality(VipsOf(n)') = V - 1 /\ Cardinality(VipsOf(n)') \in Nat
      BY <1>3, <2>1, OneLess, FS_RemoveElement
    <3> QED BY <1>3, <2>1, <3>1
  <2>2. CASE /\ \E s \in RulesOf(n) : RulesOf(n)' = RulesOf(n) \ {s}
             /\ VipsOf(n)' = VipsOf(n) /\ IdsOf(a)' = IdsOf(a)
    <3>1. IsFiniteSet(RulesOf(n)') /\ Cardinality(RulesOf(n)') = R - 1 /\ Cardinality(RulesOf(n)') \in Nat
      BY <1>3, <2>2, OneLess, FS_RemoveElement
    <3> QED BY <1>3, <2>2, <3>1
  <2>3. CASE /\ \E id \in IdsOf(a) : IdsOf(a)' = IdsOf(a) \ {id}
             /\ VipsOf(n)' = VipsOf(n) /\ RulesOf(n)' = RulesOf(n)
    <3>1. IsFiniteSet(IdsOf(a)') /\ Cardinality(IdsOf(a)') = I - 1 /\ Cardinality(IdsOf(a)') \in Nat
      BY <1>3, <2>3, OneLess, FS_RemoveElement
    <3> QED BY <1>3, <2>3, <3>1
  <2> QED BY <2>1, <2>2, <2>3 DEF UserGoes
<1>5. \A b \in Addr \ {a} : reals_'[b] = reals_[b] /\ (Known(b)' <=> Known(b))
  <2>1. reals_ \in [Addr -> RealMeta \cup {NoReal}]
    BY DEF IndInv, PoolInv, PoolType
  <2> QED BY <2>1, DecreaseKnown DEF Known
<1>6. \A b \in Addr \ {a} : Known(b) => reals_[b].num \in RealNum \ {n}
  BY KnownReal DEF IndInv, PoolInv, NumberConservation
<1>7. Held
  BY HeldIsNoDangling DEF Exact
<1>8. CASE reals_[a].refCount > 1
  <2>1. reals_'[a] = [reals_[a] EXCEPT !.refCount = reals_[a].refCount - 1]
    BY <1>8, DecreaseKnown DEF IndInv, PoolInv, PoolType
  <2>2. /\ reals_'[a].num = n /\ reals_'[a].refCount = reals_[a].refCount - 1 /\ Known(a)'
    BY <1>1, <1>8, <2>1, KnownReal DEF IndInv, RealMeta, Known, NoReal
  <2>3. Held'
    <3>1. ASSUME NEW m \in RealNum, VipsOf(m)' # {} \/ RulesOf(m)' # {}
          PROVE  \E b \in Addr : Known(b)' /\ reals_'[b].num = m
      BY <1>5, <1>7, <2>2, <3>1 DEF Held, OthersStay
    <3>2. ASSUME NEW b \in Addr, IdsOf(b)' # {} PROVE Known(b)'
      BY <1>5, <1>7, <2>2, <3>2 DEF Held, OthersStay
    <3> QED BY <3>1, <3>2 DEF Held
  <2>4. ASSUME NEW b \in Addr, Known(b)' PROVE reals_'[b].refCount = UsersOf(b)'
    <3>1. CASE b = a
      <4>1. UsersOf(b)' = Cardinality(VipsOf(n)') + Cardinality(RulesOf(n)') + Cardinality(IdsOf(a)')
        BY <2>2, <3>1 DEF UsersOf, VipsOf, RulesOf, IdsOf
      <4> QED BY <1>2, <1>3, <1>4, <2>2, <3>1, <4>1
    <3>2. CASE b # a
      <4>1. UsersOf(b) = Cardinality(VipsOf(reals_[b].num)) + Cardinality(RulesOf(reals_[b].num))
                           + Cardinality(IdsOf(b))
        BY DEF UsersOf, VipsOf, RulesOf, IdsOf
      <4>2. PICK m \in RealNum \ {n} : m = reals_[b].num
        BY <1>5, <1>6, <2>4, <3>2
      <4>3. UsersOf(b)' = Cardinality(VipsOf(m)') + Cardinality(RulesOf(m)') + Cardinality(IdsOf(b)')
        BY <1>5, <3>2, <4>2 DEF UsersOf, VipsOf, RulesOf, IdsOf
      <4>4. VipsOf(m)' = VipsOf(m) /\ RulesOf(m)' = RulesOf(m) /\ IdsOf(b)' = IdsOf(b)
        BY <3>2 DEF OthersStay
      <4> QED BY <1>5, <2>4, <3>2, <4>1, <4>2, <4>3, <4>4 DEF Exact, RefCountExact
    <3> QED BY <3>1, <3>2
  <2> QED BY <2>3, <2>4, HeldNext DEF Exact, RefCountExact
<1>9. CASE reals_[a].refCount = 1
  <2>1. ~Known(a)'
    BY <1>9, DecreaseKnown DEF IndInv, PoolInv, PoolType, Known
  <2>2. VipsOf(n)' = {} /\ RulesOf(n)' = {} /\ IdsOf(a)' = {}
    <3>1. /\ Cardinality(VipsOf(n)') = 0 /\ Cardinality(RulesOf(n)') = 0
          /\ Cardinality(IdsOf(a)') = 0
      <4>1. V + R + I - 1 = 0
        BY <1>2, <1>3, <1>9
      <4>2. \A x, y, z \in Nat : x + y + z = 0 => x = 0 /\ y = 0 /\ z = 0
        OBVIOUS
      <4> HIDE DEF V, R, I
      <4> QED BY <1>4, <4>1, <4>2
    <3> QED BY <1>4, <3>1, NoneLeft
  <2>3. Held'
    <3>1. ASSUME NEW m \in RealNum, VipsOf(m)' # {} \/ RulesOf(m)' # {}
          PROVE  \E b \in Addr : Known(b)' /\ reals_'[b].num = m
      BY <1>5, <1>7, <2>2, <3>1 DEF Held, OthersStay
    <3>2. ASSUME NEW b \in Addr, IdsOf(b)' # {} PROVE Known(b)'
      BY <1>5, <1>7, <2>2, <3>2 DEF Held, OthersStay
    <3> QED BY <3>1, <3>2 DEF Held
  <2>4. ASSUME NEW b \in Addr, Known(b)' PROVE reals_'[b].refCount = UsersOf(b)'
    <3>2. b # a
      BY <2>1, <2>4
    <3>3. UsersOf(b) = Cardinality(VipsOf(reals_[b].num)) + Cardinality(RulesOf(reals_[b].num))
                         + Cardinality(IdsOf(b))
      BY DEF UsersOf, VipsOf, RulesOf, IdsOf
    <3>4. PICK m \in RealNum \ {n} : m = reals_[b].num
      BY <1>5, <1>6, <2>4, <3>2
    <3>5. UsersOf(b)' = Cardinality(VipsOf(m)') + Cardinality(RulesOf(m)') + Cardinality(IdsOf(b)')
      BY <1>5, <3>2, <3>4 DEF UsersOf, VipsOf, RulesOf, IdsOf
    <3>6. VipsOf(m)' = VipsOf(m) /\ RulesOf(m)' = RulesOf(m) /\ IdsOf(b)' = IdsOf(b)
      BY <3>2 DEF OthersStay
    <3> QED BY <1>5, <2>4, <3>2, <3>3, <3>4, <3>5, <3>6 DEF Exact, RefCountExact
  <2> QED BY <2>3, <2>4, HeldNext DEF Exact, RefCountExact
<1> QED BY <1>1, <1>8, <1>9

LEMMA MoreUser ==
  ASSUME IndInv, IndInv', Exact, NEW a \in Addr, NEW n, n = NumFor(a), n # MaxReals,
         NEW flags, NEW ok, increaseRefCountForReal(a, flags, ok),
         OthersStay(n, a), UserComes(n, a)
  PROVE  Exact'
<1> DEFINE V == Cardinality(VipsOf(n))
           R == Cardinality(RulesOf(n))
           I == Cardinality(IdsOf(a))
<1>1. n \in RealNum
  BY NumForType DEF IndInv, PoolInv
<1>2. /\ IsFiniteSet(VipsOf(n)) /\ IsFiniteSet(RulesOf(n)) /\ IsFiniteSet(IdsOf(a))
      /\ V \in Nat /\ R \in Nat /\ I \in Nat
  BY UsersAreFinite
<1>3. Cardinality(VipsOf(n)') + Cardinality(RulesOf(n)') + Cardinality(IdsOf(a)') = V + R + I + 1
  <2>1. CASE /\ \E v \in VipKey \ VipsOf(n) : VipsOf(n)' = VipsOf(n) \cup {v}
             /\ RulesOf(n)' = RulesOf(n) /\ IdsOf(a)' = IdsOf(a)
    <3>1. Cardinality(VipsOf(n)') = V + 1
      BY <1>2, <2>1, OneMore
    <3> QED BY <1>2, <2>1, <3>1
  <2>2. CASE /\ \E s \in Src \ RulesOf(n) : RulesOf(n)' = RulesOf(n) \cup {s}
             /\ VipsOf(n)' = VipsOf(n) /\ IdsOf(a)' = IdsOf(a)
    <3>1. Cardinality(RulesOf(n)') = R + 1
      BY <1>2, <2>2, OneMore
    <3> QED BY <1>2, <2>2, <3>1
  <2>3. CASE /\ \E id \in QuicId \ IdsOf(a) : IdsOf(a)' = IdsOf(a) \cup {id}
             /\ VipsOf(n)' = VipsOf(n) /\ RulesOf(n)' = RulesOf(n)
    <3>1. Cardinality(IdsOf(a)') = I + 1
      BY <1>2, <2>3, OneMore
    <3> QED BY <1>2, <2>3, <3>1
  <2> QED BY <2>1, <2>2, <2>3 DEF UserComes
<1>4. Held
  BY HeldIsNoDangling DEF Exact
<1>5. \A b \in Addr \ {a} : /\ reals_'[b] = reals_[b] /\ (Known(b)' <=> Known(b))
                            /\ Known(b) => reals_[b].num \in RealNum \ {n}
  <2>1. reals_ \in [Addr -> RealMeta \cup {NoReal}]
    BY DEF IndInv, PoolInv, PoolType
  <2>2. \A b \in Addr \ {a} : reals_'[b] = reals_[b] /\ (Known(b)' <=> Known(b))
    BY <2>1 DEF increaseRefCountForReal, Known, poolVars
  <2>3. ASSUME NEW b \in Addr \ {a}, Known(b) PROVE reals_[b].num \in RealNum \ {n}
    <3>1. CASE Known(a)
      BY <2>3, <3>1, KnownReal DEF IndInv, PoolInv, NumberConservation, NumFor
    <3>2. CASE ~Known(a)
      <4>1. realNums_ # <<>> /\ n = Head(realNums_)
        BY <3>2 DEF NumFor
      <4>2. 1 \in 1 .. Len(realNums_) /\ n = realNums_[1]
        BY <4>1, HeadTailProperties, LenProperties, EmptySeq DEF IndInv, PoolInv, PoolType
      <4> QED BY <2>3, <4>2, KnownReal DEF IndInv, PoolInv, NumberConservation
    <3> QED BY <3>1, <3>2
  <2> QED BY <2>2, <2>3
<1>6. /\ Known(a)' /\ reals_'[a].num = n /\ reals_'[a].refCount = V + R + I + 1
  <2>1. CASE Known(a)
    <3>1. reals_[a].refCount = V + R + I /\ n = reals_[a].num
      BY <2>1 DEF Exact, RefCountExact, UsersOf, VipsOf, RulesOf, IdsOf, NumFor
    <3>2. reals_'[a] = [reals_[a] EXCEPT !.refCount = reals_[a].refCount + 1]
      BY <2>1 DEF increaseRefCountForReal, IndInv, PoolInv, PoolType
    <3>3. reals_'[a].num = reals_[a].num /\ reals_'[a].refCount = reals_[a].refCount + 1
          /\ reals_'[a] # NoReal
      <4>1. reals_[a] \in RealMeta
        BY <2>1, KnownReal DEF IndInv
      <4>2. reals_'[a].num = reals_[a].num /\ reals_'[a].refCount = reals_[a].refCount + 1
        BY <3>2, <4>1 DEF RealMeta
      <4>3. n # 0
        BY <1>1, ConfigAssumption DEF RealNum
      <4>4. NoReal.num = 0
        BY DEF NoReal
      <4> QED BY <3>1, <4>2, <4>3, <4>4
    <3> QED BY <3>1, <3>3 DEF Known
  <2>2. CASE ~Known(a)
    <3>1. realNums_ # <<>> /\ n = Head(realNums_)
      BY <2>2 DEF NumFor
    <3>2. 1 \in 1 .. Len(realNums_) /\ n = realNums_[1]
      BY <3>1, HeadTailProperties, LenProperties, EmptySeq DEF IndInv, PoolInv, PoolType
    <3>3. \A b \in Addr : Known(b) => reals_[b].num # n
      BY <3>2 DEF IndInv, PoolInv, NumberConservation
    <3>4. VipsOf(n) = {} /\ RulesOf(n) = {} /\ IdsOf(a) = {}
      BY <1>1, <1>4, <2>2, <3>3 DEF Held
    <3>5. V = 0 /\ R = 0 /\ I = 0
      BY <3>4, FS_EmptySet
    <3>6. reals_'[a] = [num |-> n, refCount |-> 1, flags |-> flags]
      BY <2>2, <3>1 DEF increaseRefCountForReal, IndInv, PoolInv, PoolType
    <3>7. reals_'[a] # NoReal
      BY <3>6 DEF NoReal
    <3> QED BY <3>5, <3>6, <3>7 DEF Known
  <2> QED BY <2>1, <2>2
<1>7. Held'
  <2>1. ASSUME NEW m \in RealNum, VipsOf(m)' # {} \/ RulesOf(m)' # {}
        PROVE  \E b \in Addr : Known(b)' /\ reals_'[b].num = m
    <3>1. CASE m = n
      BY <1>6, <3>1
    <3>2. CASE m # n
      <4>1. PICK b \in Addr : Known(b) /\ reals_[b].num = m
        BY <1>4, <2>1, <3>2 DEF Held, OthersStay
      <4>2. CASE b = a
        <5>1. m = NumFor(a)
          BY <4>1, <4>2 DEF NumFor
        <5> QED BY <3>2, <5>1
      <4> QED BY <1>5, <4>1, <4>2
    <3> QED BY <3>1, <3>2
  <2>2. ASSUME NEW b \in Addr, IdsOf(b)' # {} PROVE Known(b)'
    BY <1>4, <1>5, <1>6, <2>2 DEF Held, OthersStay
  <2> QED BY <2>1, <2>2 DEF Held
<1>8. ASSUME NEW b \in Addr, Known(b)' PROVE reals_'[b].refCount = UsersOf(b)'
  <2>1. CASE b = a
    <3>1. UsersOf(b)' = Cardinality(VipsOf(n)') + Cardinality(RulesOf(n)') + Cardinality(IdsOf(a)')
      BY <1>6, <2>1 DEF UsersOf, VipsOf, RulesOf, IdsOf
    <3> QED BY <1>3, <1>6, <2>1, <3>1
  <2>2. CASE b # a
    <3>1. UsersOf(b) = Cardinality(VipsOf(reals_[b].num)) + Cardinality(RulesOf(reals_[b].num))
                         + Cardinality(IdsOf(b))
      BY DEF UsersOf, VipsOf, RulesOf, IdsOf
    <3>2. PICK m \in RealNum \ {n} : m = reals_[b].num
      BY <1>5, <1>8, <2>2
    <3>3. UsersOf(b)' = Cardinality(VipsOf(m)') + Cardinality(RulesOf(m)') + Cardinality(IdsOf(b)')
      BY <1>5, <2>2, <3>2 DEF UsersOf, VipsOf, RulesOf, IdsOf
    <3>4. VipsOf(m)' = VipsOf(m) /\ RulesOf(m)' = RulesOf(m) /\ IdsOf(b)' = IdsOf(b)
      BY <2>2 DEF OthersStay
    <3> QED BY <1>5, <1>8, <2>2, <3>1, <3>2, <3>3, <3>4 DEF Exact, RefCountExact
  <2> QED BY <2>1, <2>2
<1> QED BY <1>7, <1>8, HeldNext DEF Exact, RefCountExact

LEMMA SameUsersKeep ==
  ASSUME IndInv, IndInv', Exact, SameUsers,
         \A a \in Addr : reals_'[a].num = reals_[a].num /\ reals_'[a].refCount = reals_[a].refCount
  PROVE  Exact'
<1>1. \A a \in Addr : Known(a)' <=> Known(a)
  <2>1. /\ reals_ \in [Addr -> RealMeta \cup {NoReal}] /\ reals_' \in [Addr -> RealMeta \cup {NoReal}]
    BY DEF IndInv, PoolInv, PoolType
  <2>2. /\ \A r \in RealMeta : r.refCount # 0
        /\ NoReal.refCount = 0
    BY DEF RealMeta, NoReal
  <2> QED BY <2>1, <2>2 DEF Known
<1>2. Held
  BY HeldIsNoDangling DEF Exact
<1>3. Held'
  BY <1>1, <1>2 DEF Held, SameUsers
<1>4. ASSUME NEW b \in Addr, Known(b)' PROVE reals_'[b].refCount = UsersOf(b)'
  <2>1. UsersOf(b) = Cardinality(VipsOf(reals_[b].num)) + Cardinality(RulesOf(reals_[b].num))
                       + Cardinality(IdsOf(b))
    BY DEF UsersOf, VipsOf, RulesOf, IdsOf
  <2>2. PICK m \in RealNum : m = reals_[b].num
    BY <1>1, <1>4, KnownReal DEF IndInv
  <2>3. UsersOf(b)' = Cardinality(VipsOf(m)') + Cardinality(RulesOf(m)') + Cardinality(IdsOf(b)')
    BY <2>2 DEF UsersOf, VipsOf, RulesOf, IdsOf
  <2>4. VipsOf(m)' = VipsOf(m) /\ RulesOf(m)' = RulesOf(m) /\ IdsOf(b)' = IdsOf(b)
    BY DEF SameUsers
  <2> QED BY <1>1, <1>4, <2>1, <2>2, <2>3, <2>4 DEF Exact, RefCountExact
<1> QED BY <1>3, <1>4, HeldNext DEF Exact, RefCountExact
-----------------------------------------------------------------------------
(* The invariant of a caller without liberties.  A batch for a VIP names each
   real once, and the reals it has dealt with are not named in what is left.  *)
RestIsNew ==
  \A i \in 1 .. Len(call.todo) :
    Known(call.todo[i].address) =>
      reals_[call.todo[i].address].num \notin UpdatedNums(call.ureals)

BatchInv ==
  call.op = "modifyReals" =>
    /\ Distinct(call.todo)
    /\ VipReals(call.vip) \subseteq call.cur_reals
    /\ call.cur_reals \subseteq VipReals(call.vip) \cup UpdatedNums(call.ureals)
    /\ call.action = "DEL" => call.cur_reals = VipReals(call.vip)
    /\ RestIsNew

\* What clearAllSrcRoutingRules has left to do are rules.
ClearInv == call.op = "clearSrc" => \A s \in call.left : lpmSrcMapping_[s] # 0

\* Server ids are not bound to two addresses.
QuicInv ==
  call.op = "quic" => ~call.released /\ (call.action = "ADD" => Unbound(call.todo))

UserInv == NoCrash /\ Exact /\ BatchInv /\ ClearInv /\ QuicInv

USE DEF vars, poolVars, vipVars, userVars, kernelVars

LEMMA SameUses ==
  ASSUME UNCHANGED userVars, SrcCounted' = SrcCounted, QuicCounted' = QuicCounted,
         \A v \in VipKey : VipUses(v)' = VipUses(v)
  PROVE  SameUsers
BY DEF SameUsers, VipsOf, RulesOf, IdsOf

LEMMA BetweenCalls ==
  ASSUME call = Idle
  PROVE  /\ \A v \in VipKey : VipUses(v) = VipReals(v)
         /\ SrcCounted = {s \in Src : lpmSrcMapping_[s] # 0}
         /\ QuicCounted = {id \in QuicId : quicMapping_[id] # Absent}
BY DEF Idle, VipUses, SrcCounted, QuicCounted

LEMMA BetweenCallsNext ==
  ASSUME call' = Idle
  PROVE  /\ \A v \in VipKey : VipUses(v)' = VipReals(v)'
         /\ SrcCounted' = {s \in Src : lpmSrcMapping_'[s] # 0}
         /\ QuicCounted' = {id \in QuicId : quicMapping_'[id] # Absent}
BY DEF Idle, VipUses, SrcCounted, QuicCounted

(* Calls of one step that add and remove no user *)
LEMMA QuietCall ==
  ASSUME IndInv, IndInv', UserInv, call = Idle, call' = Idle, UNCHANGED userVars,
         \A v \in VipKey : VipReals(v)' = VipReals(v),
         \A a \in Addr : reals_'[a].num = reals_[a].num /\ reals_'[a].refCount = reals_[a].refCount
  PROVE  UserInv'
<1>1. SameUsers
  BY BetweenCalls, BetweenCallsNext, SameUses
<1>2. Exact'
  BY <1>1, SameUsersKeep DEF UserInv
<1> QED BY <1>2 DEF UserInv, NoCrash, BatchInv, ClearInv, QuicInv, Idle, Crashed

LEMMA QuietCalls ==
  ASSUME IndInv, IndInv', UserInv,
         \/ \E a \in Addr, f \in SUBSET RealFlag, set \in BOOLEAN : modifyReal(a, f, set)
         \/ \E v \in VipKey, f \in SUBSET VipFlag : addVip(v, f)
         \/ \E v \in VipKey, f \in SUBSET VipFlag, set \in BOOLEAN : modifyVip(v, f, set)
         \/ \E v \in VipKey, func \in {"Maglev", "MaglevV2"} : changeHashFunctionForVip(v, func)
         \/ \E v \in VipKey : getRealsForVip(v) \/ getVipLruMissStats(v)
         \/ getSrcRoutingRule
         \/ \E id \in QuicId : invalidateServerId(id)
         \/ \E id \in QuicId, a \in Addr : revalidateServerId(id, a)
  PROVE  UserInv'
<1>1. call = Idle /\ call' = Idle /\ UNCHANGED userVars
  BY DEF modifyReal, addVip, modifyVip, changeHashFunctionForVip, getRealsForVip,
         getVipLruMissStats, getSrcRoutingRule, invalidateServerId, revalidateServerId
<1>2. ASSUME UNCHANGED vips_ PROVE \A v \in VipKey : VipReals(v)' = VipReals(v)
  BY <1>2 DEF VipReals
<1>3. vips_ \in [VipKey -> VipObject \cup {NoVip}]
  BY DEF IndInv, VipInv, VipType
<1>4. CASE \E a \in Addr, f \in SUBSET RealFlag, set \in BOOLEAN : modifyReal(a, f, set)
  <2>1. PICK a \in Addr, f \in SUBSET RealFlag, set \in BOOLEAN : modifyReal(a, f, set)
    BY <1>4
  <2>2. \E new : reals_' = [reals_ EXCEPT ![a].flags = new]
    BY <2>1 DEF modifyReal
  <2>3. reals_ \in [Addr -> RealMeta \cup {NoReal}] /\ reals_[a] \in RealMeta
    BY <2>1, KnownReal DEF IndInv, PoolInv, PoolType, modifyReal
  <2>4. reals_'[a].num = reals_[a].num /\ reals_'[a].refCount = reals_[a].refCount
    BY <2>2, <2>3 DEF RealMeta
  <2>5. \A b \in Addr : b # a => reals_'[b] = reals_[b]
    BY <2>2, <2>3
  <2>6. UNCHANGED vips_
    BY <2>1 DEF modifyReal
  <2> QED BY <1>1, <1>2, <2>4, <2>5, <2>6, QuietCall
<1>5. CASE \E v \in VipKey, f \in SUBSET VipFlag : addVip(v, f)
  <2>1. PICK v \in VipKey, f \in SUBSET VipFlag : addVip(v, f)
    BY <1>5
  <2>2. /\ vips_[v] = NoVip /\ UNCHANGED reals_
        /\ vips_' = [vips_ EXCEPT ![v] = [NoVip EXCEPT !.num = Head(vipNums_), !.flags = f]]
    BY <2>1 DEF addVip, HasVip
  <2>3. vips_'[v].weight = vips_[v].weight /\ \A w \in VipKey : w # v => vips_'[w] = vips_[w]
    BY <1>3, <2>2 DEF NoVip
  <2>4. \A w \in VipKey : VipReals(w)' = VipReals(w)
    BY <2>3 DEF VipReals
  <2> QED BY <1>1, <2>2, <2>4, QuietCall
<1>6. CASE \E v \in VipKey, f \in SUBSET VipFlag, set \in BOOLEAN : modifyVip(v, f, set)
  <2>1. PICK v \in VipKey, f \in SUBSET VipFlag, set \in BOOLEAN : modifyVip(v, f, set)
    BY <1>6
  <2>2. \E new : vips_' = [vips_ EXCEPT ![v].flags = new]
    BY <2>1 DEF modifyVip
  <2>3. vips_[v] \in VipObject /\ UNCHANGED reals_
    BY <1>3, <2>1 DEF modifyVip, HasVip
  <2>4. vips_'[v].weight = vips_[v].weight /\ \A w \in VipKey : w # v => vips_'[w] = vips_[w]
    BY <1>3, <2>2, <2>3 DEF VipObject
  <2>5. \A w \in VipKey : VipReals(w)' = VipReals(w)
    BY <2>4 DEF VipReals
  <2> QED BY <1>1, <2>3, <2>5, QuietCall
<1>7. CASE \E v \in VipKey, func \in {"Maglev", "MaglevV2"} : changeHashFunctionForVip(v, func)
  <2>1. PICK v \in VipKey, func \in {"Maglev", "MaglevV2"} : changeHashFunctionForVip(v, func)
    BY <1>7
  <2>2. vips_' = vips_ \/ \E new : vips_' = [vips_ EXCEPT ![v].ring = new]
    BY <2>1 DEF changeHashFunctionForVip
  <2>3. vips_[v] \in VipObject /\ UNCHANGED reals_
    BY <1>3, <2>1 DEF changeHashFunctionForVip, HasVip
  <2>4. vips_'[v].weight = vips_[v].weight /\ \A w \in VipKey : w # v => vips_'[w] = vips_[w]
    BY <1>3, <2>2, <2>3 DEF VipObject
  <2>5. \A w \in VipKey : VipReals(w)' = VipReals(w)
    BY <2>4 DEF VipReals
  <2> QED BY <1>1, <2>3, <2>5, QuietCall
<1>8. CASE UNCHANGED <<reals_, vips_>>
  BY <1>1, <1>2, <1>8, QuietCall
<1> QED BY <1>4, <1>5, <1>6, <1>7, <1>8
        DEF getRealsForVip, getVipLruMissStats, getSrcRoutingRule, invalidateServerId,
            revalidateServerId

LEMMA IdleUserInv == ASSUME call' = Idle, Exact' PROVE UserInv'
BY DEF UserInv, NoCrash, BatchInv, ClearInv, QuicInv, Idle, Crashed

LEMMA EmptyUpdate == UpdatedNums(<<>>) = {}
BY DEF UpdatedNums

LEMMA DelVipUsers ==
  ASSUME IndInv, IndInv', UserInv, NEW v \in VipKey, delVip(v)
  PROVE  UserInv'
<1>1. /\ call = Idle /\ UNCHANGED <<poolVars, vipVars, userVars, kernelVars>>
      /\ call' = [op |-> "delVip", vip |-> v, left |-> VipReals(v)]
  BY DEF delVip
<1>2. SrcCounted' = SrcCounted /\ QuicCounted' = QuicCounted
  BY <1>1, BetweenCalls DEF SrcCounted, QuicCounted
<1>3. \A w \in VipKey : VipUses(w)' = VipUses(w)
  BY <1>1, BetweenCalls DEF VipUses, VipReals
<1>4. Exact'
  BY <1>1, <1>2, <1>3, SameUses, SameUsersKeep DEF UserInv
<1> QED BY <1>1, <1>4 DEF UserInv, NoCrash, BatchInv, ClearInv, QuicInv, Crashed

LEMMA ModifyRealsUsers ==
  ASSUME IndInv, IndInv', UserInv, Liberties = {}, NEW v \in VipKey, NEW action \in Action,
         NEW b \in RealBatches(action), modifyRealsForVip(action, b, v)
  PROVE  UserInv'
<1>1. /\ call = Idle /\ UNCHANGED <<poolVars, vipVars, userVars, kernelVars>>
      /\ call' = [op |-> "modifyReals", action |-> action, vip |-> v,
                  todo |-> b, cur_reals |-> VipReals(v), ureals |-> <<>>]
  BY DEF modifyRealsForVip
<1>2. SrcCounted' = SrcCounted /\ QuicCounted' = QuicCounted
  BY <1>1, BetweenCalls DEF SrcCounted, QuicCounted
<1>3. \A w \in VipKey : VipReals(w)' = VipReals(w)
  BY <1>1 DEF VipReals
<1>4. \A w \in VipKey : VipUses(w)' = VipUses(w)
  BY <1>1, <1>3, BetweenCalls, EmptyUpdate DEF VipUses
<1>5. Exact'
  BY <1>1, <1>2, <1>4, SameUses, SameUsersKeep DEF UserInv
<1>6. Distinct(b)
  BY DEF RealBatches
<1>7. BatchInv'
  BY <1>1, <1>3, <1>6, EmptyUpdate DEF BatchInv, RestIsNew
<1> QED BY <1>1, <1>5, <1>7 DEF UserInv, NoCrash, ClearInv, QuicInv, Crashed

LEMMA ClearAllUsers ==
  ASSUME IndInv, IndInv', UserInv, clearAllSrcRoutingRules
  PROVE  UserInv'
<1>1. /\ call = Idle /\ UNCHANGED <<poolVars, vipVars, userVars, kernelVars>>
      /\ call' = [op |-> "clearSrc", left |-> {s \in Src : lpmSrcMapping_[s] # 0}]
  BY DEF clearAllSrcRoutingRules
<1>2. SrcCounted' = SrcCounted /\ QuicCounted' = QuicCounted
  BY <1>1, BetweenCalls DEF SrcCounted, QuicCounted
<1>3. \A w \in VipKey : VipUses(w)' = VipUses(w)
  BY <1>1, BetweenCalls DEF VipUses, VipReals
<1>4. Exact'
  BY <1>1, <1>2, <1>3, SameUses, SameUsersKeep DEF UserInv
<1> QED BY <1>1, <1>4 DEF UserInv, NoCrash, BatchInv, ClearInv, QuicInv, Crashed

LEMMA QuicUsers ==
  ASSUME IndInv, IndInv', UserInv, NEW action, NEW b, action = "ADD" => Unbound(b),
         modifyQuicRealsMapping(action, b)
  PROVE  UserInv'
<1>1. /\ call = Idle /\ UNCHANGED <<poolVars, vipVars, userVars, kernelVars>>
      /\ call' = [op |-> "quic", action |-> action, todo |-> b,
                  released |-> FALSE, to_update |-> [id \in QuicId |-> 0]]
  BY DEF modifyQuicRealsMapping
<1>2. SrcCounted' = SrcCounted /\ QuicCounted' = QuicCounted
  BY <1>1, BetweenCalls DEF SrcCounted, QuicCounted
<1>3. \A w \in VipKey : VipUses(w)' = VipUses(w)
  BY <1>1, BetweenCalls DEF VipUses, VipReals
<1>4. Exact'
  BY <1>1, <1>2, <1>3, SameUses, SameUsersKeep DEF UserInv
<1>5. QuicInv'
  BY <1>1 DEF QuicInv, Unbound
<1> QED BY <1>1, <1>4, <1>5 DEF UserInv, NoCrash, BatchInv, ClearInv, Crashed

(* A number in use belongs to a real, which numToReals_ finds. *)
LEMMA UsedNumber ==
  ASSUME IndInv, Exact, NEW n \in RealNum, VipsOf(n) # {} \/ RulesOf(n) # {}
  PROVE  \E a \in Addr : /\ Known(a) /\ reals_[a].num = n
                         /\ numToReals_[n] = a /\ numToReals_[n] # Absent
<1>1. PICK a \in Addr : Known(a) /\ reals_[a].num = n
  BY HeldIsNoDangling DEF Exact, Held
<1>2. numToReals_[n] = a
  BY <1>1 DEF IndInv, PoolInv, IndexAgrees
<1> QED BY <1>1, <1>2, DataAssumption

LEMMA AddSrcUsers ==
  ASSUME IndInv, IndInv', UserInv, NEW s \in Src, NEW a \in Addr, lpmSrcMapping_[s] = 0,
         addSrcRoutingRule(s, a)
  PROVE  UserInv'
<1>1. PICK n : n = NumFor(a)
  OBVIOUS
<1>2. /\ call = Idle /\ call' = Idle /\ n # MaxReals /\ UNCHANGED <<vips_, quicMapping_>>
      /\ lpmSrcMapping_' = [lpmSrcMapping_ EXCEPT ![s] = n]
      /\ \E ok : increaseRefCountForReal(a, {}, ok)
  BY <1>1 DEF addSrcRoutingRule
<1>3. n \in RealNum /\ n # 0
  BY <1>1, <1>2, NumForType, ConfigAssumption DEF IndInv, PoolInv, RealNum
<1>4. /\ \A w \in VipKey : VipUses(w)' = VipUses(w)
      /\ QuicCounted' = QuicCounted
      /\ SrcCounted = {t \in Src : lpmSrcMapping_[t] # 0}
      /\ SrcCounted' = {t \in Src : lpmSrcMapping_'[t] # 0}
  BY <1>2, BetweenCalls, BetweenCallsNext DEF VipReals
<1>5. lpmSrcMapping_'[s] = n /\ \A t \in Src : t # s => lpmSrcMapping_'[t] = lpmSrcMapping_[t]
  BY <1>2 DEF IndInv, UserType
<1>6. \A m \in RealNum : RulesOf(m)' = IF m = n THEN RulesOf(m) \cup {s} ELSE RulesOf(m)
  BY <1>3, <1>4, <1>5 DEF RulesOf
<1>7. (\A m : VipsOf(m)' = VipsOf(m)) /\ (\A b : IdsOf(b)' = IdsOf(b))
  BY <1>2, <1>4 DEF VipsOf, IdsOf
<1>8. s \in Src \ RulesOf(n)
  BY <1>3 DEF RulesOf
<1>9. OthersStay(n, a) /\ UserComes(n, a)
  BY <1>3, <1>6, <1>7, <1>8 DEF OthersStay, UserComes
<1>10. Exact'
  BY <1>1, <1>2, <1>9, MoreUser DEF UserInv
<1> QED BY <1>2, <1>10, IdleUserInv

LEMMA DelSrcUsers ==
  ASSUME IndInv, IndInv', UserInv, NEW s \in Src, delSrcRoutingRule(s)
  PROVE  UserInv'
<1>1. PICK n : n = lpmSrcMapping_[s]
  OBVIOUS
<1>2. /\ call = Idle /\ call' = Idle /\ n # 0 /\ UNCHANGED <<vips_, quicMapping_>>
      /\ lpmSrcMapping_' = [lpmSrcMapping_ EXCEPT ![s] = 0] /\ releaseNum(n)
  BY <1>1 DEF delSrcRoutingRule
<1>3. /\ \A w \in VipKey : VipUses(w)' = VipUses(w)
      /\ QuicCounted' = QuicCounted
      /\ SrcCounted = {t \in Src : lpmSrcMapping_[t] # 0}
      /\ SrcCounted' = {t \in Src : lpmSrcMapping_'[t] # 0}
  BY <1>2, BetweenCalls, BetweenCallsNext DEF VipReals
<1>4. n \in RealNum /\ s \in RulesOf(n)
  BY <1>1, <1>2, <1>3, UserNumbers DEF RulesOf
<1>5. PICK a \in Addr : /\ Known(a) /\ reals_[a].num = n
                        /\ numToReals_[n] = a /\ numToReals_[n] # Absent
  BY <1>4, UsedNumber DEF UserInv
<1>6. decreaseRefCountForReal(a)
  BY <1>2, <1>5 DEF releaseNum
<1>7. lpmSrcMapping_'[s] = 0 /\ \A t \in Src : t # s => lpmSrcMapping_'[t] = lpmSrcMapping_[t]
  BY <1>2 DEF IndInv, UserType
<1>8. \A m \in RealNum : RulesOf(m)' = IF m = n THEN RulesOf(m) \ {s} ELSE RulesOf(m)
  BY <1>1, <1>3, <1>4, <1>7 DEF RulesOf
<1>9. (\A m : VipsOf(m)' = VipsOf(m)) /\ (\A b : IdsOf(b)' = IdsOf(b))
  BY <1>2, <1>3 DEF VipsOf, IdsOf
<1>10. OthersStay(n, a) /\ UserGoes(n, a)
  BY <1>4, <1>8, <1>9 DEF OthersStay, UserGoes
<1>11. Exact'
  BY <1>5, <1>6, <1>10, LessUser DEF UserInv
<1> QED BY <1>2, <1>11, IdleUserInv

LEMMA DelVipRealUsers ==
  ASSUME IndInv, IndInv', UserInv, delVipReal
  PROVE  UserInv'
<1>1. PICK n \in call.left : releaseNum(n) /\ call' = [call EXCEPT !.left = @ \ {n}]
  BY DEF delVipReal
<1>2. call.op = "delVip" /\ call \in DelVipCall /\ UNCHANGED <<vips_, userVars>>
  BY CallFields DEF delVipReal, IndInv
<1>3. PICK v \in VipKey : v = call.vip
  BY <1>2 DEF DelVipCall
<1>4. call' = [op |-> "delVip", vip |-> v, left |-> call.left \ {n}]
  BY <1>1, <1>2, <1>3 DEF DelVipCall
<1>5. n \in RealNum
  BY <1>1, <1>2 DEF DelVipCall
<1>6. /\ VipUses(v) = call.left /\ VipUses(v)' = call.left \ {n}
      /\ \A w \in VipKey : w # v => VipUses(w) = VipReals(w) /\ VipUses(w)' = VipReals(w)
  BY <1>2, <1>3, <1>4 DEF VipUses, VipReals
<1>7. \A m \in RealNum : VipsOf(m)' = IF m = n THEN VipsOf(m) \ {v} ELSE VipsOf(m)
  BY <1>5, <1>6 DEF VipsOf
<1>8. v \in VipsOf(n)
  BY <1>6 DEF VipsOf
<1>9. (\A m : RulesOf(m)' = RulesOf(m)) /\ (\A b : IdsOf(b)' = IdsOf(b))
  BY <1>2, <1>4 DEF RulesOf, IdsOf, SrcCounted, QuicCounted
<1>10. PICK a \in Addr : /\ Known(a) /\ reals_[a].num = n
                         /\ numToReals_[n] = a /\ numToReals_[n] # Absent
  BY <1>5, <1>8, UsedNumber DEF UserInv
<1>11. decreaseRefCountForReal(a)
  BY <1>1, <1>10 DEF releaseNum
<1>12. OthersStay(n, a) /\ UserGoes(n, a)
  BY <1>5, <1>7, <1>8, <1>9 DEF OthersStay, UserGoes
<1>13. Exact'
  BY <1>10, <1>11, <1>12, LessUser DEF UserInv
<1> QED BY <1>4, <1>13 DEF UserInv, NoCrash, BatchInv, ClearInv, QuicInv, Crashed

LEMMA DelVipDoneUsers ==
  ASSUME IndInv, IndInv', UserInv, delVipDone
  PROVE  UserInv'
<1>1. /\ call.op = "delVip" /\ call \in DelVipCall /\ call.left = {}
      /\ UNCHANGED <<reals_, userVars>> /\ call' = Idle
      /\ vips_' = [vips_ EXCEPT ![call.vip] = NoVip]
  BY CallFields DEF delVipDone, IndInv
<1>2. PICK v \in VipKey : v = call.vip
  BY <1>1 DEF DelVipCall
<1>3. vips_'[v] = NoVip /\ \A w \in VipKey : w # v => vips_'[w] = vips_[w]
  BY <1>1, <1>2 DEF IndInv, VipInv, VipType
<1>4. VipReals(v)' = {} /\ \A w \in VipKey : w # v => VipReals(w)' = VipReals(w)
  BY <1>3 DEF VipReals, NoVip
<1>5. VipUses(v) = {} /\ \A w \in VipKey : w # v => VipUses(w) = VipReals(w)
  BY <1>1, <1>2 DEF VipUses
<1>6. \A w \in VipKey : VipUses(w)' = VipUses(w)
  BY <1>1, <1>4, <1>5, BetweenCallsNext
<1>7. SrcCounted' = SrcCounted /\ QuicCounted' = QuicCounted
  BY <1>1 DEF SrcCounted, QuicCounted, Idle
<1>8. Exact'
  BY <1>1, <1>6, <1>7, SameUses, SameUsersKeep DEF UserInv
<1> QED BY <1>1, <1>8, IdleUserInv

LEMMA ClearStepUsers ==
  ASSUME IndInv, IndInv', UserInv, clearSrcStep
  PROVE  UserInv'
<1>1. call.op = "clearSrc" /\ call \in ClearSrcCall /\ UNCHANGED <<vips_, userVars>>
  BY CallFields DEF clearSrcStep, IndInv
<1>2. PICK s \in call.left :
        \/ numToReals_[lpmSrcMapping_[s]] = Absent
        \/ /\ decreaseRefCountForReal(numToReals_[lpmSrcMapping_[s]])
           /\ call' = [call EXCEPT !.left = @ \ {s}]
  BY DEF clearSrcStep
<1>3. s \in SrcCounted
  BY <1>1, <1>2 DEF SrcCounted, ClearSrcCall, UserInv, ClearInv
<1>4. PICK n \in RealNum : n = lpmSrcMapping_[s]
  BY <1>3, UserNumbers
<1>5. s \in RulesOf(n)
  BY <1>3, <1>4 DEF RulesOf
<1>6. PICK a \in Addr : /\ Known(a) /\ reals_[a].num = n
                        /\ numToReals_[n] = a /\ numToReals_[n] # Absent
  BY <1>5, UsedNumber DEF UserInv
<1>7. decreaseRefCountForReal(a) /\ call' = [call EXCEPT !.left = @ \ {s}]
  BY <1>2, <1>4, <1>6
<1>8. call' = [op |-> "clearSrc", left |-> call.left \ {s}]
  BY <1>1, <1>7 DEF ClearSrcCall
<1>9. SrcCounted' = SrcCounted \ {s} /\ QuicCounted' = QuicCounted
  BY <1>1, <1>8 DEF SrcCounted, QuicCounted
<1>10. \A m : RulesOf(m)' = IF m = n THEN RulesOf(m) \ {s} ELSE RulesOf(m)
  BY <1>1, <1>4, <1>9 DEF RulesOf
<1>11. \A w \in VipKey : VipUses(w)' = VipUses(w)
  BY <1>1, <1>8 DEF VipUses, VipReals
<1>12. (\A m : VipsOf(m)' = VipsOf(m)) /\ (\A b : IdsOf(b)' = IdsOf(b))
  BY <1>1, <1>9, <1>11 DEF VipsOf, IdsOf
<1>13. OthersStay(n, a) /\ UserGoes(n, a)
  BY <1>5, <1>10, <1>12 DEF OthersStay, UserGoes
<1>14. Exact'
  BY <1>6, <1>7, <1>13, LessUser DEF UserInv
<1>15. ClearInv'
  BY <1>1, <1>8 DEF UserInv, ClearInv
<1> QED BY <1>8, <1>14, <1>15 DEF UserInv, NoCrash, BatchInv, QuicInv, Crashed

LEMMA ClearDoneUsers ==
  ASSUME IndInv, IndInv', UserInv, clearSrcDone
  PROVE  UserInv'
<1>1. /\ call.op = "clearSrc" /\ call.left = {} /\ call' = Idle
      /\ UNCHANGED <<reals_, vips_, quicMapping_>> /\ lpmSrcMapping_' = [s \in Src |-> 0]
  BY DEF clearSrcDone
<1>2. SrcCounted = {} /\ SrcCounted' = {} /\ QuicCounted' = QuicCounted
  BY <1>1 DEF SrcCounted, QuicCounted, Idle
<1>3. \A w \in VipKey : VipUses(w)' = VipUses(w)
  BY <1>1 DEF VipUses, VipReals, Idle
<1>4. SameUsers
  BY <1>1, <1>2, <1>3 DEF SameUsers, VipsOf, RulesOf, IdsOf
<1>5. Exact'
  BY <1>1, <1>4, SameUsersKeep DEF UserInv
<1> QED BY <1>1, <1>5, IdleUserInv

(* Batches for a VIP *)
LEMMA AppendUpdate ==
  ASSUME NEW u \in Seq(UpdateReal), NEW x \in UpdateReal
  PROVE  UpdatedNums(Append(u, x)) = UpdatedNums(u) \cup {x.num}
<1>1. /\ Len(u) \in Nat /\ Len(Append(u, x)) = Len(u) + 1
      /\ \A i \in 1 .. Len(u) : Append(u, x)[i] = u[i]
      /\ Append(u, x)[Len(u) + 1] = x
  BY AppendProperties
<1>2. 1 .. Len(u) + 1 = 1 .. Len(u) \cup {Len(u) + 1}
  BY <1>1
<1> QED BY <1>1, <1>2 DEF UpdatedNums

\* The rest of a batch still names other reals than those dealt with.
LEMMA BatchGoesOn ==
  ASSUME IndInv, BatchInv, call.op = "modifyReals", call.todo # <<>>,
         call'.todo = Tail(call.todo), NEW N,
         UpdatedNums(call.ureals)' \subseteq UpdatedNums(call.ureals) \cup N,
         \A b \in Addr : b # NextReal.address =>
           /\ Known(b)' => Known(b) /\ reals_[b].num \notin N
           /\ reals_'[b].num = reals_[b].num
  PROVE  Distinct(call.todo)' /\ RestIsNew'
<1>1. PICK t \in Seq(NewReal) : t = call.todo /\ t # <<>>
  BY CallFields DEF IndInv, ModifyRealsCall
<1>2. /\ Len(t) \in Nat \ {0} /\ Len(Tail(t)) = Len(t) - 1 /\ Head(t) = t[1]
      /\ \A i \in 1 .. Len(Tail(t)) : Tail(t)[i] = t[i + 1]
  BY <1>1, HeadTailProperties, EmptySeq
<1>3. \A i \in 1 .. Len(t) : t[i].address \in Addr
  <2>1. \A i \in 1 .. Len(t) : t[i] \in NewReal
    BY <1>1, ElementOfSeq
  <2> QED BY <2>1 DEF NewReal
<1>4. Distinct(t) /\ RestIsNew
  BY <1>1 DEF BatchInv
<1>5. \A i, j \in 1 .. Len(Tail(t)) :
        Tail(t)[i].address = Tail(t)[j].address => i = j
  <2> SUFFICES ASSUME NEW i \in 1 .. Len(Tail(t)), NEW j \in 1 .. Len(Tail(t)),
                      Tail(t)[i].address = Tail(t)[j].address
               PROVE  i = j
    OBVIOUS
  <2>1. i + 1 \in 1 .. Len(t) /\ j + 1 \in 1 .. Len(t)
    BY <1>2
  <2>2. i + 1 = j + 1
    BY <1>2, <1>4, <2>1 DEF Distinct
  <2> QED BY <2>2
<1>6. ASSUME NEW i \in 1 .. Len(Tail(t)), Known(Tail(t)[i].address)'
      PROVE  reals_'[Tail(t)[i].address].num \notin UpdatedNums(call.ureals)'
  <2>1. i + 1 \in 1 .. Len(t) /\ 1 \in 1 .. Len(t) /\ i + 1 # 1 /\ Tail(t)[i] = t[i + 1]
    BY <1>2
  <2>2. PICK b \in Addr : b = Tail(t)[i].address /\ b = t[i + 1].address
    BY <1>3, <2>1
  <2>3. b # NextReal.address
    BY <1>1, <1>2, <1>4, <2>1, <2>2 DEF Distinct, NextReal
  <2>4. Known(b)'
    BY <1>6, <2>2 DEF Known
  <2>5. Known(b) /\ reals_[b].num \notin N /\ reals_'[b].num = reals_[b].num
    BY <2>3, <2>4
  <2>6. Known(t[i + 1].address)
    BY <2>2, <2>5
  <2>7. reals_[t[i + 1].address].num \notin UpdatedNums(call.ureals)
    BY <1>1, <1>4, <2>1, <2>6 DEF RestIsNew
  <2> QED BY <2>2, <2>5, <2>7
<1>7. call'.todo = Tail(t)
  BY <1>1
<1>8. Distinct(call.todo)'
  BY <1>5, <1>7 DEF Distinct
<1>9. RestIsNew'
  BY <1>6, <1>7 DEF RestIsNew, Known
<1> QED BY <1>8, <1>9

\* The element at hand names none of the reals dealt with.
LEMMA NextIsNew ==
  ASSUME IndInv, BatchInv, call.op = "modifyReals", call.todo # <<>>, Known(NextReal.address)
  PROVE  reals_[NextReal.address].num \notin UpdatedNums(call.ureals)
<1>1. PICK t \in Seq(NewReal) : t = call.todo /\ t # <<>>
  BY CallFields DEF IndInv, ModifyRealsCall
<1>2. 1 \in 1 .. Len(t) /\ Head(t) = t[1]
  BY <1>1, HeadTailProperties, EmptySeq, LenProperties
<1>3. Known(t[1].address)
  BY <1>1, <1>2 DEF NextReal
<1> QED BY <1>1, <1>2, <1>3 DEF BatchInv, RestIsNew, NextReal

LEMMA DelRealUsers ==
  ASSUME IndInv, IndInv', UserInv, delRealStep
  PROVE  UserInv'
<1>1. /\ call.op = "modifyReals" /\ call.action = "DEL" /\ call.todo # <<>>
      /\ UNCHANGED <<vips_, userVars>>
  BY DEF delRealStep
<1>2. call \in ModifyRealsCall /\ NextReal \in NewReal
  BY <1>1, NextRealType DEF IndInv
<1>3. PICK a \in Addr : a = NextReal.address
  BY <1>2 DEF NewReal
<1>4. PICK v \in VipKey : v = call.vip
  BY <1>2 DEF ModifyRealsCall
<1>5. PICK n : n = reals_[a].num
  OBVIOUS
<1>6. BatchInv /\ Exact
  BY DEF UserInv
<1>7. /\ call.cur_reals = VipReals(v)
      /\ \A w \in VipKey : VipReals(w)' = VipReals(w)
  BY <1>1, <1>4, <1>6 DEF BatchInv, VipReals
<1>8. CASE call' = [call EXCEPT !.todo = Tail(@)] /\ UNCHANGED poolVars
  <2>1. /\ call'.op = "modifyReals" /\ call'.action = "DEL" /\ call'.vip = v
        /\ call'.todo = Tail(call.todo) /\ call'.ureals = call.ureals
        /\ call'.cur_reals = call.cur_reals
    BY <1>1, <1>2, <1>4, <1>8 DEF ModifyRealsCall
  <2>2. \A w \in VipKey : VipUses(w)' = VipUses(w)
    BY <1>1, <1>4, <1>7, <2>1 DEF VipUses
  <2>3. SrcCounted' = SrcCounted /\ QuicCounted' = QuicCounted
    BY <1>1, <2>1 DEF SrcCounted, QuicCounted
  <2>4. Exact'
    BY <1>1, <1>6, <1>8, <2>2, <2>3, SameUses, SameUsersKeep
  <2>5. Distinct(call.todo)' /\ RestIsNew'
    <3> PICK N : N = {}
      OBVIOUS
    <3>1. UpdatedNums(call.ureals)' \subseteq UpdatedNums(call.ureals) \cup N
      BY <2>1 DEF UpdatedNums
    <3>2. \A b \in Addr : b # NextReal.address =>
            /\ Known(b)' => Known(b) /\ reals_[b].num \notin N
            /\ reals_'[b].num = reals_[b].num
      BY <1>8 DEF Known
    <3> QED BY <1>1, <1>6, <2>1, <3>1, <3>2, BatchGoesOn
  <2>6. BatchInv'
    BY <1>4, <1>7, <2>1, <2>5 DEF BatchInv
  <2> QED BY <2>1, <2>4, <2>6 DEF UserInv, NoCrash, ClearInv, QuicInv, Crashed
<1>9. CASE /\ Known(a) /\ n \in call.cur_reals
           /\ decreaseRefCountForReal(a)
           /\ call' = [call EXCEPT !.todo = Tail(@),
                         !.ureals = Append(@, [num |-> n, weight |-> NextReal.weight])]
  <2>1. /\ call'.op = "modifyReals" /\ call'.action = "DEL" /\ call'.vip = v
        /\ call'.todo = Tail(call.todo) /\ call'.cur_reals = call.cur_reals
        /\ call'.ureals = Append(call.ureals, [num |-> n, weight |-> NextReal.weight])
    BY <1>1, <1>2, <1>4, <1>9 DEF ModifyRealsCall
  <2>2. n \in RealNum
    BY <1>5, <1>9, KnownReal DEF IndInv
  <2>3. UpdatedNums(call.ureals)' = UpdatedNums(call.ureals) \cup {n}
    <3>1. call.ureals \in Seq(UpdateReal)
      BY <1>2 DEF ModifyRealsCall
    <3>2. [num |-> n, weight |-> NextReal.weight] \in UpdateReal
      BY <1>2, <2>2 DEF UpdateReal, NewReal
    <3>3. UpdatedNums(call.ureals)' = UpdatedNums(call'.ureals)
      BY DEF UpdatedNums
    <3> QED BY <2>1, <3>1, <3>2, <3>3, AppendUpdate
  <2>4. n \notin UpdatedNums(call.ureals)
    BY <1>1, <1>3, <1>5, <1>6, <1>9, NextIsNew
  <2>5. /\ VipUses(v) = VipReals(v) \ UpdatedNums(call.ureals)
        /\ VipUses(v)' = VipReals(v) \ (UpdatedNums(call.ureals) \cup {n})
        /\ \A w \in VipKey : w # v => VipUses(w)' = VipUses(w)
    BY <1>1, <1>4, <1>7, <2>1, <2>3 DEF VipUses
  <2>6. \A m \in RealNum : VipsOf(m)' = IF m = n THEN VipsOf(m) \ {v} ELSE VipsOf(m)
    BY <2>2, <2>5 DEF VipsOf
  <2>7. v \in VipsOf(n)
    BY <1>7, <1>9, <2>4, <2>5 DEF VipsOf
  <2>8. (\A m : RulesOf(m)' = RulesOf(m)) /\ (\A b : IdsOf(b)' = IdsOf(b))
    BY <1>1, <2>1 DEF RulesOf, IdsOf, SrcCounted, QuicCounted
  <2>9. OthersStay(n, a) /\ UserGoes(n, a)
    BY <2>2, <2>6, <2>7, <2>8 DEF OthersStay, UserGoes
  <2>10. Exact'
    BY <1>5, <1>6, <1>9, <2>9, LessUser
  <2>11. Distinct(call.todo)' /\ RestIsNew'
    <3>1. ASSUME NEW b \in Addr, b # a
          PROVE  /\ Known(b)' => Known(b) /\ reals_[b].num \notin {n}
                 /\ reals_'[b].num = reals_[b].num
      <4>1. reals_'[b] = reals_[b]
        BY <1>9, <3>1, DecreaseKnown DEF IndInv, PoolInv, PoolType
      <4>2. Known(b)' => Known(b)
        BY <4>1 DEF Known
      <4>3. Known(b) => reals_[b].num # n
        BY <1>5, <1>9, <3>1 DEF IndInv, PoolInv, NumberConservation
      <4> QED BY <4>1, <4>2, <4>3
    <3> QED BY <1>1, <1>3, <1>6, <2>1, <2>3, <3>1, BatchGoesOn
  <2>12. BatchInv'
    BY <1>4, <1>7, <2>1, <2>11 DEF BatchInv
  <2> QED BY <2>1, <2>10, <2>12 DEF UserInv, NoCrash, ClearInv, QuicInv, Crashed
<1> QED BY <1>3, <1>5, <1>8, <1>9 DEF delRealStep

(* What increaseRefCountForReal leaves alone; the number it takes is nobody
   else's.                                                                 *)
LEMMA OthersUnmoved ==
  ASSUME IndInv, NEW a \in Addr, NEW flags, NEW ok, increaseRefCountForReal(a, flags, ok),
         NEW b \in Addr, b # a
  PROVE  /\ reals_'[b].num = reals_[b].num
         /\ Known(b)' => Known(b)
         /\ Known(b) /\ NumFor(a) # MaxReals => reals_[b].num # NumFor(a)
<1>1. reals_'[b] = reals_[b]
  BY DEF increaseRefCountForReal, IndInv, PoolInv, PoolType
<1>2. Known(b)' => Known(b)
  BY <1>1 DEF Known
<1>3. ASSUME Known(b), NumFor(a) # MaxReals PROVE reals_[b].num # NumFor(a)
  <2>1. CASE Known(a)
    BY <1>3, <2>1 DEF NumFor, IndInv, PoolInv, NumberConservation
  <2>2. CASE ~Known(a)
    <3>1. realNums_ # <<>> /\ NumFor(a) = Head(realNums_)
      BY <1>3, <2>2 DEF NumFor
    <3>2. 1 \in 1 .. Len(realNums_) /\ NumFor(a) = realNums_[1]
      BY <3>1, HeadTailProperties, LenProperties, EmptySeq DEF IndInv, PoolInv, PoolType
    <3> QED BY <1>3, <3>2 DEF IndInv, PoolInv, NumberConservation
  <2> QED BY <2>1, <2>2
<1> QED BY <1>1, <1>2, <1>3

(* A number taken from the free list has no user. *)
LEMMA FreshUnused ==
  ASSUME IndInv, Exact, NEW a \in Addr, ~Known(a), NumFor(a) # MaxReals
  PROVE  VipsOf(NumFor(a)) = {}
<1>1. PICK n \in RealNum : n = NumFor(a)
  BY NumForType DEF IndInv, PoolInv
<1>2. realNums_ # <<>> /\ n = Head(realNums_)
  BY <1>1 DEF NumFor
<1>3. 1 \in 1 .. Len(realNums_) /\ n = realNums_[1]
  BY <1>2, HeadTailProperties, LenProperties, EmptySeq DEF IndInv, PoolInv, PoolType
<1>4. \A b \in Addr : Known(b) => reals_[b].num # n
  BY <1>3 DEF IndInv, PoolInv, NumberConservation
<1>5. VipsOf(n) = {}
  BY <1>4, HeldIsNoDangling DEF Exact, Held
<1> QED BY <1>1, <1>5

LEMMA AddRealUsers ==
  ASSUME IndInv, IndInv', UserInv, addRealStep
  PROVE  UserInv'
<1>1. /\ call.op = "modifyReals" /\ call.action = "ADD" /\ call.todo # <<>>
      /\ UNCHANGED <<vips_, userVars>>
  BY DEF addRealStep
<1>2. call \in ModifyRealsCall /\ NextReal \in NewReal
  BY <1>1, NextRealType DEF IndInv
<1>3. PICK a \in Addr : a = NextReal.address
  BY <1>2 DEF NewReal
<1>4. PICK v \in VipKey : v = call.vip
  BY <1>2 DEF ModifyRealsCall
<1>5. PICK n \in RealNum \cup {MaxReals} : n = NumFor(a)
  BY NumForType DEF IndInv, PoolInv
<1>6. BatchInv /\ Exact
  BY DEF UserInv
<1>7. PICK more : more = Append(call.ureals, [num |-> n, weight |-> NextReal.weight])
  OBVIOUS
<1>8. /\ VipReals(v) \subseteq call.cur_reals
      /\ call.cur_reals \subseteq VipReals(v) \cup UpdatedNums(call.ureals)
      /\ \A w \in VipKey : VipReals(w)' = VipReals(w)
  BY <1>1, <1>4, <1>6 DEF BatchInv, VipReals
<1>9. n # MaxReals =>
        n \in RealNum /\ UpdatedNums(more) = UpdatedNums(call.ureals) \cup {n}
  <2>1. call.ureals \in Seq(UpdateReal)
    BY <1>2 DEF ModifyRealsCall
  <2>2. n # MaxReals => [num |-> n, weight |-> NextReal.weight] \in UpdateReal
    BY <1>2 DEF UpdateReal, NewReal
  <2>3. n # MaxReals => UpdatedNums(Append(call.ureals, [num |-> n, weight |-> NextReal.weight]))
                          = UpdatedNums(call.ureals) \cup {n}
    BY <2>1, <2>2, AppendUpdate
  <2> QED BY <1>7, <2>3
<1>10. /\ call'.op = "modifyReals" /\ call'.action = "ADD" /\ call'.vip = v
       /\ call'.todo = Tail(call.todo)
  BY <1>1, <1>2, <1>3, <1>4, <1>5, <1>7 DEF addRealStep, ModifyRealsCall
<1>11. SrcCounted' = SrcCounted /\ QuicCounted' = QuicCounted
  BY <1>1, <1>10 DEF SrcCounted, QuicCounted
<1>12. /\ VipUses(v) = VipReals(v) \cup UpdatedNums(call.ureals)
       /\ VipUses(v)' = VipReals(v) \cup UpdatedNums(call.ureals)'
       /\ \A w \in VipKey : w # v => VipUses(w)' = VipUses(w)
  BY <1>1, <1>4, <1>8, <1>10 DEF VipUses, UpdatedNums
\* the element adds no user
<1>13. CASE UNCHANGED poolVars /\ VipUses(v)' = VipUses(v)
            /\ call'.cur_reals = call.cur_reals
            /\ (n # MaxReals => Known(a))
            /\ UpdatedNums(call.ureals)'
                 = UpdatedNums(call.ureals) \cup (IF n = MaxReals THEN {} ELSE {n})
  <2>1. \A w \in VipKey : VipUses(w)' = VipUses(w)
    BY <1>12, <1>13
  <2>2. Exact'
    BY <1>1, <1>6, <1>11, <1>13, <2>1, SameUses, SameUsersKeep
  <2>3. PICK N : N = IF n = MaxReals THEN {} ELSE {n}
    OBVIOUS
  <2>4. ASSUME NEW b \in Addr, b # a
        PROVE  /\ Known(b)' => Known(b) /\ reals_[b].num \notin N
               /\ reals_'[b].num = reals_[b].num
    <3>1. (Known(b)' <=> Known(b)) /\ reals_'[b] = reals_[b]
      BY <1>13 DEF Known
    <3>2. Known(b) /\ n # MaxReals => reals_[b].num # n
      BY <1>5, <1>13, <2>4 DEF NumFor, IndInv, PoolInv, NumberConservation
    <3> QED BY <2>3, <3>1, <3>2
  <2>5. UpdatedNums(call.ureals)' \subseteq UpdatedNums(call.ureals) \cup N
    BY <1>13, <2>3
  <2>6. Distinct(call.todo)' /\ RestIsNew'
    BY <1>1, <1>3, <1>6, <1>10, <2>4, <2>5, BatchGoesOn
  <2>7. BatchInv'
    BY <1>4, <1>8, <1>10, <1>13, <2>6 DEF BatchInv
  <2> QED BY <1>10, <2>2, <2>7 DEF UserInv, NoCrash, ClearInv, QuicInv, Crashed
\* the element adds the VIP to the users of n
<1>14. CASE /\ n # MaxReals /\ v \notin VipsOf(n)
            /\ \E ok : increaseRefCountForReal(a, NextReal.flags, ok)
            /\ call'.cur_reals = call.cur_reals \/ call'.cur_reals = call.cur_reals \cup {n}
            /\ UpdatedNums(call.ureals)' = UpdatedNums(call.ureals) \cup {n}
  <2>1. VipUses(v)' = VipUses(v) \cup {n}
    BY <1>12, <1>14
  <2>2. \A m \in RealNum : VipsOf(m)' = IF m = n THEN VipsOf(m) \cup {v} ELSE VipsOf(m)
    BY <1>9, <1>12, <1>14, <2>1 DEF VipsOf
  <2>3. (\A m : RulesOf(m)' = RulesOf(m)) /\ (\A b : IdsOf(b)' = IdsOf(b))
    BY <1>1, <1>11 DEF RulesOf, IdsOf
  <2>4. OthersStay(n, a) /\ UserComes(n, a)
    BY <1>9, <1>14, <2>2, <2>3 DEF OthersStay, UserComes
  <2>5. Exact'
    BY <1>5, <1>6, <1>14, <2>4, MoreUser
  <2>6. PICK N : N = {n}
    OBVIOUS
  <2>7. ASSUME NEW b \in Addr, b # a
        PROVE  /\ Known(b)' => Known(b) /\ reals_[b].num \notin N
               /\ reals_'[b].num = reals_[b].num
    BY <1>5, <1>14, <2>6, <2>7, OthersUnmoved
  <2>8. UpdatedNums(call.ureals)' \subseteq UpdatedNums(call.ureals) \cup N
    BY <1>14, <2>6
  <2>9. Distinct(call.todo)' /\ RestIsNew'
    BY <1>1, <1>3, <1>6, <1>10, <2>7, <2>8, BatchGoesOn
  <2>10. BatchInv'
    BY <1>4, <1>8, <1>10, <1>14, <2>9 DEF BatchInv
  <2> QED BY <1>10, <2>5, <2>10 DEF UserInv, NoCrash, ClearInv, QuicInv, Crashed
<1>15. call'.ureals = more => UpdatedNums(call.ureals)' = UpdatedNums(more)
  BY DEF UpdatedNums
<1>16. CASE /\ Known(a) /\ n \in call.cur_reals
            /\ call' = [call EXCEPT !.todo = Tail(@), !.ureals = more]
            /\ UNCHANGED <<poolVars, reals, bpfFailed>>
  <2>1. call'.ureals = more /\ call'.cur_reals = call.cur_reals
    BY <1>2, <1>16 DEF ModifyRealsCall
  <2>2. n # MaxReals
    <3>1. n \in RealNum
      BY <1>5, <1>16, KnownReal DEF NumFor, IndInv
    <3> QED BY <3>1, ConfigAssumption DEF RealNum
  <2>3. VipUses(v)' = VipUses(v)
    BY <1>8, <1>9, <1>12, <1>15, <1>16, <2>1, <2>2
  <2> QED BY <1>9, <1>13, <1>15, <1>16, <2>1, <2>2, <2>3
<1>17. CASE /\ Known(a) /\ n \notin call.cur_reals
            /\ increaseRefCountForReal(a, NextReal.flags, TRUE)
            /\ call' = [call EXCEPT !.todo = Tail(@), !.ureals = more,
                                    !.cur_reals = @ \cup {n}]
  <2>1. call'.ureals = more /\ call'.cur_reals = call.cur_reals \cup {n}
    BY <1>2, <1>17 DEF ModifyRealsCall
  <2>2. n # MaxReals /\ n = reals_[a].num
    <3>1. n \in RealNum /\ n = reals_[a].num
      BY <1>5, <1>17, KnownReal DEF NumFor, IndInv
    <3> QED BY <3>1, ConfigAssumption DEF RealNum
  <2>3. n \notin UpdatedNums(call.ureals)
    BY <1>1, <1>3, <1>6, <1>17, <2>2, NextIsNew
  <2>4. v \notin VipsOf(n)
    BY <1>8, <1>12, <1>17, <2>3 DEF VipsOf
  <2> QED BY <1>9, <1>14, <1>15, <1>17, <2>1, <2>2, <2>4
<1>18. CASE /\ ~Known(a)
            /\ \E ok \in RealsOutcomes(a) : increaseRefCountForReal(a, NextReal.flags, ok)
            /\ call' = [call EXCEPT !.todo = Tail(@),
                          !.ureals = IF n = MaxReals THEN @ ELSE more]
  <2>1. /\ call'.ureals = IF n = MaxReals THEN call.ureals ELSE more
        /\ call'.cur_reals = call.cur_reals
    BY <1>2, <1>18 DEF ModifyRealsCall
  <2>2. CASE n = MaxReals
    <3>1. realNums_ = <<>>
      <4>1. realNums_ # <<>> => Head(realNums_) \in RealNum
        BY HeadTailProperties DEF IndInv, PoolInv, PoolType
      <4>2. MaxReals \notin RealNum
        BY ConfigAssumption DEF RealNum
      <4> QED BY <1>5, <1>18, <2>2, <4>1, <4>2 DEF NumFor
    <3>2. UNCHANGED poolVars
      BY <1>18, <3>1 DEF increaseRefCountForReal
    <3>3. UpdatedNums(call.ureals)' = UpdatedNums(call.ureals)
      BY <2>1, <2>2 DEF UpdatedNums
    <3>4. VipUses(v)' = VipUses(v)
      BY <1>12, <3>3
    <3> QED BY <1>13, <2>1, <2>2, <3>2, <3>3, <3>4
  <2>3. CASE n # MaxReals
    <3>1. v \notin VipsOf(n)
      BY <1>5, <1>6, <1>18, <2>3, FreshUnused
    <3> QED BY <1>9, <1>14, <1>15, <1>18, <2>1, <2>3, <3>1
  <2> QED BY <2>2, <2>3
<1> QED BY <1>3, <1>5, <1>7, <1>16, <1>17, <1>18 DEF addRealStep

LEMMA LastUpdateIs ==
  ASSUME NEW ureals \in Seq(UpdateReal), NEW n \in UpdatedNums(ureals)
  PROVE  /\ LastUpdate(ureals, n) \in 1 .. Len(ureals)
         /\ ureals[LastUpdate(ureals, n)].num = n
         /\ \A j \in LastUpdate(ureals, n) + 1 .. Len(ureals) : ureals[j].num # n
         /\ ureals[LastUpdate(ureals, n)].weight \in Weight
<1> DEFINE T == {i \in 1 .. Len(ureals) : ureals[i].num = n}
           k == Len(ureals)
<1>1. k \in Nat /\ T \subseteq 1 .. k /\ T # {}
  BY DEF UpdatedNums
<1>2. \E i \in T : \A j \in i + 1 .. k : j \notin T
  <2> HIDE DEF T, k
  <2> QED BY <1>1, LastExists
<1>3. PICK i \in T : \A j \in i + 1 .. k : j \notin T
  BY <1>2
<1>4. \A j \in i + 1 .. k : j \in 1 .. k
  BY <1>1, <1>3
<1>5. \E l \in 1 .. Len(ureals) : /\ ureals[l].num = n
                                 /\ \A j \in l + 1 .. Len(ureals) : ureals[j].num # n
  BY <1>3, <1>4
<1>6. /\ LastUpdate(ureals, n) \in 1 .. Len(ureals)
      /\ ureals[LastUpdate(ureals, n)].num = n
      /\ \A j \in LastUpdate(ureals, n) + 1 .. Len(ureals) : ureals[j].num # n
  BY <1>5 DEF LastUpdate
<1>7. \A l \in 1 .. Len(ureals) : ureals[l] \in UpdateReal
  BY ElementOfSeq
<1>8. \A l \in 1 .. Len(ureals) : ureals[l].weight \in Weight
  BY <1>7 DEF UpdateReal
<1> QED BY <1>6, <1>8

(* The reals a batch leaves a VIP with: those updated come or go. *)
LEMMA RealsAfter ==
  ASSUME NEW v \in VipKey, NEW action \in Action, NEW ureals \in Seq(UpdateReal)
  PROVE  {n \in RealNum : NewWeight(v, action, ureals)[n] # NoWeight}
           = IF action = "ADD" THEN VipReals(v) \cup UpdatedNums(ureals)
                               ELSE VipReals(v) \ UpdatedNums(ureals)
<1>1. UpdatedNums(ureals) \subseteq RealNum
  <2>1. \A i \in 1 .. Len(ureals) : ureals[i] \in UpdateReal
    BY ElementOfSeq
  <2> QED BY <2>1 DEF UpdatedNums, UpdateReal
<1>2. ASSUME NEW n \in RealNum
      PROVE  NewWeight(v, action, ureals)[n] # NoWeight
               <=> IF action = "ADD" THEN n \in VipReals(v) \cup UpdatedNums(ureals)
                                     ELSE n \in VipReals(v) \ UpdatedNums(ureals)
  <2>1. CASE n \notin UpdatedNums(ureals)
    BY <2>1 DEF NewWeight, VipReals
  <2>2. CASE n \in UpdatedNums(ureals) /\ action = "DEL"
    BY <2>2 DEF NewWeight
  <2>3. CASE n \in UpdatedNums(ureals) /\ action # "DEL"
    <3>1. PICK w \in Weight : w = ureals[LastUpdate(ureals, n)].weight
      BY <2>3, LastUpdateIs
    <3>2. w # NoWeight
      BY DataAssumption DEF NoWeight
    <3>3. NewWeight(v, action, ureals)[n] = w
      BY <2>3, <3>1 DEF NewWeight
    <3>4. action = "ADD"
      BY <2>3 DEF Action
    <3> QED BY <2>3, <3>2, <3>3, <3>4
  <2> QED BY <2>1, <2>2, <2>3
<1>3. VipReals(v) \subseteq RealNum
  BY DEF VipReals
<1> QED BY <1>1, <1>2, <1>3

(* modifyRealsDone gives the VIP its new weights and, if there are endpoints,
   a ring of them.                                                         *)
LEMMA VipAfterBatch ==
  ASSUME IndInv, modifyRealsDone
  PROVE  \E v \in VipKey :
           /\ v = call.vip /\ HasVip(v)
           /\ call.action \in Action /\ call.ureals \in Seq(UpdateReal)
           /\ vips_'[v].weight = NewWeight(v, call.action, call.ureals)
           /\ LET endpoints == getEndpoints(v, call.action, call.ureals)
              IN \/ DOMAIN endpoints = {} /\ vips_'[v].ring = vips_[v].ring
                 \/ vips_'[v].ring \in Rings("Maglev", endpoints, ChRingSize)
           /\ vips_'[v].num = vips_[v].num /\ vips_'[v].flags = vips_[v].flags
           /\ vips_[v] \in VipObject
           /\ \A w \in VipKey : w # v => vips_'[w] = vips_[w]
<1>1. call \in ModifyRealsCall /\ HasVip(call.vip)
  BY CallFields DEF IndInv, modifyRealsDone
<1>2. PICK v \in VipKey : v = call.vip /\ HasVip(v)
  BY <1>1 DEF ModifyRealsCall
<1>3. PICK Endp : Endp = getEndpoints(v, call.action, call.ureals)
  OBVIOUS
<1>4. PICK W : W = NewWeight(v, call.action, call.ureals)
  OBVIOUS
<1>6. vips_[v] \in VipObject /\ vips_ \in [VipKey -> VipObject \cup {NoVip}]
  BY <1>2 DEF IndInv, VipInv, VipType, HasVip
<1>5. PICK ring :
        /\ vips_' = [vips_ EXCEPT ![v] = [vips_[v] EXCEPT !.weight = W, !.ring = ring]]
        /\ \/ DOMAIN Endp = {} /\ ring = vips_[v].ring
           \/ ring \in Rings("Maglev", Endp, ChRingSize)
  BY <1>2, <1>3, <1>4, <1>6, DoneVip DEF IndInv
<1>7. /\ vips_'[v] = [vips_[v] EXCEPT !.weight = W, !.ring = ring]
      /\ \A w \in VipKey : w # v => vips_'[w] = vips_[w]
  BY <1>5, <1>6
<1>8. /\ vips_'[v].weight = W /\ vips_'[v].ring = ring
      /\ vips_'[v].num = vips_[v].num /\ vips_'[v].flags = vips_[v].flags
  BY <1>6, <1>7 DEF VipObject
<1>9. call.action \in Action /\ call.ureals \in Seq(UpdateReal)
  BY <1>1 DEF ModifyRealsCall
<1> QED BY <1>2, <1>3, <1>4, <1>5, <1>6, <1>7, <1>8, <1>9

LEMMA ModifyRealsDoneUsers ==
  ASSUME IndInv, IndInv', UserInv, modifyRealsDone
  PROVE  UserInv'
<1>1. /\ call.op = "modifyReals" /\ call' = Idle /\ UNCHANGED <<reals_, userVars>>
  BY DEF modifyRealsDone
<1>2. PICK v \in VipKey :
        /\ v = call.vip
        /\ call.action \in Action /\ call.ureals \in Seq(UpdateReal)
        /\ vips_'[v].weight = NewWeight(v, call.action, call.ureals)
        /\ \A w \in VipKey : w # v => vips_'[w] = vips_[w]
  BY VipAfterBatch
<1>3. VipReals(v)' = IF call.action = "ADD" THEN VipReals(v) \cup UpdatedNums(call.ureals)
                                            ELSE VipReals(v) \ UpdatedNums(call.ureals)
  BY <1>2, RealsAfter DEF VipReals
<1>4. VipReals(v)' = VipUses(v)
  BY <1>1, <1>2, <1>3 DEF VipUses, Action
<1>5. \A w \in VipKey : w # v => VipReals(w)' = VipReals(w) /\ VipUses(w) = VipReals(w)
  BY <1>1, <1>2 DEF VipReals, VipUses
<1>6. \A w \in VipKey : VipUses(w)' = VipUses(w)
  BY <1>1, <1>4, <1>5, BetweenCallsNext
<1>7. SrcCounted' = SrcCounted /\ QuicCounted' = QuicCounted
  BY <1>1 DEF SrcCounted, QuicCounted, Idle
<1>8. Exact'
  BY <1>1, <1>6, <1>7, SameUses, SameUsersKeep DEF UserInv
<1> QED BY <1>1, <1>8, IdleUserInv

(* Server ids *)
LEMMA BoundIds ==
  ASSUME UserInv, call.op = "quic"
  PROVE  /\ QuicCounted = {id \in QuicId : quicMapping_[id] # Absent}
         /\ SrcCounted = {s \in Src : lpmSrcMapping_[s] # 0}
         /\ \A v \in VipKey : VipUses(v) = VipReals(v)
BY DEF UserInv, QuicInv, QuicCounted, SrcCounted, VipUses

LEMMA BoundIdsNext ==
  ASSUME call'.op = "quic", call'.released = FALSE
  PROVE  /\ QuicCounted' = {id \in QuicId : quicMapping_'[id] # Absent}
         /\ SrcCounted' = {s \in Src : lpmSrcMapping_'[s] # 0}
         /\ \A v \in VipKey : VipUses(v)' = VipReals(v)'
BY DEF QuicCounted, SrcCounted, VipUses

LEMMA DelQuicUsers ==
  ASSUME IndInv, IndInv', UserInv, delQuicStep
  PROVE  UserInv'
<1>1. /\ call.op = "quic" /\ call.action = "DEL" /\ call.todo # <<>>
      /\ UNCHANGED <<vips_, lpmSrcMapping_>> /\ call' = [call EXCEPT !.todo = Tail(@)]
  BY DEF delQuicStep
<1>2. call \in QuicCall /\ NextQuic.id \in QuicId /\ NextQuic.address \in Addr
  BY <1>1, NextQuicType DEF IndInv
<1>3. call'.op = "quic" /\ call'.action = "DEL" /\ call'.released = FALSE
  BY <1>1, <1>2 DEF QuicCall, UserInv, QuicInv
<1>4. PICK id \in QuicId, a \in Addr : id = NextQuic.id /\ a = NextQuic.address
  BY <1>2
<1>5. \A v \in VipKey : VipUses(v)' = VipUses(v)
  BY <1>1, <1>3, BoundIds, BoundIdsNext DEF VipReals
<1>6. SrcCounted' = SrcCounted
  BY <1>1, <1>3, BoundIds, BoundIdsNext
<1>7. CASE UNCHANGED <<poolVars, quicMapping_>>
  <2>1. QuicCounted' = QuicCounted
    BY <1>1, <1>3, <1>7, BoundIds, BoundIdsNext
  <2>2. Exact'
    BY <1>1, <1>5, <1>6, <1>7, <2>1, SameUses, SameUsersKeep DEF UserInv
  <2> QED BY <1>3, <2>2 DEF UserInv, NoCrash, BatchInv, ClearInv, QuicInv, Crashed
<1>8. CASE /\ quicMapping_[id] = a
           /\ decreaseRefCountForReal(a)
           /\ quicMapping_' = [quicMapping_ EXCEPT ![id] = Absent]
  <2>1. quicMapping_'[id] = Absent /\ \A j \in QuicId : j # id => quicMapping_'[j] = quicMapping_[j]
    BY <1>8 DEF IndInv, UserType
  <2>2. id \in QuicCounted /\ a # Absent
    BY <1>1, <1>8, BoundIds, DataAssumption
  <2>3. Known(a)
    BY <1>8, <2>2 DEF UserInv, Exact, NoDangling
  <2>4. PICK n : n = reals_[a].num
    OBVIOUS
  <2>5. QuicCounted' = QuicCounted \ {id}
    BY <1>1, <1>3, <2>1, BoundIds, BoundIdsNext
  <2>6. \A b \in Addr : IdsOf(b)' = IF b = a THEN IdsOf(b) \ {id} ELSE IdsOf(b)
    BY <1>8, <2>1, <2>2, <2>5 DEF IdsOf
  <2>7. id \in IdsOf(a)
    BY <1>8, <2>2 DEF IdsOf
  <2>8. (\A m : RulesOf(m)' = RulesOf(m)) /\ (\A m : VipsOf(m)' = VipsOf(m))
    BY <1>1, <1>5, <1>6 DEF RulesOf, VipsOf
  <2>9. OthersStay(n, a) /\ UserGoes(n, a)
    BY <2>6, <2>7, <2>8 DEF OthersStay, UserGoes
  <2>10. Exact'
    BY <1>8, <2>3, <2>4, <2>9, LessUser DEF UserInv
  <2> QED BY <1>3, <2>10 DEF UserInv, NoCrash, BatchInv, ClearInv, QuicInv, Crashed
<1> QED BY <1>4, <1>7, <1>8 DEF delQuicStep

(* The rest of an ADD batch may still be bound, and binds other ids. *)
LEMMA QuicGoesOn ==
  ASSUME IndInv, call.op = "quic", call.todo # <<>>, Unbound(call.todo),
         call'.todo = Tail(call.todo),
         \A id \in QuicId : id # NextQuic.id => quicMapping_'[id] = quicMapping_[id]
  PROVE  /\ Unbound(call.todo)'
         /\ quicMapping_[NextQuic.id] \in {Absent, NextQuic.address}
         /\ \A i \in 1 .. Len(Tail(call.todo)) : Tail(call.todo)[i].id # NextQuic.id
<1>1. PICK t \in Seq(QuicReal) : t = call.todo /\ t # <<>>
  BY CallFields DEF IndInv, QuicCall
<1>2. /\ Len(t) \in Nat \ {0} /\ Len(Tail(t)) = Len(t) - 1 /\ Head(t) = t[1]
      /\ \A i \in 1 .. Len(Tail(t)) : Tail(t)[i] = t[i + 1]
  BY <1>1, HeadTailProperties, EmptySeq
<1>3. \A i \in 1 .. Len(t) : t[i].id \in QuicId
  <2>1. \A i \in 1 .. Len(t) : t[i] \in QuicReal
    BY <1>1, ElementOfSeq
  <2> QED BY <2>1 DEF QuicReal
<1>4. NextQuic = t[1] /\ 1 \in 1 .. Len(t)
  BY <1>1, <1>2 DEF NextQuic
<1>5. \A i \in 1 .. Len(t) :
        /\ quicMapping_[t[i].id] \in {Absent, t[i].address}
        /\ \A j \in 1 .. Len(t) : t[j].id = t[i].id => i = j
  BY <1>1 DEF Unbound
<1>6. \A i \in 1 .. Len(Tail(t)) :
        i + 1 \in 1 .. Len(t) /\ i + 1 # 1 /\ Tail(t)[i] = t[i + 1]
  BY <1>2
<1>7. \A i \in 1 .. Len(Tail(t)) : Tail(t)[i].id # NextQuic.id
  BY <1>4, <1>5, <1>6
<1>8. ASSUME NEW i \in 1 .. Len(Tail(t))
      PROVE  /\ quicMapping_'[Tail(t)[i].id] \in {Absent, Tail(t)[i].address}
             /\ \A j \in 1 .. Len(Tail(t)) : Tail(t)[j].id = Tail(t)[i].id => i = j
  <2>1. quicMapping_'[Tail(t)[i].id] = quicMapping_[Tail(t)[i].id]
    BY <1>3, <1>6, <1>7
  <2>2. ASSUME NEW j \in 1 .. Len(Tail(t)), Tail(t)[j].id = Tail(t)[i].id PROVE i = j
    <3>1. i + 1 = j + 1
      BY <1>5, <1>6, <2>2
    <3> QED BY <3>1
  <2> QED BY <1>5, <1>6, <2>1, <2>2
<1>9. Unbound(call.todo)'
  <2>1. call'.todo = Tail(t)
    BY <1>1
  <2> QED BY <1>8, <2>1 DEF Unbound
<1> QED BY <1>1, <1>4, <1>5, <1>7, <1>9

LEMMA AddQuicUsers ==
  ASSUME IndInv, IndInv', UserInv, addQuicStep
  PROVE  UserInv'
<1>1. /\ call.op = "quic" /\ call.action = "ADD" /\ call.todo # <<>>
      /\ UNCHANGED <<vips_, lpmSrcMapping_>>
  BY DEF addQuicStep
<1>2. call \in QuicCall /\ NextQuic.id \in QuicId /\ NextQuic.address \in Addr
  BY <1>1, NextQuicType DEF IndInv
<1>3. ~call.released /\ Unbound(call.todo)
  BY <1>1 DEF UserInv, QuicInv
<1>4. PICK id \in QuicId, a \in Addr : id = NextQuic.id /\ a = NextQuic.address
  BY <1>2
<1>5. PICK n \in RealNum \cup {MaxReals} : n = NumFor(a)
  BY NumForType DEF IndInv, PoolInv
<1>6. /\ call'.op = "quic" /\ call'.action = "ADD" /\ call'.released = FALSE
      /\ call'.todo = Tail(call.todo)
  BY <1>1, <1>2 DEF addQuicStep, QuicCall
<1>7. \A v \in VipKey : VipUses(v)' = VipUses(v)
  BY <1>1, <1>6, BoundIds, BoundIdsNext DEF VipReals
<1>8. SrcCounted' = SrcCounted
  BY <1>1, <1>6, BoundIds, BoundIdsNext
<1>9. CASE UNCHANGED <<poolVars, quicMapping_>>
  <2>1. QuicCounted' = QuicCounted
    BY <1>1, <1>6, <1>9, BoundIds, BoundIdsNext
  <2>2. Exact'
    BY <1>1, <1>7, <1>8, <1>9, <2>1, SameUses, SameUsersKeep DEF UserInv
  <2>3. Unbound(call.todo)'
    BY <1>1, <1>3, <1>6, <1>9, QuicGoesOn
  <2> QED BY <1>6, <2>2, <2>3 DEF UserInv, NoCrash, BatchInv, ClearInv, QuicInv, Crashed
<1>10. CASE /\ quicMapping_[id] # a
            /\ n # MaxReals
            /\ \E ok : increaseRefCountForReal(a, {}, ok)
            /\ quicMapping_' = [quicMapping_ EXCEPT ![id] = a]
  <2>1. quicMapping_'[id] = a /\ \A j \in QuicId : j # id => quicMapping_'[j] = quicMapping_[j]
    BY <1>10 DEF IndInv, UserType
  <2>2. /\ Unbound(call.todo)' /\ quicMapping_[id] = Absent
    BY <1>1, <1>3, <1>4, <1>6, <1>10, <2>1, QuicGoesOn
  <2>3. a # Absent
    BY DataAssumption
  <2>4. id \notin QuicCounted /\ QuicCounted' = QuicCounted \cup {id}
    BY <1>1, <1>6, <2>1, <2>2, <2>3, BoundIds, BoundIdsNext
  <2>5. \A b \in Addr : IdsOf(b)' = IF b = a THEN IdsOf(b) \cup {id} ELSE IdsOf(b)
    BY <2>1, <2>4 DEF IdsOf, QuicCounted
  <2>6. id \in QuicId \ IdsOf(a)
    BY <2>4 DEF IdsOf
  <2>7. (\A m : RulesOf(m)' = RulesOf(m)) /\ (\A m : VipsOf(m)' = VipsOf(m))
    BY <1>1, <1>7, <1>8 DEF RulesOf, VipsOf
  <2>8. OthersStay(n, a) /\ UserComes(n, a)
    BY <2>5, <2>6, <2>7 DEF OthersStay, UserComes
  <2>9. Exact'
    BY <1>5, <1>10, <2>8, MoreUser DEF UserInv
  <2> QED BY <1>6, <2>2, <2>9 DEF UserInv, NoCrash, BatchInv, ClearInv, QuicInv, Crashed
\* an empty pool
<1>11. CASE n = MaxReals /\ UNCHANGED quicMapping_ /\ \E ok : increaseRefCountForReal(a, {}, ok)
  <2>1. MaxReals \notin RealNum
    BY ConfigAssumption DEF RealNum
  <2>2. ~Known(a)
    BY <1>5, <1>11, <2>1, KnownReal DEF NumFor, IndInv
  <2>3. realNums_ = <<>>
    <3>1. realNums_ # <<>> => Head(realNums_) \in RealNum
      BY HeadTailProperties DEF IndInv, PoolInv, PoolType
    <3> QED BY <1>5, <1>11, <2>1, <2>2, <3>1 DEF NumFor
  <2>4. UNCHANGED poolVars
    BY <1>11, <2>2, <2>3 DEF increaseRefCountForReal
  <2> QED BY <1>9, <1>11, <2>4
<1> QED BY <1>4, <1>5, <1>9, <1>10, <1>11 DEF addQuicStep

LEMMA OverrideNever ==
  ASSUME IndInv, UserInv, overrideQuicStep
  PROVE  FALSE
<1>1. /\ call.op = "quic" /\ call.action = "ADD" /\ call.todo # <<>>
      /\ quicMapping_[NextQuic.id] \notin {Absent, NextQuic.address}
  BY DEF overrideQuicStep
<1>2. PICK t \in Seq(QuicReal) : t = call.todo /\ t # <<>>
  BY <1>1, CallFields DEF IndInv, QuicCall
<1>3. 1 \in 1 .. Len(t) /\ NextQuic = t[1]
  BY <1>2, HeadTailProperties, EmptySeq, LenProperties DEF NextQuic
<1> QED BY <1>1, <1>2, <1>3 DEF UserInv, QuicInv, Unbound

LEMMA QuicDoneUsers ==
  ASSUME IndInv, IndInv', UserInv, quicDone
  PROVE  UserInv'
<1>1. call.op = "quic" /\ call' = Idle /\ UNCHANGED <<reals_, vips_, userVars>>
  BY DEF quicDone
<1>2. /\ SrcCounted' = SrcCounted /\ QuicCounted' = QuicCounted
      /\ \A v \in VipKey : VipUses(v)' = VipUses(v)
  BY <1>1, BoundIds, BetweenCallsNext DEF VipReals
<1>3. Exact'
  BY <1>1, <1>2, SameUses, SameUsersKeep DEF UserInv
<1> QED BY <1>1, <1>3, IdleUserInv
-----------------------------------------------------------------------------
LEMMA StutterUsers ==
  ASSUME IndInv, IndInv', UserInv, UNCHANGED vars
  PROVE  UserInv'
<1>1. UNCHANGED <<reals_, vips_, userVars>> /\ call' = call
  OBVIOUS
<1>2. /\ SrcCounted' = SrcCounted /\ QuicCounted' = QuicCounted
      /\ \A v \in VipKey : VipUses(v)' = VipUses(v)
  BY <1>1 DEF SrcCounted, QuicCounted, VipUses, VipReals, UpdatedNums, NextQuic
<1>3. Exact'
  BY <1>1, <1>2, SameUses, SameUsersKeep DEF UserInv
<1>4. ClearInv' /\ QuicInv' /\ NoCrash'
  BY <1>1 DEF UserInv, ClearInv, QuicInv, NoCrash, Unbound
<1>5. /\ Distinct(call.todo)' <=> Distinct(call.todo)
      /\ VipReals(call.vip)' = VipReals(call.vip)
      /\ UpdatedNums(call.ureals)' = UpdatedNums(call.ureals)
      /\ RestIsNew' <=> RestIsNew
  BY <1>1 DEF Distinct, VipReals, UpdatedNums, RestIsNew, Known
<1>6. BatchInv'
  BY <1>1, <1>5 DEF UserInv, BatchInv
<1> QED BY <1>3, <1>4, <1>6 DEF UserInv

LEMMA InitUsers == Init => UserInv
<1> SUFFICES ASSUME Init PROVE UserInv
  OBVIOUS
<1>1. call = Idle
  BY DEF Init
<1>2. \A v \in VipKey : VipUses(v) = {}
  BY <1>1, BetweenCalls DEF VipReals, Init, NoVip
<1>3. SrcCounted = {} /\ QuicCounted = {}
  BY <1>1, BetweenCalls DEF Init
<1>4. \A a \in Addr : ~Known(a)
  BY DEF Init, Known
<1>5. Exact
  BY <1>2, <1>3, <1>4 DEF Exact, NoDangling, RefCountExact
<1> QED BY <1>1, <1>5 DEF UserInv, NoCrash, BatchInv, ClearInv, QuicInv, Idle, Crashed

LEMMA CallerUsers ==
  ASSUME IndInv, IndInv', UserInv, Liberties = {}, CallerStep
  PROVE  UserInv'
<1>1. CASE \E v \in VipKey : delVip(v)
  BY <1>1, DelVipUsers
<1>2. CASE \E v \in VipKey, action \in Action : \E b \in RealBatches(action) :
             modifyRealsForVip(action, b, v)
  BY <1>2, ModifyRealsUsers
<1>3. CASE \E s \in Src, a \in Addr : lpmSrcMapping_[s] = 0 /\ addSrcRoutingRule(s, a)
  BY <1>3, AddSrcUsers
<1>4. CASE \E s \in Src : delSrcRoutingRule(s)
  BY <1>4, DelSrcUsers
<1>5. CASE clearAllSrcRoutingRules
  BY <1>5, ClearAllUsers
<1>6. CASE \E b \in Batches(QuicReal) : Unbound(b) /\ modifyQuicRealsMapping("ADD", b)
  BY <1>6, QuicUsers
<1>7. CASE \E b \in Batches(QuicReal) : modifyQuicRealsMapping("DEL", b)
  BY <1>7, QuicUsers
<1> QED BY <1>1, <1>2, <1>3, <1>4, <1>5, <1>6, <1>7, QuietCalls DEF CallerStep

LEMMA LoopUsers ==
  ASSUME IndInv, IndInv', UserInv, LoopStep
  PROVE  UserInv'
BY DelVipRealUsers, DelVipDoneUsers, DelRealUsers, AddRealUsers, ModifyRealsDoneUsers,
   ClearStepUsers, ClearDoneUsers, DelQuicUsers, OverrideNever, AddQuicUsers, QuicDoneUsers
   DEF LoopStep

(* UserInv is inductive for a caller without liberties. *)
THEOREM UsersInductive == Liberties = {} => (Spec => []UserInv)
<1> SUFFICES ASSUME Liberties = {} PROVE Spec => []UserInv
  OBVIOUS
<1>1. IndInv /\ IndInv' /\ UserInv /\ [Next]_vars => UserInv'
  <2>1. Dead => UNCHANGED vars
    BY DEF Dead
  <2> QED BY <2>1, CallerUsers, LoopUsers, StutterUsers DEF Next
<1> QED BY <1>1, InitUsers, Inductive, PTL DEF Spec

(* A caller that names a real once in a batch, re-binds no server id and
   re-adds no rule never makes a VIP, a rule or a server id keep a number that
   decreaseRefCountForReal gave back, in the middle of a batch either.      *)
THEOREM NothingDangles == Liberties = {} => (Spec => []NoDangling)
<1>1. UserInv => NoDangling
  BY DEF UserInv, Exact
<1> QED BY <1>1, UsersInductive, PTL

(* Nor does reals_ ever count more or fewer users than a real has: no number
   leaks.                                                                  *)
THEOREM CountsExact == Liberties = {} => (Spec => []RefCountExact)
<1>1. UserInv => RefCountExact
  BY DEF UserInv, Exact
<1> QED BY <1>1, UsersInductive, PTL

(* Nor does clearAllSrcRoutingRules meet a rule whose number numToReals_ does
   not hold, and dereference end().                                        *)
THEOREM NeverCrashes == Liberties = {} => (Spec => []NoCrash)
<1>1. UserInv => NoCrash
  BY DEF UserInv
<1> QED BY <1>1, UsersInductive, PTL

(* Entries of the empty address *)

NoStrayEntries == emptyReal = "none" /\ \A n \in RealNum : numToReals_[n] # EmptyAddr

LEMMA AllocatedIsIndexed ==
  ASSUME IndInv
  PROVE  \A n \in Allocated : n \in RealNum /\ numToReals_[n] \in Addr /\ numToReals_[n] # Absent
BY KnownReal, DataAssumption DEF IndInv, PoolInv, IndexAgrees, Allocated

LEMMA DecreaseNoStray ==
  ASSUME IndInv, NoStrayEntries, NEW a \in Addr, decreaseRefCountForReal(a)
  PROVE  NoStrayEntries'
<1>1. /\ UNCHANGED emptyReal
      /\ \A n \in RealNum : numToReals_'[n] \in {numToReals_[n], Absent}
  BY DataAssumption DEF decreaseRefCountForReal, IndInv, PoolInv, PoolType
<1> QED BY <1>1, DataAssumption DEF NoStrayEntries

LEMMA ReleaseNoStray ==
  ASSUME IndInv, NoStrayEntries, NEW n \in Allocated, releaseNum(n)
  PROVE  NoStrayEntries'
BY AllocatedIsIndexed, DecreaseNoStray DEF releaseNum

LEMMA IncreaseNoStray ==
  ASSUME IndInv, NoStrayEntries, NEW a \in Addr, NEW flags, NEW ok,
         increaseRefCountForReal(a, flags, ok)
  PROVE  NoStrayEntries'
<1>1. /\ UNCHANGED emptyReal
      /\ \A n \in RealNum : numToReals_'[n] \in {numToReals_[n], a}
  BY DEF increaseRefCountForReal, IndInv, PoolInv, PoolType
<1> QED BY <1>1, DataAssumption DEF NoStrayEntries

LEMMA ReadNoStray ==
  ASSUME IndInv, NoStrayEntries, NEW nums, nums \cap RealNum \subseteq Allocated,
         numToReals_' = ReadThrough(nums)
  PROVE  \A n \in RealNum : numToReals_'[n] # EmptyAddr
BY AllocatedIsIndexed DEF ReadThrough, NoStrayEntries

LEMMA CallerNoStray ==
  ASSUME IndInv, UserInv, NoStrayEntries, CallerStep
  PROVE  NoStrayEntries'
<1>1. CASE UNCHANGED <<emptyReal, numToReals_>>
  BY <1>1 DEF NoStrayEntries
<1>2. call = Idle => /\ \A v \in VipKey : VipReals(v) \subseteq Allocated
                    /\ \A s \in Src : lpmSrcMapping_[s] # 0 => lpmSrcMapping_[s] \in Allocated
  BY BetweenCalls DEF UserInv, Exact, NoDangling
<1>3. ASSUME NEW s \in Src, NEW a \in Addr, addSrcRoutingRule(s, a) PROVE NoStrayEntries'
  BY <1>3, IncreaseNoStray DEF addSrcRoutingRule
<1>4. ASSUME NEW s \in Src, delSrcRoutingRule(s) PROVE NoStrayEntries'
  BY <1>2, <1>4, ReleaseNoStray DEF delSrcRoutingRule
<1>5. ASSUME NEW v \in VipKey, getRealsForVip(v) PROVE NoStrayEntries'
  <2>1. \A n \in RealNum : numToReals_'[n] # EmptyAddr
    BY <1>2, <1>5, ReadNoStray DEF getRealsForVip
  <2>2. VipReals(v) \subseteq RealNum
    BY DEF VipReals
  <2>3. emptyReal' = emptyReal
    BY <1>5, <2>1, <2>2 DEF getRealsForVip
  <2> QED BY <2>1, <2>3 DEF NoStrayEntries
<1>6. ASSUME NEW v \in VipKey, getVipLruMissStats(v) PROVE NoStrayEntries'
  <2>1. PICK read \in SUBSET VipReals(v) : numToReals_' = ReadThrough(read)
    BY <1>6 DEF getVipLruMissStats
  <2>2. read \cap RealNum \subseteq Allocated
    BY <1>2, <1>6, <2>1 DEF getVipLruMissStats
  <2>3. \A n \in RealNum : numToReals_'[n] # EmptyAddr
    BY <2>1, <2>2, ReadNoStray
  <2> QED BY <1>6, <2>3 DEF getVipLruMissStats, NoStrayEntries
<1>7. CASE getSrcRoutingRule
  <2>1. 0 \notin RealNum
    BY ConfigAssumption DEF RealNum
  <2>2. {lpmSrcMapping_[s] : s \in Src} \cap RealNum \subseteq Allocated
    BY <1>2, <1>7, <2>1 DEF getSrcRoutingRule
  <2>3. \A n \in RealNum : numToReals_'[n] # EmptyAddr
    BY <1>7, <2>2, ReadNoStray DEF getSrcRoutingRule
  <2> QED BY <1>7, <2>3 DEF getSrcRoutingRule, NoStrayEntries
<1>8. \/ UNCHANGED <<emptyReal, numToReals_>>
      \/ \E s \in Src, a \in Addr : addSrcRoutingRule(s, a)
      \/ \E s \in Src : delSrcRoutingRule(s)
      \/ \E v \in VipKey : getRealsForVip(v)
      \/ \E v \in VipKey : getVipLruMissStats(v)
      \/ getSrcRoutingRule
  BY DEF CallerStep, modifyReal, addVip, modifyVip, changeHashFunctionForVip, delVip,
         modifyRealsForVip, clearAllSrcRoutingRules, modifyQuicRealsMapping,
         invalidateServerId, revalidateServerId
<1> QED BY <1>1, <1>3, <1>4, <1>5, <1>6, <1>7, <1>8

LEMMA LoopNoStray ==
  ASSUME IndInv, UserInv, NoStrayEntries, LoopStep
  PROVE  NoStrayEntries'
<1>1. CASE UNCHANGED <<emptyReal, numToReals_>>
  BY <1>1 DEF NoStrayEntries
<1>2. ASSUME delVipReal PROVE NoStrayEntries'
  <2>1. PICK n \in call.left : releaseNum(n)
    BY <1>2 DEF delVipReal
  <2>2. call.vip \in VipKey /\ VipUses(call.vip) = call.left
    BY <1>2, CallFields DEF delVipReal, IndInv, DelVipCall, VipUses
  <2>3. n \in Allocated
    BY <2>1, <2>2 DEF UserInv, Exact, NoDangling
  <2> QED BY <2>1, <2>3, ReleaseNoStray
<1>3. ASSUME clearSrcStep PROVE NoStrayEntries'
  <2>1. PICK s \in call.left :
          \/ UNCHANGED <<emptyReal, numToReals_>>
          \/ decreaseRefCountForReal(numToReals_[lpmSrcMapping_[s]])
    BY <1>3 DEF clearSrcStep
  <2>2. s \in SrcCounted
    BY <1>3, CallFields DEF clearSrcStep, IndInv, ClearSrcCall, SrcCounted, UserInv, ClearInv
  <2>3. numToReals_[lpmSrcMapping_[s]] \in Addr
    BY <2>2, AllocatedIsIndexed DEF UserInv, Exact, NoDangling
  <2> QED BY <1>1, <2>1, <2>3, DecreaseNoStray
<1>4. ASSUME delRealStep \/ addRealStep PROVE NoStrayEntries'
  <2>1. NextReal.address \in Addr
    BY <1>4, NextRealType DEF delRealStep, addRealStep, IndInv, NewReal
  <2> QED BY <1>1, <1>4, <2>1, DecreaseNoStray, IncreaseNoStray DEF delRealStep, addRealStep
<1>5. ASSUME delQuicStep \/ addQuicStep PROVE NoStrayEntries'
  <2>1. NextQuic.address \in Addr
    BY <1>5, NextQuicType DEF delQuicStep, addQuicStep, IndInv
  <2> QED BY <1>1, <1>5, <2>1, DecreaseNoStray, IncreaseNoStray DEF delQuicStep, addQuicStep
<1>6. CASE delVipDone \/ modifyRealsDone \/ clearSrcDone \/ quicDone
  BY <1>1, <1>6 DEF delVipDone, modifyRealsDone, clearSrcDone, quicDone
<1> QED BY <1>2, <1>3, <1>4, <1>5, <1>6, OverrideNever DEF LoopStep

(* Nor do the operator[] reads of delVip, delSrcRoutingRule and the getters
   ever insert folly::IPAddress() into numToReals_ or reals_: for this caller
   the two maps are inverse to each other without exception.               *)
THEOREM NothingStrays == Liberties = {} => (Spec => [](NoStrayEntries /\ IndexAgrees))
<1> SUFFICES ASSUME Liberties = {} PROVE Spec => [](NoStrayEntries /\ IndexAgrees)
  OBVIOUS
<1>1. Init => NoStrayEntries
  BY DataAssumption DEF Init, NoStrayEntries
<1>2. IndInv /\ UserInv /\ NoStrayEntries /\ [Next]_vars => NoStrayEntries'
  <2>1. Dead \/ UNCHANGED vars => UNCHANGED <<emptyReal, numToReals_>>
    BY DEF Dead
  <2> QED BY <2>1, CallerNoStray, LoopNoStray DEF Next, NoStrayEntries
<1> QED BY <1>1, <1>2, Inductive, IndexCorrect, UsersInductive, PTL DEF Spec
-----------------------------------------------------------------------------
(* Rings.  RingServesVip is inductive by itself, whatever the caller does. *)

VipRing(v) == Serving(v) # {} =>
  /\ vips_[v].ring # {}
  /\ vips_[v].ring \subseteq VipReals(v)
  /\ TotalWeight(vips_[v].weight) <= ChRingSize => Serving(v) \subseteq vips_[v].ring
  /\ "rehashDrained" \notin Liberties => vips_[v].ring \subseteq Serving(v)

(* The total is over the endpoints with a positive weight. *)
LEMMA TotalIsOfPositive ==
  ASSUME NEW w, NEW x, Positive(x) = Positive(w), \A n \in Positive(w) : x[n] = w[n]
  PROVE  TotalWeight(x) = TotalWeight(w)
<1>1. [n \in Positive(x) |-> x[n]] = [n \in Positive(w) |-> w[n]]
  OBVIOUS
<1> QED BY <1>1 DEF TotalWeight

LEMMA SameVipRing ==
  ASSUME NEW v \in VipKey, VipRing(v),
         vips_'[v].weight = vips_[v].weight, vips_'[v].ring = vips_[v].ring
  PROVE  VipRing(v)'
<1>1. Serving(v)' = Serving(v) /\ VipReals(v)' = VipReals(v)
  BY DEF Serving, VipReals
<1>2. TotalWeight(vips_[v].weight)' = TotalWeight(vips_[v].weight)
  OBVIOUS
<1> QED BY <1>1, <1>2 DEF VipRing

LEMMA RingsOfVips == RingServesVip <=> \A v \in VipKey : VipRing(v)
BY DEF RingServesVip, VipRing

LEMMA RingsOfVipsNext == (RingServesVip <=> \A v \in VipKey : VipRing(v))'
BY RingsOfVips, PTL

LEMMA OthersRing ==
  ASSUME RingServesVip, NEW v \in VipKey, \A w \in VipKey : w # v => vips_'[w] = vips_[w], VipRing(v)'
  PROVE  RingServesVip'
<1>1. ASSUME NEW w \in VipKey PROVE VipRing(w)'
  BY SameVipRing, RingsOfVips
<1> QED BY <1>1, RingsOfVipsNext

LEMMA ServingIsOfVip == \A v \in VipKey : Serving(v) \subseteq VipReals(v)
BY DEF Serving, VipReals, NoWeight

LEMMA ServingIsOfVipNext == (\A v \in VipKey : Serving(v) \subseteq VipReals(v))'
BY ServingIsOfVip, PTL

LEMMA AddVipRing ==
  ASSUME IndInv, RingServesVip, NEW v \in VipKey, NEW f \in SUBSET VipFlag, addVip(v, f)
  PROVE  RingServesVip'
<1>1. vips_' = [vips_ EXCEPT ![v] = [NoVip EXCEPT !.num = Head(vipNums_), !.flags = f]]
  BY DEF addVip
<1>2. vips_ \in [VipKey -> VipObject \cup {NoVip}]
  BY DEF IndInv, VipInv, VipType
<1>3. /\ vips_'[v].weight = [n \in RealNum |-> NoWeight]
      /\ \A w \in VipKey : w # v => vips_'[w] = vips_[w]
  BY <1>1, <1>2 DEF NoVip
<1>4. Serving(v)' = {}
  BY <1>3 DEF Serving, NoWeight
<1> QED BY <1>3, <1>4, OthersRing DEF VipRing

LEMMA DelVipRing ==
  ASSUME IndInv, RingServesVip, delVipDone
  PROVE  RingServesVip'
<1>1. call.vip \in VipKey /\ vips_' = [vips_ EXCEPT ![call.vip] = NoVip]
  BY CallFields DEF delVipDone, IndInv, DelVipCall
<1>2. PICK v \in VipKey : v = call.vip
  BY <1>1
<1>3. vips_'[v] = NoVip /\ \A w \in VipKey : w # v => vips_'[w] = vips_[w]
  BY <1>1, <1>2 DEF IndInv, VipInv, VipType
<1>4. Serving(v)' = {}
  BY <1>3 DEF Serving, NoVip, NoWeight
<1> QED BY <1>3, <1>4, OthersRing DEF VipRing

LEMMA ModifyVipRing ==
  ASSUME IndInv, RingServesVip, NEW v \in VipKey, NEW f \in SUBSET VipFlag, NEW set \in BOOLEAN,
         modifyVip(v, f, set)
  PROVE  RingServesVip'
<1>1. \E new : vips_' = [vips_ EXCEPT ![v].flags = new]
  BY DEF modifyVip
<1>2. vips_[v] \in VipObject /\ vips_ \in [VipKey -> VipObject \cup {NoVip}]
  BY DEF modifyVip, HasVip, IndInv, VipInv, VipType
<1>3. /\ vips_'[v].weight = vips_[v].weight /\ vips_'[v].ring = vips_[v].ring
      /\ \A w \in VipKey : w # v => vips_'[w] = vips_[w]
  BY <1>1, <1>2 DEF VipObject
<1> QED BY <1>3, SameVipRing, OthersRing, RingsOfVips

LEMMA PositiveIsServing ==
  ASSUME NEW v \in VipKey, vips_[v] \in VipObject
  PROVE  Positive(vips_[v].weight) = Serving(v)
BY DEF Positive, Serving, VipObject

LEMMA ChangeHashRing ==
  ASSUME IndInv, RingServesVip, NEW v \in VipKey, NEW func \in {"Maglev", "MaglevV2"},
         changeHashFunctionForVip(v, func),
         func = "Maglev" /\ HalfDrained(v) => "rehashDrained" \in Liberties
  PROVE  RingServesVip'
<1>1. vips_[v] \in VipObject /\ vips_ \in [VipKey -> VipObject \cup {NoVip}]
  BY DEF changeHashFunctionForVip, HasVip, IndInv, VipInv, VipType
<1>2. CASE UNCHANGED vips_
  BY <1>2, SameVipRing, OthersRing, RingsOfVips
<1>3. CASE \E new \in recalculateHashRing(v, func) : vips_' = [vips_ EXCEPT ![v].ring = new]
  <2> DEFINE w == vips_[v].weight
             E == Endpoints(w, VipReals(v))
  <2>1. PICK new \in Rings(func, E, ChRingSize) : vips_' = [vips_ EXCEPT ![v].ring = new]
    BY <1>3 DEF recalculateHashRing
  <2>2. /\ vips_'[v].weight = w /\ vips_'[v].ring = new
        /\ \A x \in VipKey : x # v => vips_'[x] = vips_[x]
    BY <1>1, <2>1 DEF VipObject
  <2>3. Serving(v)' = Serving(v) /\ VipReals(v)' = VipReals(v)
    BY <2>2 DEF Serving, VipReals
  <2>4. /\ DOMAIN E = VipReals(v) /\ Serving(v) \subseteq VipReals(v)
        /\ \A n \in VipReals(v) : E[n] = w[n]
    BY ServingIsOfVip DEF Endpoints
  <2>5. Positive(E) = Serving(v) /\ Positive(w) = Serving(v)
    <3>1. Positive(E) = {n \in VipReals(v) : w[n] > 0}
      BY <2>4 DEF Positive
    <3> QED BY <1>1, <2>4, <3>1, PositiveIsServing DEF Serving, VipReals
  <2>6. TotalWeight(E) = TotalWeight(w)
    BY <2>4, <2>5, TotalIsOfPositive
  <2>7. TotalWeight(vips_[v].weight)' = TotalWeight(w)
    BY <2>2
  <2> HIDE DEF w, E
  <2>8. /\ new # {} /\ new \subseteq VipReals(v)
        /\ TotalWeight(E) <= ChRingSize => Serving(v) \subseteq new
        /\ func = "MaglevV2" /\ Serving(v) # {} => new \subseteq Serving(v)
    BY <2>1, <2>4, <2>5 DEF Rings
  <2>9. "rehashDrained" \notin Liberties /\ Serving(v) # {} => new \subseteq Serving(v)
    BY <2>8 DEF HalfDrained
  <2> QED BY <2>2, <2>3, <2>6, <2>7, <2>8, <2>9, OthersRing DEF VipRing
<1> QED BY <1>2, <1>3 DEF changeHashFunctionForVip

(* A batch that changes no weight leaves the reals that serve as they were. *)
LEMMA UnchangedServing ==
  ASSUME NEW v \in VipKey, vips_[v] \in VipObject, NEW action \in Action,
         NEW ureals \in Seq(UpdateReal), ~RealsChanged(v, action, ureals), NEW n \in RealNum
  PROVE  \/ NewWeight(v, action, ureals)[n] = vips_[v].weight[n]
         \/ NewWeight(v, action, ureals)[n] = 0 /\ vips_[v].weight[n] = NoWeight
<1>1. CASE n \notin UpdatedNums(ureals)
  BY <1>1 DEF NewWeight
<1>2. CASE n \in UpdatedNums(ureals)
  <2>1. PICK i \in 1 .. Len(ureals) : i = LastUpdate(ureals, n) /\ ureals[i].num = n
    BY <1>2, LastUpdateIs
  <2>2. action # "DEL" /\ ureals[i].weight = CurWeight(v, n)
    BY <2>1 DEF RealsChanged
  <2>3. NewWeight(v, action, ureals)[n] = CurWeight(v, n)
    BY <1>2, <2>1, <2>2 DEF NewWeight
  <2> QED BY <2>3 DEF CurWeight
<1> QED BY <1>1, <1>2

LEMMA ModifyRealsRing ==
  ASSUME IndInv, IndInv', RingServesVip, modifyRealsDone
  PROVE  RingServesVip'
<1>1. PICK v \in VipKey :
        /\ v = call.vip /\ HasVip(v)
        /\ call.action \in Action /\ call.ureals \in Seq(UpdateReal)
        /\ vips_'[v].weight = NewWeight(v, call.action, call.ureals)
        /\ LET endpoints == getEndpoints(v, call.action, call.ureals)
           IN \/ DOMAIN endpoints = {} /\ vips_'[v].ring = vips_[v].ring
              \/ vips_'[v].ring \in Rings("Maglev", endpoints, ChRingSize)
        /\ vips_'[v].num = vips_[v].num
        /\ vips_[v] \in VipObject
        /\ \A w \in VipKey : w # v => vips_'[w] = vips_[w]
  BY VipAfterBatch
<1> DEFINE E == getEndpoints(v, call.action, call.ureals)
           w == vips_'[v].weight
<1>2. Serving(v)' = {n \in RealNum : w[n] > 0}
  BY DEF Serving
<1>3. Positive(w) = Serving(v)' /\ Positive(vips_[v].weight) = Serving(v)
  <2>1. DOMAIN w = RealNum
    BY <1>1 DEF NewWeight
  <2> QED BY <1>1, <1>2, <2>1, PositiveIsServing DEF Positive
<1>4. VipRing(v)
  BY RingsOfVips
<1>5. CASE RealsChanged(v, call.action, call.ureals)
  <2>1. E = [n \in Serving(v)' |-> w[n]]
    BY <1>1, <1>2, <1>5 DEF getEndpoints, Endpoints
  <2>2. DOMAIN E = Serving(v)' /\ Positive(E) = Serving(v)'
    BY <1>2, <2>1 DEF Positive
  <2>3. TotalWeight(E) = TotalWeight(w)
    BY <1>3, <2>1, <2>2, TotalIsOfPositive
  <2>4. TotalWeight(vips_[v].weight)' = TotalWeight(w)
    OBVIOUS
  <2>5. \/ DOMAIN E = {} /\ vips_'[v].ring = vips_[v].ring
        \/ vips_'[v].ring \in Rings("Maglev", E, ChRingSize)
    BY <1>1
  <2> HIDE DEF E, w
  <2>6. Serving(v)' # {} => /\ vips_'[v].ring # {} /\ vips_'[v].ring \subseteq Serving(v)'
                            /\ TotalWeight(E) <= ChRingSize => Serving(v)' \subseteq vips_'[v].ring
    BY <2>2, <2>5 DEF Rings
  <2>7. VipRing(v)'
    BY <2>3, <2>4, <2>6, ServingIsOfVipNext DEF VipRing
  <2> QED BY <1>1, <2>7, OthersRing
<1>6. CASE ~RealsChanged(v, call.action, call.ureals)
  <2>1. DOMAIN E = {}
    BY <1>6 DEF getEndpoints, Endpoints
  <2>2. vips_'[v].ring = vips_[v].ring
    <3>1. Rings("Maglev", E, ChRingSize) = {}
      BY <2>1 DEF Rings
    <3> QED BY <1>1, <3>1
  <2>3. \A n \in RealNum : \/ w[n] = vips_[v].weight[n]
                           \/ w[n] = 0 /\ vips_[v].weight[n] = NoWeight
    BY <1>1, <1>6, UnchangedServing
  <2>4. /\ Serving(v)' = Serving(v) /\ VipReals(v) \subseteq VipReals(v)'
        /\ \A n \in Serving(v) : w[n] = vips_[v].weight[n]
    BY <2>3 DEF Serving, VipReals, NoWeight
  <2>5. TotalWeight(w) = TotalWeight(vips_[v].weight)
    BY <1>3, <2>4, TotalIsOfPositive
  <2>6. TotalWeight(vips_[v].weight)' = TotalWeight(w)
    OBVIOUS
  <2> HIDE DEF E, w
  <2>7. VipRing(v)'
    BY <1>4, <2>2, <2>4, <2>5, <2>6 DEF VipRing
  <2> QED BY <1>1, <2>7, OthersRing
<1> QED BY <1>5, <1>6

(* Whatever the caller does and whatever fails, from what generateHashRing
   promises for the endpoints of one batch follows what the ring holds after
   any sequence of batches: while a real of the VIP serves the ring is not
   empty and has no real of another VIP, it misses no serving real of those
   whose weights fit, and a drained real is on it only if a caller changed to
   Maglev over one.  getEndpoints may leave the ring alone only when it is
   still right.                                                             *)
THEOREM RingsServe == Spec => []RingServesVip
<1>1. Init => RingServesVip
  BY DEF Init, RingServesVip, Serving, NoVip, NoWeight
<1>2. ASSUME IndInv, IndInv', RingServesVip, [Next]_vars PROVE RingServesVip'
  <2>1. CASE UNCHANGED vips_
    BY <1>2, <2>1, SameVipRing, RingsOfVips, RingsOfVipsNext
  <2>2. CASE \E v \in VipKey, f \in SUBSET VipFlag : addVip(v, f)
    BY <1>2, <2>2, AddVipRing
  <2>3. CASE \E v \in VipKey, f \in SUBSET VipFlag, set \in BOOLEAN : modifyVip(v, f, set)
    BY <1>2, <2>3, ModifyVipRing
  <2>4. CASE \E v \in VipKey, func \in {"Maglev", "MaglevV2"} :
               /\ func = "Maglev" /\ HalfDrained(v) => "rehashDrained" \in Liberties
               /\ changeHashFunctionForVip(v, func)
    BY <1>2, <2>4, ChangeHashRing
  <2>5. CASE delVipDone
    BY <1>2, <2>5, DelVipRing
  <2>6. CASE modifyRealsDone
    BY <1>2, <2>6, ModifyRealsRing
  <2>7. CallerStep => \/ UNCHANGED vips_
                      \/ \E v \in VipKey, f \in SUBSET VipFlag : addVip(v, f)
                      \/ \E v \in VipKey, f \in SUBSET VipFlag, set \in BOOLEAN : modifyVip(v, f, set)
                      \/ \E v \in VipKey, func \in {"Maglev", "MaglevV2"} :
                           /\ func = "Maglev" /\ HalfDrained(v) => "rehashDrained" \in Liberties
                           /\ changeHashFunctionForVip(v, func)
    BY DEF CallerStep, modifyReal, delVip, modifyRealsForVip, addSrcRoutingRule,
           delSrcRoutingRule, clearAllSrcRoutingRules, getSrcRoutingRule, getRealsForVip,
           getVipLruMissStats, modifyQuicRealsMapping, invalidateServerId, revalidateServerId
  <2>8. LoopStep => UNCHANGED vips_ \/ delVipDone \/ modifyRealsDone
    BY DEF LoopStep, delVipReal, delRealStep, addRealStep, clearSrcStep, clearSrcDone,
           delQuicStep, overrideQuicStep, addQuicStep, quicDone
  <2>9. Dead \/ UNCHANGED vars => UNCHANGED vips_
    BY DEF Dead
  <2> QED BY <1>2, <2>1, <2>2, <2>3, <2>4, <2>5, <2>6, <2>7, <2>8, <2>9 DEF Next
<1> QED BY <1>1, <1>2, Inductive, PTL DEF Spec
-----------------------------------------------------------------------------
(* Kernel maps, one at a time *)

\* no two VIPs are spellings of the same address
OneSpelling == \A v, w \in VipKey :
  HasVip(v) /\ HasVip(w) /\ VipDef[v] = VipDef[w] => v = w

VipMapAgrees ==
  ~Testing /\ "vip_map" \notin bpfFailed =>
    /\ \A v \in VipKey : HasVip(v) => vip_map[VipDef[v]] =
         [num |-> vips_[v].num, flags |-> vips_[v].flags]
    /\ \A d \in VipDefs :
         (\A v \in VipKey : HasVip(v) => VipDef[v] # d) => vip_map[d] = Absent

RealsAgree ==
  ~Testing /\ "reals" \notin bpfFailed => \A a \in Addr : Known(a) =>
    reals[reals_[a].num] = [address |-> a, flags |-> reals_[a].flags]

LpmAgrees ==
  ~Testing /\ "lpm_src" \notin bpfFailed => \A s \in Src :
    lpm_src[s] = IF s \in SrcCounted THEN lpmSrcMapping_[s] ELSE 0

VipMapInv == OneSpelling /\ VipMapAgrees

LEMMA FailuresStay ==
  ASSUME [Next]_vars
  PROVE  bpfFailed \subseteq bpfFailed'
<1>1. CallerStep => bpfFailed \subseteq bpfFailed'
  BY ZenonT(60) DEF CallerStep, modifyReal, addVip, modifyVip, changeHashFunctionForVip, delVip,
         modifyRealsForVip, addSrcRoutingRule, delSrcRoutingRule, clearAllSrcRoutingRules,
         getSrcRoutingRule, getRealsForVip, getVipLruMissStats, modifyQuicRealsMapping,
         invalidateServerId, revalidateServerId, updateVipMap, programHashRing, countFailure
<1>2. LoopStep => bpfFailed \subseteq bpfFailed'
  BY DEF LoopStep, delVipReal, delVipDone, delRealStep, addRealStep, modifyRealsDone,
         clearSrcStep, clearSrcDone, delQuicStep, overrideQuicStep, addQuicStep, quicDone,
         updateVipMap, programHashRing, countFailure
<1> QED BY <1>1, <1>2 DEF Next, Dead

(* vip_map *)
LEMMA HasNumber == IndInv => \A v \in VipKey : HasVip(v) <=> vips_[v].num # -1
<1> SUFFICES ASSUME IndInv, NEW v \in VipKey PROVE HasVip(v) <=> vips_[v].num # -1
  OBVIOUS
<1>1. vips_[v] \in VipObject \cup {NoVip}
  BY DEF IndInv, VipInv, VipType
<1>2. NoVip.num = -1
  BY DEF NoVip
<1>3. \A o \in VipObject : o.num # -1
  BY ConfigAssumption DEF VipObject, VipNum
<1> QED BY <1>1, <1>2, <1>3 DEF HasVip

LEMMA HasNumberNext == (IndInv => \A v \in VipKey : HasVip(v) <=> vips_[v].num # -1)'
BY HasNumber, PTL

LEMMA SameVipMap ==
  ASSUME IndInv, IndInv', VipMapInv, UNCHANGED vip_map, bpfFailed \subseteq bpfFailed',
         \A v \in VipKey : vips_'[v].num = vips_[v].num /\ vips_'[v].flags = vips_[v].flags
  PROVE  VipMapInv'
<1>1. \A v \in VipKey : HasVip(v)' <=> HasVip(v)
  BY HasNumber, HasNumberNext
<1>2. OneSpelling'
  BY <1>1 DEF VipMapInv, OneSpelling
<1>3. VipMapAgrees'
  BY <1>1 DEF VipMapInv, VipMapAgrees
<1> QED BY <1>2, <1>3 DEF VipMapInv

\* updateVipMap writes the entry of one VIP, or its failure is counted.
LEMMA OneVipMap ==
  ASSUME IndInv, IndInv', VipMapInv, OneSpelling', bpfFailed \subseteq bpfFailed',
         NEW v \in VipKey, NEW meta, updateVipMap(v, meta), HasVip(v) \/ HasVip(v)',
         meta = IF HasVip(v)' THEN [num |-> vips_'[v].num, flags |-> vips_'[v].flags] ELSE Absent,
         \A w \in VipKey : w # v => vips_'[w] = vips_[w]
  PROVE  VipMapInv'
<1> SUFFICES ASSUME ~Testing, "vip_map" \notin bpfFailed'
             PROVE  /\ \A w \in VipKey : HasVip(w)' => vip_map'[VipDef[w]] =
                         [num |-> vips_'[w].num, flags |-> vips_'[w].flags]
                    /\ \A d \in VipDefs :
                         (\A w \in VipKey : HasVip(w)' => VipDef[w] # d) => vip_map'[d] = Absent
  BY DEF VipMapInv, VipMapAgrees
<1>1. vip_map' = [vip_map EXCEPT ![VipDef[v]] = meta]
  BY DEF updateVipMap, countFailure
<1>2. /\ vip_map'[VipDef[v]] = meta
      /\ \A d \in VipDefs : d # VipDef[v] => vip_map'[d] = vip_map[d]
  BY <1>1 DEF IndInv, KernelType, VipDefs
<1>3. /\ \A w \in VipKey : HasVip(w) => vip_map[VipDef[w]] =
           [num |-> vips_[w].num, flags |-> vips_[w].flags]
      /\ \A d \in VipDefs :
           (\A w \in VipKey : HasVip(w) => VipDef[w] # d) => vip_map[d] = Absent
  BY DEF VipMapInv, VipMapAgrees
<1>4. \A w \in VipKey : w # v => (HasVip(w)' <=> HasVip(w))
  BY DEF HasVip
<1>5. ASSUME NEW w \in VipKey, HasVip(w)'
      PROVE  vip_map'[VipDef[w]] = [num |-> vips_'[w].num, flags |-> vips_'[w].flags]
  <2>1. CASE w = v
    BY <1>2, <1>5, <2>1
  <2>2. CASE w # v
    <3>1. HasVip(w) /\ vips_'[w] = vips_[w]
      BY <1>4, <1>5, <2>2
    <3>2. VipDef[w] # VipDef[v]
      BY <1>5, <2>2, <3>1 DEF VipMapInv, OneSpelling
    <3>3. VipDef[w] \in VipDefs
      BY DEF VipDefs
    <3> QED BY <1>2, <1>3, <3>1, <3>2, <3>3
  <2> QED BY <2>1, <2>2
<1>6. ASSUME NEW d \in VipDefs, \A w \in VipKey : HasVip(w)' => VipDef[w] # d
      PROVE  vip_map'[d] = Absent
  <2>1. CASE d = VipDef[v]
    BY <1>2, <1>6, <2>1
  <2>2. CASE d # VipDef[v]
    BY <1>2, <1>3, <1>4, <1>6, <2>2
  <2> QED BY <2>1, <2>2
<1> QED BY <1>5, <1>6

LEMMA VipMapKeeps ==
  ASSUME IndInv, IndInv', VipMapInv, [Next]_vars, "aliasVip" \notin Liberties
  PROVE  VipMapInv'
<1> USE FailuresStay
<1>1. vips_ \in [VipKey -> VipObject \cup {NoVip}]
  BY DEF IndInv, VipInv, VipType
<1>2. CASE UNCHANGED <<vips_, vip_map>>
  BY <1>2, SameVipMap
<1>3. ASSUME NEW v \in VipKey, NEW f \in SUBSET VipFlag, Unaliased(v), addVip(v, f)
      PROVE  VipMapInv'
  <2>1. /\ vips_' = [vips_ EXCEPT ![v] = [NoVip EXCEPT !.num = Head(vipNums_), !.flags = f]]
        /\ vipNums_ # <<>>
        /\ updateVipMap(v, [num |-> Head(vipNums_), flags |-> f])
    BY <1>3 DEF addVip
  <2>2. /\ vips_'[v].num = Head(vipNums_) /\ vips_'[v].flags = f
        /\ \A w \in VipKey : w # v => vips_'[w] = vips_[w]
    BY <1>1, <2>1 DEF NoVip
  <2>3. Head(vipNums_) \in VipNum
    BY <2>1, HeadTailProperties DEF IndInv, VipInv, VipType
  <2>4. Head(vipNums_) # -1
    BY <2>3, ConfigAssumption DEF VipNum
  <2>5. HasVip(v)'
    BY <2>2, <2>4, HasNumberNext
  <2>6. \A w \in VipKey : w # v /\ HasVip(w)' => VipDef[w] # VipDef[v]
    BY <1>3, <2>2 DEF Unaliased, HasVip
  <2>7. \A w \in VipKey : w # v /\ HasVip(w)' => HasVip(w)
    BY <2>2 DEF HasVip
  <2>8. OneSpelling'
    BY <2>6, <2>7 DEF OneSpelling, VipMapInv
  <2> QED BY <2>1, <2>2, <2>5, <2>8, OneVipMap
<1>4. ASSUME NEW v \in VipKey, NEW f \in SUBSET VipFlag, NEW set \in BOOLEAN, modifyVip(v, f, set)
      PROVE  VipMapInv'
  <2>1. PICK new : /\ vips_' = [vips_ EXCEPT ![v].flags = new]
                   /\ updateVipMap(v, [num |-> vips_[v].num, flags |-> new])
    BY <1>4 DEF modifyVip
  <2>2. HasVip(v) /\ vips_[v] \in VipObject
    BY <1>1, <1>4 DEF modifyVip, HasVip
  <2>3. /\ vips_'[v].num = vips_[v].num /\ vips_'[v].flags = new
        /\ \A w \in VipKey : w # v => vips_'[w] = vips_[w]
    BY <1>1, <2>1, <2>2 DEF VipObject
  <2>4. HasVip(v)'
    BY <2>2, <2>3, HasNumber, HasNumberNext
  <2>5. \A w \in VipKey : HasVip(w)' => HasVip(w)
    BY <2>2, <2>3 DEF HasVip
  <2>6. OneSpelling'
    BY <2>5 DEF OneSpelling, VipMapInv
  <2> QED BY <2>1, <2>3, <2>4, <2>6, OneVipMap
<1>5. ASSUME NEW v \in VipKey, NEW func, changeHashFunctionForVip(v, func) PROVE VipMapInv'
  <2>1. vips_' = vips_ \/ \E new : vips_' = [vips_ EXCEPT ![v].ring = new]
    BY <1>5 DEF changeHashFunctionForVip
  <2>2. vips_[v] \in VipObject /\ UNCHANGED vip_map
    BY <1>1, <1>5 DEF changeHashFunctionForVip, HasVip
  <2>3. \A w \in VipKey : vips_'[w].num = vips_[w].num /\ vips_'[w].flags = vips_[w].flags
    BY <1>1, <2>1, <2>2 DEF VipObject
  <2> QED BY <2>2, <2>3, SameVipMap
<1>6. ASSUME delVipDone PROVE VipMapInv'
  <2>1. PICK v \in VipKey : v = call.vip
    BY <1>6, CallFields DEF delVipDone, IndInv, DelVipCall
  <2>2. vips_' = [vips_ EXCEPT ![v] = NoVip] /\ updateVipMap(v, Absent)
    BY <1>6, <2>1 DEF delVipDone
  <2>3. ~HasVip(v)' /\ \A w \in VipKey : w # v => vips_'[w] = vips_[w]
    BY <1>1, <2>2 DEF HasVip
  <2>4. HasVip(v)
    BY <1>6, <2>1 DEF delVipDone, IndInv, CallOK
  <2>5. \A w \in VipKey : HasVip(w)' => HasVip(w)
    BY <2>3 DEF HasVip
  <2>6. OneSpelling'
    BY <2>5 DEF OneSpelling, VipMapInv
  <2> QED BY <2>2, <2>3, <2>4, <2>6, OneVipMap
<1>7. ASSUME modifyRealsDone PROVE VipMapInv'
  <2>1. PICK v \in VipKey :
          /\ vips_'[v].num = vips_[v].num /\ vips_'[v].flags = vips_[v].flags
          /\ \A w \in VipKey : w # v => vips_'[w] = vips_[w]
    BY <1>7, VipAfterBatch
  <2>2. UNCHANGED vip_map
    BY <1>7 DEF modifyRealsDone
  <2>3. \A w \in VipKey : vips_'[w].num = vips_[w].num /\ vips_'[w].flags = vips_[w].flags
    BY <2>1
  <2> QED BY <2>2, <2>3, SameVipMap
<1>8. CallerStep => \/ UNCHANGED <<vips_, vip_map>>
                    \/ \E v \in VipKey, f \in SUBSET VipFlag : Unaliased(v) /\ addVip(v, f)
                    \/ \E v \in VipKey, f \in SUBSET VipFlag, set \in BOOLEAN : modifyVip(v, f, set)
                    \/ \E v \in VipKey, func \in {"Maglev", "MaglevV2"} :
                         changeHashFunctionForVip(v, func)
  BY DEF CallerStep, modifyReal, delVip, modifyRealsForVip, addSrcRoutingRule,
         delSrcRoutingRule, clearAllSrcRoutingRules, getSrcRoutingRule, getRealsForVip,
         getVipLruMissStats, modifyQuicRealsMapping, invalidateServerId, revalidateServerId
<1>9. LoopStep => UNCHANGED <<vips_, vip_map>> \/ delVipDone \/ modifyRealsDone
  BY DEF LoopStep, delVipReal, delRealStep, addRealStep, clearSrcStep, clearSrcDone,
         delQuicStep, overrideQuicStep, addQuicStep, quicDone
<1> QED BY <1>2, <1>3, <1>4, <1>5, <1>6, <1>7, <1>8, <1>9 DEF Next, Dead

(* reals *)
LEMMA SameReals ==
  ASSUME RealsAgree, UNCHANGED reals, bpfFailed \subseteq bpfFailed',
         \A b \in Addr : Known(b)' =>
           /\ Known(b)
           /\ reals_'[b].num = reals_[b].num /\ reals_'[b].flags = reals_[b].flags
  PROVE  RealsAgree'
<1> SUFFICES ASSUME ~Testing, "reals" \notin bpfFailed', NEW b \in Addr, Known(b)'
             PROVE  reals'[reals_'[b].num] = [address |-> b, flags |-> reals_'[b].flags]
  BY DEF RealsAgree
<1> QED BY DEF RealsAgree

LEMMA DecreaseReals ==
  ASSUME IndInv, NEW a, decreaseRefCountForReal(a), NEW b \in Addr, Known(b)'
  PROVE  Known(b) /\ reals_'[b].num = reals_[b].num /\ reals_'[b].flags = reals_[b].flags
<1>1. reals_ \in [Addr -> RealMeta \cup {NoReal}]
  BY DEF IndInv, PoolInv, PoolType
<1>2. CASE UNCHANGED poolVars
  BY <1>2 DEF Known
<1>3. CASE /\ a \in Addr /\ Known(a)
           /\ reals_' = [reals_ EXCEPT ![a].refCount = @ - 1]
  <2>1. reals_[a] \in RealMeta
    BY <1>1, <1>3 DEF Known
  <2>2. reals_'[a].num = reals_[a].num /\ reals_'[a].flags = reals_[a].flags
    BY <1>1, <1>3, <2>1 DEF RealMeta
  <2>3. b # a => reals_'[b] = reals_[b]
    BY <1>1, <1>3
  <2> QED BY <1>3, <2>2, <2>3 DEF Known
<1>4. CASE a \in Addr /\ reals_' = [reals_ EXCEPT ![a] = NoReal]
  <2>1. b # a
    BY <1>1, <1>4 DEF Known
  <2>2. reals_'[b] = reals_[b]
    BY <1>1, <1>4, <2>1
  <2> QED BY <2>2 DEF Known
<1>5. CASE UNCHANGED reals_
  BY <1>5 DEF Known
<1> QED BY <1>2, <1>3, <1>4, <1>5 DEF decreaseRefCountForReal, decreaseEmpty

LEMMA ReleaseReals ==
  ASSUME IndInv, NEW n, releaseNum(n), NEW b \in Addr, Known(b)'
  PROVE  Known(b) /\ reals_'[b].num = reals_[b].num /\ reals_'[b].flags = reals_[b].flags
<1>1. CASE UNCHANGED reals_
  BY <1>1 DEF Known
<1> QED BY <1>1, DecreaseReals DEF releaseNum

\* A first use writes the element of its number, or its failure is counted.
LEMMA IncreaseReals ==
  ASSUME IndInv, RealsAgree, NEW a \in Addr, NEW flags, NEW ok,
         increaseRefCountForReal(a, flags, ok), bpfFailed \subseteq bpfFailed',
         Allocates(a) /\ ~ok => "reals" \in bpfFailed'
  PROVE  RealsAgree'
<1>1. reals_ \in [Addr -> RealMeta \cup {NoReal}]
  BY DEF IndInv, PoolInv, PoolType
<1>2. CASE UNCHANGED <<poolVars, reals>>
  BY <1>2, SameReals DEF Known
<1>3. CASE Known(a) /\ reals_' = [reals_ EXCEPT ![a].refCount = @ + 1] /\ UNCHANGED reals
  <2>1. reals_[a] \in RealMeta
    BY <1>1, <1>3 DEF Known
  <2>2. reals_'[a].num = reals_[a].num /\ reals_'[a].flags = reals_[a].flags
    BY <1>1, <1>3, <2>1 DEF RealMeta
  <2>3. \A b \in Addr : b # a => reals_'[b] = reals_[b]
    BY <1>1, <1>3
  <2>4. ASSUME NEW b \in Addr, Known(b)'
        PROVE  Known(b) /\ reals_'[b].num = reals_[b].num /\ reals_'[b].flags = reals_[b].flags
    BY <1>3, <2>2, <2>3, <2>4 DEF Known
  <2> QED BY <1>3, <2>4, SameReals
<1>4. CASE Allocates(a)
  <2>1. PICK n : n = Head(realNums_)
    OBVIOUS
  <2>2. ~Known(a) /\ realNums_ # <<>> /\ n \in RealNum /\ n = NumFor(a)
    BY <1>4, <2>1, HeadTailProperties DEF Allocates, NumFor, IndInv, PoolInv, PoolType
  <2>3. /\ reals_' = [reals_ EXCEPT ![a] = [num |-> n, refCount |-> 1, flags |-> flags]]
        /\ updateRealsMap(a, n, flags, ok)
    BY <2>1, <2>2 DEF increaseRefCountForReal
  <2>4. reals_'[a].num = n /\ reals_'[a].flags = flags
    BY <1>1, <2>3
  <2>5. n # MaxReals
    BY <2>2, ConfigAssumption DEF RealNum
  <2> SUFFICES ASSUME ~Testing, "reals" \notin bpfFailed', NEW b \in Addr, Known(b)'
               PROVE  reals'[reals_'[b].num] = [address |-> b, flags |-> reals_'[b].flags]
    BY DEF RealsAgree
  <2>6. reals' = [reals EXCEPT ![n] = [address |-> a, flags |-> flags]]
    BY <1>4, <2>3 DEF updateRealsMap
  <2>7. reals'[n] = [address |-> a, flags |-> flags] /\ \A m \in RealNum : m # n => reals'[m] = reals[m]
    BY <2>2, <2>6 DEF IndInv, KernelType
  <2>8. CASE b = a
    BY <2>4, <2>7, <2>8
  <2>9. CASE b # a
    <3>1. reals_'[b] = reals_[b] /\ Known(b)
      BY <1>1, <2>3, <2>9 DEF Known
    <3>2. reals_[b].num # n /\ reals_[b].num \in RealNum
      BY <2>2, <2>5, <2>9, <3>1, OthersUnmoved, KnownReal DEF IndInv
    <3> QED BY <2>7, <3>1, <3>2 DEF RealsAgree
  <2> QED BY <2>8, <2>9
<1> QED BY <1>2, <1>3, <1>4 DEF increaseRefCountForReal, Allocates

LEMMA ModifyRealReals ==
  ASSUME IndInv, RealsAgree, bpfFailed \subseteq bpfFailed',
         NEW a \in Addr, NEW f \in SUBSET RealFlag, NEW set \in BOOLEAN, modifyReal(a, f, set)
  PROVE  RealsAgree'
<1>1. PICK new : /\ reals_' = [reals_ EXCEPT ![a].flags = new]
                 /\ \E ok \in Outcomes(TRUE) :
                      updateRealsMap(a, reals_[a].num, new, ok) /\ countFailure("reals", ok)
  BY DEF modifyReal
<1>2. reals_ \in [Addr -> RealMeta \cup {NoReal}] /\ reals_[a] \in RealMeta /\ Known(a)
  BY KnownReal DEF IndInv, PoolInv, PoolType, modifyReal
<1>3. /\ reals_'[a].num = reals_[a].num /\ reals_'[a].flags = new
      /\ \A b \in Addr : b # a => reals_'[b] = reals_[b]
  BY <1>1, <1>2 DEF RealMeta
<1> SUFFICES ASSUME ~Testing, "reals" \notin bpfFailed', NEW b \in Addr, Known(b)'
             PROVE  reals'[reals_'[b].num] = [address |-> b, flags |-> reals_'[b].flags]
  BY DEF RealsAgree
<1>4. reals' = [reals EXCEPT ![reals_[a].num] = [address |-> a, flags |-> new]]
  BY <1>1 DEF updateRealsMap, countFailure
<1>5. /\ reals'[reals_[a].num] = [address |-> a, flags |-> new]
      /\ \A m \in RealNum : m # reals_[a].num => reals'[m] = reals[m]
  BY <1>2, <1>4, KnownReal DEF IndInv, KernelType
<1>6. CASE b = a
  BY <1>3, <1>5, <1>6
<1>7. CASE b # a
  <2>1. reals_'[b] = reals_[b] /\ Known(b)
    BY <1>3, <1>7 DEF Known
  <2>2. reals_[b].num \in RealNum /\ reals_[b].num # reals_[a].num
    BY <1>2, <1>7, <2>1, KnownReal DEF IndInv, PoolInv, NumberConservation
  <2> QED BY <1>5, <2>1, <2>2 DEF RealsAgree
<1> QED BY <1>6, <1>7

LEMMA RealsKeep ==
  ASSUME IndInv, RealsAgree, [Next]_vars
  PROVE  RealsAgree'
<1> USE FailuresStay
<1>1. CASE UNCHANGED <<reals_, reals>>
  BY <1>1, SameReals DEF Known
<1>2. CASE UNCHANGED reals /\ \E a : decreaseRefCountForReal(a)
  BY <1>2, DecreaseReals, SameReals
<1>3. CASE UNCHANGED reals /\ \E n : releaseNum(n)
  BY <1>3, ReleaseReals, SameReals
<1>4. CASE \E a \in Addr, f \in SUBSET RealFlag, set \in BOOLEAN : modifyReal(a, f, set)
  BY <1>4, ModifyRealReals
<1>5. ASSUME NEW s \in Src, NEW a \in Addr, addSrcRoutingRule(s, a) PROVE RealsAgree'
  <2>1. PICK ok1, ok2 : /\ increaseRefCountForReal(a, {}, ok1)
                        /\ bpfFailed' = bpfFailed \cup (IF ok1 THEN {} ELSE {"reals"})
                                                  \cup (IF ok2 THEN {} ELSE {"lpm_src"})
    BY <1>5 DEF addSrcRoutingRule
  <2> QED BY <2>1, IncreaseReals
<1>6. ASSUME addRealStep PROVE RealsAgree'
  <2>1. NextReal \in NewReal
    BY <1>6, NextRealType DEF addRealStep, IndInv
  <2>2. PICK a \in Addr : a = NextReal.address
    BY <2>1 DEF NewReal
  <2>3. CASE Known(a) /\ increaseRefCountForReal(a, NextReal.flags, TRUE)
    BY <2>3, IncreaseReals DEF Allocates
  <2>4. CASE \E ok : increaseRefCountForReal(a, NextReal.flags, ok) /\ countFailure("reals", ok)
    BY <2>4, IncreaseReals DEF countFailure
  <2> QED BY <1>1, <1>6, <2>2, <2>3, <2>4 DEF addRealStep
<1>7. ASSUME addQuicStep PROVE RealsAgree'
  <2>1. PICK a \in Addr : a = NextQuic.address
    BY <1>7, NextQuicType DEF addQuicStep, IndInv
  <2>2. CASE \E ok : increaseRefCountForReal(a, {}, ok) /\ countFailure("reals", ok)
    BY <2>2, IncreaseReals DEF countFailure
  <2> QED BY <1>1, <1>7, <2>1, <2>2 DEF addQuicStep
<1>8. CallerStep => \/ UNCHANGED <<reals_, reals>>
                    \/ UNCHANGED reals /\ \E n : releaseNum(n)
                    \/ \E a \in Addr, f \in SUBSET RealFlag, set \in BOOLEAN : modifyReal(a, f, set)
                    \/ \E s \in Src, a \in Addr : addSrcRoutingRule(s, a)
  BY DEF CallerStep, addVip, modifyVip, changeHashFunctionForVip, delVip, modifyRealsForVip,
         delSrcRoutingRule, clearAllSrcRoutingRules, getSrcRoutingRule, getRealsForVip,
         getVipLruMissStats, modifyQuicRealsMapping, invalidateServerId, revalidateServerId
<1>9. LoopStep => \/ UNCHANGED <<reals_, reals>>
                  \/ UNCHANGED reals /\ \E a : decreaseRefCountForReal(a)
                  \/ UNCHANGED reals /\ \E n : releaseNum(n)
                  \/ addRealStep
                  \/ addQuicStep
  BY DEF LoopStep, delVipReal, delVipDone, delRealStep, modifyRealsDone, clearSrcStep,
         clearSrcDone, delQuicStep, overrideQuicStep, quicDone
<1> QED BY <1>1, <1>2, <1>3, <1>4, <1>5, <1>6, <1>7, <1>8, <1>9 DEF Next, Dead

(* Whatever the caller does, the element of a known real in the kernel map
   reals has its address and flags, as long as no write to that map failed
   (increaseRefCountForReal, modifyReal, updateRealsMap).                  *)
THEOREM RealsMirrored == Spec => []RealsAgree
<1>1. Init => RealsAgree
  BY DEF Init, RealsAgree, Known
<1>2. IndInv /\ IndInv' /\ RealsAgree /\ [Next]_vars => RealsAgree'
  BY RealsKeep
<1> QED BY <1>1, <1>2, Inductive, PTL DEF Spec

(* A caller that does not add a VIP in two spellings of its address has
   exactly its VIPs in vip_map, whatever else it does, as long as no call on
   that map failed (addVip, modifyVip, delVip; the key is the parsed address
   of vipKeyToVipDefinition).                                              *)
THEOREM VipsMirrored == "aliasVip" \notin Liberties => (Spec => []VipMapAgrees)
<1> SUFFICES ASSUME "aliasVip" \notin Liberties PROVE Spec => []VipMapAgrees
  OBVIOUS
<1>1. Init => VipMapInv
  BY DEF Init, VipMapInv, OneSpelling, VipMapAgrees, HasVip
<1>2. IndInv /\ IndInv' /\ VipMapInv /\ [Next]_vars => VipMapInv'
  BY VipMapKeeps
<1>3. VipMapInv => VipMapAgrees
  BY DEF VipMapInv
<1> QED BY <1>1, <1>2, <1>3, Inductive, PTL DEF Spec

(* lpm_src *)
LEMMA SameLpm ==
  ASSUME LpmAgrees, UNCHANGED <<lpm_src, lpmSrcMapping_>>, bpfFailed \subseteq bpfFailed',
         SrcCounted' = SrcCounted
  PROVE  LpmAgrees'
BY DEF LpmAgrees

LEMMA AddSrcLpm ==
  ASSUME IndInv, LpmAgrees, bpfFailed \subseteq bpfFailed',
         NEW s \in Src, NEW a \in Addr, addSrcRoutingRule(s, a)
  PROVE  LpmAgrees'
<1>1. PICK n : n = NumFor(a)
  OBVIOUS
<1>2. n # 0
  <2>1. n \in RealNum
    BY <1>1, NumForType DEF IndInv, PoolInv, addSrcRoutingRule
  <2> QED BY <2>1, ConfigAssumption DEF RealNum
<1>3. PICK ok : /\ modifyLpmSrcRule(s, n, ok)
                /\ ~ok => "lpm_src" \in bpfFailed'
  BY <1>1 DEF addSrcRoutingRule
<1>4. /\ lpmSrcMapping_'[s] = n
      /\ \A t \in Src : t # s => lpmSrcMapping_'[t] = lpmSrcMapping_[t]
  BY <1>1 DEF IndInv, UserType, addSrcRoutingRule
<1>5. call = Idle /\ call' = Idle
  BY DEF addSrcRoutingRule
<1>6. /\ SrcCounted = {t \in Src : lpmSrcMapping_[t] # 0}
      /\ SrcCounted' = {t \in Src : lpmSrcMapping_'[t] # 0}
  BY <1>5, BetweenCalls, BetweenCallsNext
<1> SUFFICES ASSUME ~Testing, "lpm_src" \notin bpfFailed', NEW t \in Src
             PROVE  lpm_src'[t] = IF t \in SrcCounted' THEN lpmSrcMapping_'[t] ELSE 0
  BY DEF LpmAgrees
<1>7. lpm_src'[s] = n /\ \A x \in Src : x # s => lpm_src'[x] = lpm_src[x]
  BY <1>3 DEF modifyLpmSrcRule, IndInv, KernelType
<1> QED BY <1>2, <1>4, <1>6, <1>7 DEF LpmAgrees

\* The rule of s is taken out of the kernel's table and is no longer counted.
LEMMA DelLpm ==
  ASSUME IndInv, LpmAgrees, bpfFailed \subseteq bpfFailed', NEW s \in Src, NEW ok,
         modifyLpmSrcRule(s, 0, ok) /\ countFailure("lpm_src", ok),
         SrcCounted' = SrcCounted \ {s},
         \A t \in Src : t # s => lpmSrcMapping_'[t] = lpmSrcMapping_[t]
  PROVE  LpmAgrees'
<1> SUFFICES ASSUME ~Testing, "lpm_src" \notin bpfFailed', NEW t \in Src
             PROVE  lpm_src'[t] = IF t \in SrcCounted' THEN lpmSrcMapping_'[t] ELSE 0
  BY DEF LpmAgrees
<1>1. lpm_src' = [lpm_src EXCEPT ![s] = 0]
  BY DEF modifyLpmSrcRule, countFailure
<1>2. lpm_src'[s] = 0 /\ \A x \in Src : x # s => lpm_src'[x] = lpm_src[x]
  BY <1>1 DEF IndInv, KernelType
<1> QED BY <1>2 DEF LpmAgrees

LEMMA LpmKeeps ==
  ASSUME IndInv, UserInv, UserInv', LpmAgrees, [Next]_vars
  PROVE  LpmAgrees'
<1> USE FailuresStay
<1>1. CASE UNCHANGED <<lpm_src, lpmSrcMapping_>> /\ SrcCounted' = SrcCounted
  BY <1>1, SameLpm
<1>2. CASE \E s \in Src, a \in Addr : addSrcRoutingRule(s, a)
  BY <1>2, AddSrcLpm
<1>3. ASSUME NEW s \in Src, delSrcRoutingRule(s) PROVE LpmAgrees'
  <2>1. /\ call = Idle /\ call' = Idle
        /\ \E ok : modifyLpmSrcRule(s, 0, ok) /\ countFailure("lpm_src", ok)
        /\ lpmSrcMapping_' = [lpmSrcMapping_ EXCEPT ![s] = 0]
    BY <1>3 DEF delSrcRoutingRule
  <2>2. lpmSrcMapping_'[s] = 0 /\ \A t \in Src : t # s => lpmSrcMapping_'[t] = lpmSrcMapping_[t]
    BY <2>1 DEF IndInv, UserType
  <2>3. SrcCounted' = SrcCounted \ {s}
    BY <2>1, <2>2, BetweenCalls, BetweenCallsNext
  <2> QED BY <2>1, <2>2, <2>3, DelLpm
<1>4. ASSUME clearSrcStep PROVE LpmAgrees'
  <2>1. call.op = "clearSrc" /\ call \in ClearSrcCall /\ UNCHANGED lpmSrcMapping_
    BY <1>4, CallFields DEF clearSrcStep, IndInv
  <2>2. PICK s \in call.left :
          \/ call' = Crashed
          \/ /\ \E ok : modifyLpmSrcRule(s, 0, ok) /\ countFailure("lpm_src", ok)
             /\ call' = [call EXCEPT !.left = @ \ {s}]
    BY <1>4 DEF clearSrcStep
  <2>3. /\ s \in Src
        /\ \E ok : modifyLpmSrcRule(s, 0, ok) /\ countFailure("lpm_src", ok)
        /\ call' = [op |-> "clearSrc", left |-> call.left \ {s}]
    BY <2>1, <2>2 DEF ClearSrcCall, UserInv, NoCrash
  <2>4. SrcCounted' = SrcCounted \ {s}
    BY <2>1, <2>3 DEF SrcCounted
  <2> QED BY <2>1, <2>3, <2>4, DelLpm
<1>5. ASSUME clearSrcDone PROVE LpmAgrees'
  <2>1. /\ call.op = "clearSrc" /\ call.left = {} /\ UNCHANGED <<lpm_src, bpfFailed>>
        /\ lpmSrcMapping_' = [s \in Src |-> 0]
    BY <1>5 DEF clearSrcDone
  <2>2. SrcCounted = {} /\ SrcCounted' = {}
    BY <2>1 DEF SrcCounted
  <2> QED BY <2>1, <2>2 DEF LpmAgrees
<1>6. CASE /\ UNCHANGED <<lpm_src, lpmSrcMapping_>>
           /\ call.op # "clearSrc" /\ call'.op # "clearSrc"
  BY <1>1, <1>6 DEF SrcCounted
<1>7. CASE clearAllSrcRoutingRules
  BY <1>1, <1>7, BetweenCalls DEF clearAllSrcRoutingRules, SrcCounted
<1>8. CallerStep => \/ clearAllSrcRoutingRules
                    \/ \E s \in Src, a \in Addr : addSrcRoutingRule(s, a)
                    \/ \E s \in Src : delSrcRoutingRule(s)
                    \/ /\ UNCHANGED <<lpm_src, lpmSrcMapping_>>
                       /\ call.op # "clearSrc" /\ call'.op # "clearSrc"
  <2>1. Idle.op # "clearSrc"
    BY DEF Idle
  <2>2. ASSUME NEW v \in VipKey,
               \/ delVip(v)
               \/ \E action \in Action : \E b \in RealBatches(action) : modifyRealsForVip(action, b, v)
        PROVE  /\ UNCHANGED <<lpm_src, lpmSrcMapping_>>
               /\ call.op # "clearSrc" /\ call'.op # "clearSrc"
    BY <2>1, <2>2 DEF delVip, modifyRealsForVip
  <2>3. ASSUME NEW action, NEW b, modifyQuicRealsMapping(action, b)
        PROVE  /\ UNCHANGED <<lpm_src, lpmSrcMapping_>>
               /\ call.op # "clearSrc" /\ call'.op # "clearSrc"
    BY <2>1, <2>3 DEF modifyQuicRealsMapping
  <2>4. CASE /\ UNCHANGED <<lpm_src, lpmSrcMapping_, call>> /\ call = Idle
    BY <2>1, <2>4
  <2> QED BY <2>2, <2>3, <2>4
          DEF CallerStep, modifyReal, addVip, modifyVip, changeHashFunctionForVip,
              getSrcRoutingRule, getRealsForVip, getVipLruMissStats, invalidateServerId,
              revalidateServerId
<1>9. LoopStep => \/ clearSrcStep
                  \/ clearSrcDone
                  \/ /\ UNCHANGED <<lpm_src, lpmSrcMapping_>>
                     /\ call.op # "clearSrc" /\ call'.op # "clearSrc"
  <2>1. delVipReal => call'.op = call.op
    BY CallFields DEF delVipReal, IndInv, DelVipCall
  <2>2. delRealStep \/ addRealStep => call'.op = call.op
    BY CallFields DEF delRealStep, addRealStep, IndInv, ModifyRealsCall
  <2>3. delQuicStep \/ overrideQuicStep \/ addQuicStep => call'.op = call.op
    BY CallFields DEF delQuicStep, overrideQuicStep, addQuicStep, IndInv, QuicCall
  <2>4. delVipDone \/ modifyRealsDone \/ quicDone => call'.op = "idle"
    BY DEF delVipDone, modifyRealsDone, quicDone, Idle
  <2>5. LoopStep => \/ clearSrcStep
                    \/ clearSrcDone
                    \/ UNCHANGED <<lpm_src, lpmSrcMapping_>> /\ call.op # "clearSrc"
    BY DEF LoopStep, delVipReal, delVipDone, delRealStep, addRealStep, modifyRealsDone,
           delQuicStep, overrideQuicStep, addQuicStep, quicDone
  <2> QED BY <2>1, <2>2, <2>3, <2>4, <2>5 DEF LoopStep
<1>10. UNCHANGED vars => LpmAgrees'
  BY <1>1 DEF SrcCounted
<1> QED BY <1>2, <1>3, <1>4, <1>5, <1>6, <1>7, <1>8, <1>9, <1>10 DEF Next, Dead

(* For a careful caller every kernel map no write has failed on agrees with the
   control plane, in the middle of clearAllSrcRoutingRules too.            *)
THEOREM KernelMirrored == Liberties = {} => (Spec => []KernelAgrees)
<1> SUFFICES ASSUME Liberties = {} PROVE Spec => []KernelAgrees
  OBVIOUS
<1>1. Init => LpmAgrees
  BY DEF Init, LpmAgrees, SrcCounted
<1>2. IndInv /\ UserInv /\ UserInv' /\ LpmAgrees /\ [Next]_vars => LpmAgrees'
  BY LpmKeeps
<1>3. VipMapAgrees /\ RealsAgree /\ LpmAgrees => KernelAgrees
  BY DEF VipMapAgrees, RealsAgree, LpmAgrees, KernelAgrees
<1>4. Spec => []VipMapAgrees
  BY VipsMirrored
<1> QED BY <1>1, <1>2, <1>3, <1>4, Inductive, UsersInductive, RealsMirrored, PTL DEF Spec
-----------------------------------------------------------------------------
(* QUIC server ids.  What a batch has still to write is the number of the
   address the id is bound to; every other entry already is.               *)
ToUpdateInv ==
  call.op = "quic" =>
    \A id \in QuicId : call.to_update[id] # 0 =>
      /\ call.action = "ADD"
      /\ quicMapping_[id] # Absent
      /\ call.to_update[id] = reals_[quicMapping_[id]].num
      /\ \A i \in 1 .. Len(call.todo) : call.todo[i].id # id

ServerIdsInv ==
  ~Testing /\ "server_id_map" \notin bpfFailed =>
    \A id \in QuicId : quicMapping_[id] # Absent /\ server_id_map[id] # 0 =>
      \/ server_id_map[id] = reals_[quicMapping_[id]].num
      \/ call.op = "quic" /\ call.to_update[id] # 0

RouteInv == ToUpdateInv /\ ServerIdsInv

LEMMA BoundIsKnown ==
  IndInv /\ UserInv =>
    \A id \in QuicId : quicMapping_[id] # Absent =>
      quicMapping_[id] \in Addr /\ Known(quicMapping_[id])
<1> SUFFICES ASSUME IndInv, UserInv, NEW id \in QuicId, quicMapping_[id] # Absent
             PROVE  quicMapping_[id] \in Addr /\ Known(quicMapping_[id])
  OBVIOUS
<1>1. id \in QuicCounted
  BY DEF UserInv, QuicInv, QuicCounted
<1> QED BY <1>1, UserNumbers DEF UserInv, Exact, NoDangling

LEMMA BoundIsKnownNext ==
  (IndInv /\ UserInv =>
    \A id \in QuicId : quicMapping_[id] # Absent =>
      quicMapping_[id] \in Addr /\ Known(quicMapping_[id]))'
BY BoundIsKnown, PTL

(* A real that stays keeps its number, as RealIds promises. *)
LEMMA KnownByNumber == IndInv => \A a \in Addr : Known(a) <=> reals_[a].num # 0
<1> SUFFICES ASSUME IndInv, NEW a \in Addr PROVE Known(a) <=> reals_[a].num # 0
  OBVIOUS
<1>1. ~Known(a) => reals_[a].num = 0
  BY DEF Known, NoReal
<1>2. Known(a) => reals_[a].num # 0
  BY KnownReal, ConfigAssumption DEF IndInv, RealNum
<1> QED BY <1>1, <1>2

LEMMA KnownByNumberNext == (IndInv => \A a \in Addr : Known(a) <=> reals_[a].num # 0)'
BY KnownByNumber, PTL

LEMMA NumberStays ==
  ASSUME IndInv, IndInv', [Next]_vars, NEW a \in Addr, Known(a), Known(a)'
  PROVE  reals_'[a].num = reals_[a].num
<1>1. reals_[a].num # 0 /\ reals_'[a].num # 0
  BY KnownByNumber, KnownByNumberNext
<1>2. IdStep
  BY CallerIdStep, LoopIdStep, SameIds DEF Next, Dead
<1>3. Id[a] = reals_[a].num /\ Id'[a] = reals_'[a].num /\ Id \in [Addr -> {reals_[b].num : b \in Addr}]
  BY DEF Id
<1>4. Id' = Id \/ (\E b \in Addr : Ids!onRealDeleted(b))
        \/ (\E b \in Addr, n \in RealNum : Ids!onRealAdded(b, n))
  BY <1>2 DEF IdStep, Ids!Next
<1>5. CASE \E b \in Addr : Ids!onRealDeleted(b)
  <2>1. PICK b \in Addr : Id' = [Id EXCEPT ![b] = 0]
    BY <1>5 DEF Ids!onRealDeleted, Id
  <2> QED BY <1>1, <1>3, <2>1
<1>6. CASE \E b \in Addr, n \in RealNum : Ids!onRealAdded(b, n)
  <2>1. PICK b \in Addr, n \in RealNum : Id[b] = 0 /\ Id' = [Id EXCEPT ![b] = n]
    BY <1>6 DEF Ids!onRealAdded, Id
  <2> QED BY <1>1, <1>3, <2>1
<1> QED BY <1>3, <1>4, <1>5, <1>6

(* Of an id that stays bound to its address, the number stays. *)
LEMMA BoundNumberStays ==
  ASSUME IndInv, IndInv', UserInv, UserInv', [Next]_vars, NEW id \in QuicId,
         quicMapping_[id] # Absent, quicMapping_'[id] = quicMapping_[id]
  PROVE  reals_'[quicMapping_'[id]].num = reals_[quicMapping_[id]].num
<1>1. PICK a \in Addr : a = quicMapping_[id] /\ Known(a)
  BY BoundIsKnown
<1>2. a = quicMapping_'[id] /\ Known(quicMapping_[id])'
  BY <1>1, BoundIsKnownNext
<1>3. Known(a)'
  BY <1>2 DEF Known
<1> QED BY <1>1, <1>2, <1>3, NumberStays

LEMMA QuietRoute ==
  ASSUME IndInv, IndInv', UserInv, UserInv', [Next]_vars, RouteInv,
         UNCHANGED <<quicMapping_, server_id_map>>, call.op # "quic", call'.op # "quic"
  PROVE  RouteInv'
<1>1. ToUpdateInv'
  BY DEF ToUpdateInv
<1>2. ServerIdsInv'
  <2> SUFFICES ASSUME ~Testing, "server_id_map" \notin bpfFailed', NEW id \in QuicId,
                      quicMapping_'[id] # Absent, server_id_map'[id] # 0
               PROVE  server_id_map'[id] = reals_'[quicMapping_'[id]].num
    BY DEF ServerIdsInv
  <2>1. server_id_map[id] = reals_[quicMapping_[id]].num
    BY FailuresStay DEF RouteInv, ServerIdsInv
  <2>2. reals_'[quicMapping_'[id]].num = reals_[quicMapping_[id]].num
    BY BoundNumberStays
  <2> QED BY <2>1, <2>2
<1> QED BY <1>1, <1>2 DEF RouteInv

LEMMA StartQuicRoute ==
  ASSUME IndInv, IndInv', UserInv, UserInv', [Next]_vars, RouteInv,
         NEW action, NEW b, modifyQuicRealsMapping(action, b)
  PROVE  RouteInv'
<1>1. /\ call = Idle /\ UNCHANGED <<poolVars, userVars, kernelVars>>
      /\ call' = [op |-> "quic", action |-> action, todo |-> b,
                  released |-> FALSE, to_update |-> [id \in QuicId |-> 0]]
  BY DEF modifyQuicRealsMapping
<1>2. ToUpdateInv'
  BY <1>1 DEF ToUpdateInv
<1>3. ServerIdsInv'
  BY <1>1 DEF RouteInv, ServerIdsInv, Idle
<1> QED BY <1>2, <1>3 DEF RouteInv

LEMMA InvalidateRoute ==
  ASSUME IndInv, RouteInv, [Next]_vars, NEW id \in QuicId, invalidateServerId(id)
  PROVE  RouteInv'
<1>1. call = Idle /\ UNCHANGED <<call, poolVars, quicMapping_>>
  BY DEF invalidateServerId
<1>2. ToUpdateInv'
  BY <1>1 DEF ToUpdateInv, Idle
<1>3. ServerIdsInv'
  <2> SUFFICES ASSUME ~Testing, "server_id_map" \notin bpfFailed', NEW x \in QuicId,
                      quicMapping_'[x] # Absent, server_id_map'[x] # 0
               PROVE  server_id_map'[x] = reals_'[quicMapping_'[x]].num
    BY DEF ServerIdsInv
  <2>1. server_id_map' = [server_id_map EXCEPT ![id] = 0]
    BY DEF invalidateServerId, countFailure
  <2>2. server_id_map'[x] = server_id_map[x]
    BY <2>1 DEF IndInv, KernelType
  <2> QED BY <1>1, <2>2, FailuresStay DEF RouteInv, ServerIdsInv, Idle
<1> QED BY <1>2, <1>3 DEF RouteInv

LEMMA RevalidateRoute ==
  ASSUME IndInv, RouteInv, [Next]_vars, NEW id \in QuicId, NEW a \in Addr, quicMapping_[id] = a,
         revalidateServerId(id, a)
  PROVE  RouteInv'
<1>1. call = Idle /\ UNCHANGED <<call, poolVars, quicMapping_>>
  BY DEF revalidateServerId
<1>2. ToUpdateInv'
  BY <1>1 DEF ToUpdateInv, Idle
<1>3. ServerIdsInv'
  <2> SUFFICES ASSUME ~Testing, "server_id_map" \notin bpfFailed', NEW x \in QuicId,
                      quicMapping_'[x] # Absent, server_id_map'[x] # 0
               PROVE  server_id_map'[x] = reals_'[quicMapping_'[x]].num
    BY DEF ServerIdsInv
  <2>1. server_id_map' = [server_id_map EXCEPT ![id] = reals_[a].num]
    BY DEF revalidateServerId, countFailure
  <2>2. server_id_map'[x] = IF x = id THEN reals_[a].num ELSE server_id_map[x]
    BY <2>1 DEF IndInv, KernelType
  <2> QED BY <1>1, <2>2, FailuresStay DEF RouteInv, ServerIdsInv, Idle
<1> QED BY <1>2, <1>3 DEF RouteInv

LEMMA QuicDoneRoute ==
  ASSUME IndInv, RouteInv, [Next]_vars, quicDone
  PROVE  RouteInv'
<1>1. call.op = "quic" /\ call' = Idle /\ UNCHANGED <<poolVars, quicMapping_>>
  BY DEF quicDone
<1>2. ToUpdateInv'
  BY <1>1 DEF ToUpdateInv, Idle
<1>3. ServerIdsInv'
  <2> SUFFICES ASSUME ~Testing, "server_id_map" \notin bpfFailed', NEW x \in QuicId,
                      quicMapping_'[x] # Absent, server_id_map'[x] # 0
               PROVE  server_id_map'[x] = reals_'[quicMapping_'[x]].num
    BY DEF ServerIdsInv
  <2>1. server_id_map'[x] = IF call.to_update[x] # 0 THEN call.to_update[x] ELSE server_id_map[x]
    BY DEF quicDone, countFailure
  <2>2. CASE call.to_update[x] # 0
    BY <1>1, <2>1, <2>2 DEF RouteInv, ToUpdateInv
  <2>3. CASE call.to_update[x] = 0
    BY <1>1, <2>1, <2>3, FailuresStay DEF RouteInv, ServerIdsInv
  <2> QED BY <2>2, <2>3
<1> QED BY <1>2, <1>3 DEF RouteInv

LEMMA DelQuicRoute ==
  ASSUME IndInv, IndInv', UserInv, UserInv', [Next]_vars, RouteInv, delQuicStep
  PROVE  RouteInv'
<1>1. /\ call.op = "quic" /\ call.action = "DEL" /\ call.todo # <<>>
      /\ UNCHANGED <<server_id_map, bpfFailed>> /\ call' = [call EXCEPT !.todo = Tail(@)]
  BY DEF delQuicStep
<1>2. call \in QuicCall /\ NextQuic.id \in QuicId
  BY <1>1, NextQuicType DEF IndInv
<1>3. call'.op = "quic" /\ call'.to_update = call.to_update
  BY <1>1, <1>2 DEF QuicCall
<1>4. \A id \in QuicId : call.to_update[id] = 0
  BY <1>1 DEF RouteInv, ToUpdateInv
<1>5. \A id \in QuicId : quicMapping_'[id] \in {Absent, quicMapping_[id]}
  BY DEF delQuicStep, IndInv, UserType
<1>6. ToUpdateInv'
  BY <1>3, <1>4 DEF ToUpdateInv
<1>7. ServerIdsInv'
  <2> SUFFICES ASSUME ~Testing, "server_id_map" \notin bpfFailed', NEW x \in QuicId,
                      quicMapping_'[x] # Absent, server_id_map'[x] # 0
               PROVE  server_id_map'[x] = reals_'[quicMapping_'[x]].num
    BY DEF ServerIdsInv
  <2>1. quicMapping_'[x] = quicMapping_[x]
    BY <1>5
  <2>2. server_id_map[x] = reals_[quicMapping_[x]].num
    BY <1>1, <1>4, <2>1 DEF RouteInv, ServerIdsInv
  <2> QED BY <1>1, <2>1, <2>2, BoundNumberStays
<1> QED BY <1>6, <1>7 DEF RouteInv

LEMMA AddQuicRoute ==
  ASSUME IndInv, IndInv', UserInv, UserInv', [Next]_vars, RouteInv, addQuicStep
  PROVE  RouteInv'
<1>1. /\ call.op = "quic" /\ call.action = "ADD" /\ call.todo # <<>>
      /\ UNCHANGED server_id_map
  BY DEF addQuicStep
<1>2. call \in QuicCall /\ NextQuic.id \in QuicId /\ NextQuic.address \in Addr
  BY <1>1, NextQuicType DEF IndInv
<1>3. PICK id \in QuicId, a \in Addr : id = NextQuic.id /\ a = NextQuic.address
  BY <1>2
<1>4. PICK n : n = NumFor(a)
  OBVIOUS
<1>5. PICK t \in Seq(QuicReal) : t = call.todo /\ t # <<>>
  BY <1>1, <1>2 DEF QuicCall
<1>6. /\ call'.op = "quic" /\ call'.action = "ADD" /\ call'.todo = Tail(t)
  BY <1>1, <1>2, <1>5 DEF addQuicStep, QuicCall
<1>7. \A i \in 1 .. Len(Tail(t)) : \E j \in 1 .. Len(t) : Tail(t)[i] = t[j]
  <2>1. /\ Len(t) \in Nat \ {0} /\ Len(Tail(t)) = Len(t) - 1
        /\ \A i \in 1 .. Len(Tail(t)) : Tail(t)[i] = t[i + 1]
    BY <1>5, HeadTailProperties, EmptySeq
  <2>2. \A i \in 1 .. Len(Tail(t)) : i + 1 \in 1 .. Len(t)
    BY <2>1
  <2> QED BY <2>1, <2>2
\* an id that the step does not bind
<1>8. ASSUME NEW x \in QuicId, quicMapping_'[x] = quicMapping_[x], call'.to_update[x] = call.to_update[x]
      PROVE  /\ call'.to_update[x] # 0 =>
                  /\ quicMapping_'[x] # Absent
                  /\ call'.to_update[x] = reals_'[quicMapping_'[x]].num
                  /\ \A i \in 1 .. Len(Tail(t)) : Tail(t)[i].id # x
             /\ ~Testing /\ "server_id_map" \notin bpfFailed' /\ quicMapping_'[x] # Absent
                  /\ server_id_map'[x] # 0 =>
                  \/ server_id_map'[x] = reals_'[quicMapping_'[x]].num
                  \/ call'.to_update[x] # 0
  <2>1. quicMapping_[x] # Absent =>
          reals_'[quicMapping_'[x]].num = reals_[quicMapping_[x]].num
    BY <1>8, BoundNumberStays
  <2>2. call.to_update[x] # 0 =>
          /\ quicMapping_[x] # Absent
          /\ call.to_update[x] = reals_[quicMapping_[x]].num
          /\ \A i \in 1 .. Len(t) : t[i].id # x
    BY <1>1, <1>5 DEF RouteInv, ToUpdateInv
  <2>3. ~Testing /\ "server_id_map" \notin bpfFailed' /\ quicMapping_[x] # Absent
          /\ server_id_map[x] # 0 =>
          server_id_map[x] = reals_[quicMapping_[x]].num \/ call.to_update[x] # 0
    BY FailuresStay DEF RouteInv, ServerIdsInv
  <2>4. call'.to_update[x] # 0 => \A i \in 1 .. Len(Tail(t)) : Tail(t)[i].id # x
    BY <1>7, <1>8, <2>2
  <2> QED BY <1>1, <1>8, <2>1, <2>2, <2>3, <2>4
<1>9. CASE UNCHANGED quicMapping_ /\ call'.to_update = call.to_update
  <2>1. ToUpdateInv'
    BY <1>6, <1>8, <1>9 DEF ToUpdateInv
  <2>2. ServerIdsInv'
    BY <1>6, <1>8, <1>9 DEF ServerIdsInv
  <2> QED BY <2>1, <2>2 DEF RouteInv
<1>10. CASE /\ n # MaxReals /\ call'.to_update = [call.to_update EXCEPT ![id] = n]
            /\ quicMapping_' = [quicMapping_ EXCEPT ![id] = a]
            /\ \E ok : increaseRefCountForReal(a, {}, ok)
  <2>1. /\ quicMapping_'[id] = a /\ call'.to_update[id] = n
        /\ \A x \in QuicId : x # id => /\ quicMapping_'[x] = quicMapping_[x]
                                       /\ call'.to_update[x] = call.to_update[x]
    BY <1>2, <1>10 DEF IndInv, UserType, QuicCall
  <2>2. reals_'[a].num = n
    <3>1. reals_ \in [Addr -> RealMeta \cup {NoReal}]
      BY DEF IndInv, PoolInv, PoolType
    <3>2. CASE Known(a)
      <4>1. n = reals_[a].num /\ reals_' = [reals_ EXCEPT ![a].refCount = @ + 1]
        BY <1>4, <1>10, <3>2 DEF NumFor, increaseRefCountForReal
      <4>2. reals_[a] \in RealMeta
        BY <3>1, <3>2 DEF Known
      <4> QED BY <3>1, <4>1, <4>2 DEF RealMeta
    <3>3. CASE ~Known(a)
      <4>1. realNums_ # <<>> /\ n = Head(realNums_)
        BY <1>4, <1>10, <3>3 DEF NumFor
      <4>2. \E flags : reals_' = [reals_ EXCEPT ![a] = [num |-> n, refCount |-> 1, flags |-> flags]]
        BY <1>10, <3>3, <4>1 DEF increaseRefCountForReal
      <4> QED BY <3>1, <4>2
    <3> QED BY <3>2, <3>3
  <2>3. n # 0
    <3>1. n \in RealNum
      BY <1>4, <1>10, NumForType DEF IndInv, PoolInv
    <3> QED BY <3>1, ConfigAssumption DEF RealNum
  <2>4. \A i \in 1 .. Len(Tail(t)) : Tail(t)[i].id # id
    <3>1. Unbound(call.todo)
      BY <1>1 DEF UserInv, QuicInv
    <3>2. call'.todo = Tail(call.todo)
      BY <1>5, <1>6
    <3>3. \A i \in 1 .. Len(Tail(call.todo)) : Tail(call.todo)[i].id # NextQuic.id
      BY <1>1, <1>3, <2>1, <3>1, <3>2, QuicGoesOn
    <3> QED BY <1>3, <1>5, <3>3
  <2>5. a # Absent
    BY DataAssumption
  <2>6. ToUpdateInv'
    <3> SUFFICES ASSUME NEW x \in QuicId, call'.to_update[x] # 0
                 PROVE  /\ quicMapping_'[x] # Absent
                        /\ call'.to_update[x] = reals_'[quicMapping_'[x]].num
                        /\ \A i \in 1 .. Len(Tail(t)) : Tail(t)[i].id # x
      BY <1>6 DEF ToUpdateInv
    <3>1. CASE x = id
      BY <2>1, <2>2, <2>4, <2>5, <3>1
    <3>2. CASE x # id
      BY <1>8, <2>1, <3>2
    <3> QED BY <3>1, <3>2
  <2>7. ServerIdsInv'
    <3> SUFFICES ASSUME ~Testing, "server_id_map" \notin bpfFailed', NEW x \in QuicId,
                        quicMapping_'[x] # Absent, server_id_map'[x] # 0
                 PROVE  \/ server_id_map'[x] = reals_'[quicMapping_'[x]].num
                        \/ call'.to_update[x] # 0
      BY <1>6 DEF ServerIdsInv
    <3>1. CASE x = id
      BY <2>1, <2>3, <3>1
    <3>2. CASE x # id
      BY <1>8, <2>1, <3>2
    <3> QED BY <3>1, <3>2
  <2> QED BY <2>6, <2>7 DEF RouteInv
<1>11. \/ UNCHANGED quicMapping_ /\ call'.to_update = call.to_update
       \/ /\ n # MaxReals /\ call'.to_update = [call.to_update EXCEPT ![id] = n]
          /\ quicMapping_' = [quicMapping_ EXCEPT ![id] = a]
          /\ \E ok : increaseRefCountForReal(a, {}, ok)
  BY <1>2, <1>3, <1>4 DEF addQuicStep, QuicCall
<1> QED BY <1>9, <1>10, <1>11

LEMMA RouteKeeps ==
  ASSUME IndInv, IndInv', UserInv, UserInv', RouteInv, [Next]_vars, Liberties = {}
  PROVE  RouteInv'
<1>1. Idle.op # "quic" /\ Idle.op = "idle"
  BY DEF Idle
<1>2. CASE UNCHANGED <<quicMapping_, server_id_map>> /\ call.op # "quic" /\ call'.op # "quic"
  BY <1>2, QuietRoute
<1>3. ASSUME CallerStep PROVE RouteInv'
  <2>1. CASE \E v \in VipKey : delVip(v) \/ \E action, b : modifyRealsForVip(action, b, v)
    <3>1. UNCHANGED <<quicMapping_, server_id_map>> /\ call.op # "quic" /\ call'.op # "quic"
      BY <1>1, <2>1 DEF delVip, modifyRealsForVip
    <3> QED BY <1>2, <3>1
  <2>2. CASE clearAllSrcRoutingRules
    <3>1. UNCHANGED <<quicMapping_, server_id_map>> /\ call.op # "quic" /\ call'.op # "quic"
      BY <1>1, <2>2 DEF clearAllSrcRoutingRules
    <3> QED BY <1>2, <3>1
  <2>3. CASE UNCHANGED <<quicMapping_, server_id_map, call>> /\ call = Idle
    BY <1>1, <1>2, <2>3
  <2>4. CASE \E action, b : modifyQuicRealsMapping(action, b)
    BY <2>4, StartQuicRoute
  <2>5. CASE \E id \in QuicId : invalidateServerId(id)
    BY <2>5, InvalidateRoute
  <2>6. CASE \E id \in QuicId, a \in Addr : quicMapping_[id] = a /\ revalidateServerId(id, a)
    BY <2>6, RevalidateRoute
  <2> QED BY <1>3, <2>1, <2>2, <2>3, <2>4, <2>5, <2>6
          DEF CallerStep, modifyReal, addVip, modifyVip, changeHashFunctionForVip,
              addSrcRoutingRule, delSrcRoutingRule, getSrcRoutingRule, getRealsForVip,
              getVipLruMissStats
<1>4. ASSUME LoopStep PROVE RouteInv'
  <2>1. delVipReal => call'.op = "delVip"
    BY CallFields DEF delVipReal, IndInv, DelVipCall
  <2>2. delRealStep \/ addRealStep => call'.op = "modifyReals"
    BY CallFields DEF delRealStep, addRealStep, IndInv, ModifyRealsCall
  <2>3. clearSrcStep => call'.op # "quic"
    BY CallFields DEF clearSrcStep, IndInv, ClearSrcCall, Crashed
  <2>4. delVipDone \/ modifyRealsDone \/ clearSrcDone => call'.op # "quic"
    BY <1>1 DEF delVipDone, modifyRealsDone, clearSrcDone
  <2>5. CASE delVipReal \/ delVipDone \/ delRealStep \/ addRealStep \/ modifyRealsDone
               \/ clearSrcStep \/ clearSrcDone
    <3>1. UNCHANGED <<quicMapping_, server_id_map>> /\ call.op # "quic"
      BY <2>5 DEF delVipReal, delVipDone, delRealStep, addRealStep, modifyRealsDone,
                  clearSrcStep, clearSrcDone
    <3>2. call'.op # "quic"
      BY <2>1, <2>2, <2>3, <2>4, <2>5
    <3> QED BY <1>2, <3>1, <3>2
  <2> QED BY <1>4, <2>5, DelQuicRoute, AddQuicRoute, OverrideNever, QuicDoneRoute DEF LoopStep
<1>5. ASSUME UNCHANGED vars PROVE RouteInv'
  <2>1. ToUpdateInv'
    BY <1>5 DEF RouteInv, ToUpdateInv
  <2>2. ServerIdsInv'
    BY <1>5 DEF RouteInv, ServerIdsInv
  <2> QED BY <2>1, <2>2 DEF RouteInv
<1> QED BY <1>3, <1>4, <1>5 DEF Next, Dead

(* For a careful caller a server id leads through server_id_map and reals to
   the address it is bound to, although its old number may have been freed and
   given away, and modifyQuicRealsMapping writes only at the end of a batch. *)
THEOREM QuicRoutesCurrent == Liberties = {} => (Spec => []QuicRouteCurrent)
<1> SUFFICES ASSUME Liberties = {} PROVE Spec => []QuicRouteCurrent
  OBVIOUS
<1>1. Init => RouteInv
  BY DEF Init, RouteInv, ToUpdateInv, ServerIdsInv, Idle
<1>2. IndInv /\ IndInv' /\ UserInv /\ UserInv' /\ RouteInv /\ [Next]_vars => RouteInv'
  BY RouteKeeps
<1>3. IndInv /\ UserInv /\ RealsAgree /\ RouteInv => QuicRouteCurrent
  <2> SUFFICES ASSUME IndInv, UserInv, RealsAgree, RouteInv, ~Testing, call = Idle,
                      "reals" \notin bpfFailed, "server_id_map" \notin bpfFailed,
                      NEW id \in QuicId, quicMapping_[id] # Absent, server_id_map[id] # 0
               PROVE  /\ reals[server_id_map[id]] # Absent
                      /\ reals[server_id_map[id]].address = quicMapping_[id]
    BY DEF QuicRouteCurrent
  <2>1. PICK a \in Addr : a = quicMapping_[id] /\ Known(a)
    BY BoundIsKnown
  <2>2. server_id_map[id] = reals_[a].num
    BY <2>1 DEF RouteInv, ServerIdsInv, Idle
  <2>3. reals[server_id_map[id]] = [address |-> a, flags |-> reals_[a].flags]
    BY <2>1, <2>2 DEF RealsAgree
  <2>4. reals_[a].flags \in SUBSET RealFlag
    BY <2>1, KnownReal DEF IndInv, RealMeta
  <2>5. reals[server_id_map[id]] \in [address : Addr, flags : SUBSET RealFlag]
    BY <2>3, <2>4
  <2> QED BY <2>1, <2>3, <2>5, EntryAssumption
<1> QED BY <1>1, <1>2, <1>3, Inductive, UsersInductive, RealsMirrored, PTL DEF Spec
-----------------------------------------------------------------------------
(* From the tables to the data path *)

\* While a user keeps a number, the number stands for the same real.
NumberKept(n) == numToReals_[n] \in Addr /\ numToReals_'[n] = numToReals_[n]

UsersKeepReals ==
  /\ \A v \in VipKey : \A n \in VipUses(v) : n \in VipUses(v)' => NumberKept(n)
  /\ \A s \in SrcCounted :
       s \in SrcCounted' /\ lpmSrcMapping_'[s] = lpmSrcMapping_[s] => NumberKept(lpmSrcMapping_[s])

\* A number on a ring is one of the VIP's reals and leads through the kernel map reals to
\* the known real that has it.
RingReachesReals ==
  ~Testing /\ "reals" \notin bpfFailed =>
    \A v \in VipKey :
      Serving(v) # {} /\ ~(call.op \in {"modifyReals", "delVip"} /\ call.vip = v) =>
        \A n \in vips_[v].ring :
          /\ n \in VipReals(v)
          /\ \E a \in Addr : /\ Known(a) /\ reals_[a].num = n
                           /\ reals[n] = [address |-> a, flags |-> reals_[a].flags]

LEMMA AllocatedIs ==
  \A n : n \in Allocated <=> \E a \in Addr : Known(a) /\ reals_[a].num = n
BY DEF Allocated

LEMMA AllocatedIsNext ==
  (\A n : n \in Allocated <=> \E a \in Addr : Known(a) /\ reals_[a].num = n)'
BY AllocatedIs, PTL

LEMMA IndexOfKnown == IndInv => \A a \in Addr : Known(a) => numToReals_[reals_[a].num] = a
BY DEF IndInv, PoolInv, IndexAgrees

LEMMA IndexOfKnownNext ==
  (IndInv => \A a \in Addr : Known(a) => numToReals_[reals_[a].num] = a)'
BY IndexOfKnown, PTL

LEMMA AllocatedKept ==
  ASSUME IndInv, IndInv', [Next]_vars, NEW n, n \in Allocated, n \in Allocated'
  PROVE  NumberKept(n)
<1>1. PICK a \in Addr : Known(a) /\ reals_[a].num = n
  BY AllocatedIs
<1>2. PICK b \in Addr : Known(b)' /\ reals_'[b].num = n
  BY AllocatedIsNext
<1>3. numToReals_[n] = a /\ numToReals_'[n] = b
  BY <1>1, <1>2, IndexOfKnown, IndexOfKnownNext
<1>4. a = b
  <2> SUFFICES ASSUME a # b PROVE FALSE
    OBVIOUS
  <2>1. n # 0
    BY <1>1, KnownByNumber
  <2>2. IdStep
    BY CallerIdStep, LoopIdStep, SameIds DEF Next, Dead
  <2>3. /\ Id[a] = n /\ Id[b] = reals_[b].num /\ Id'[b] = n
        /\ Id \in [Addr -> {reals_[c].num : c \in Addr}]
    BY <1>1, <1>2 DEF Id
  <2>4. Id[b] # n
    <3>1. Known(b) => reals_[b].num # n
      BY <1>1 DEF IndInv, PoolInv, NumberConservation
    <3> QED BY <2>1, <2>3, <3>1, KnownByNumber
  <2>5. CASE Id' = Id
    BY <2>5, <2>3, <2>4
  <2>6. CASE \E c \in Addr : Ids!onRealDeleted(c)
    <3>1. PICK c \in Addr : Id' = [Id EXCEPT ![c] = 0]
      BY <2>6 DEF Ids!onRealDeleted, Id
    <3> QED BY <2>1, <2>3, <2>4, <3>1
  <2>7. CASE \E c \in Addr, m \in RealNum : Ids!onRealAdded(c, m)
    <3>1. PICK c \in Addr, m \in RealNum :
            Id' = [Id EXCEPT ![c] = m] /\ \A d \in Addr : Id[d] # m
      BY <2>7 DEF Ids!onRealAdded, Id
    <3> QED BY <2>3, <2>4, <3>1
  <2> QED BY <2>2, <2>5, <2>6, <2>7 DEF IdStep, Ids!Next
<1> QED BY <1>1, <1>3, <1>4 DEF NumberKept

LEMMA DanglingNext ==
  (NoDangling => /\ \A v \in VipKey : VipUses(v) \subseteq Allocated
                 /\ \A s \in SrcCounted : lpmSrcMapping_[s] \in Allocated)'
<1>1. NoDangling => /\ \A v \in VipKey : VipUses(v) \subseteq Allocated
                    /\ \A s \in SrcCounted : lpmSrcMapping_[s] \in Allocated
  BY DEF NoDangling
<1> QED BY <1>1, PTL

LEMMA KeepsReals ==
  ASSUME IndInv, IndInv', NoDangling, NoDangling', [Next]_vars
  PROVE  UsersKeepReals
<1>1. ASSUME NEW v \in VipKey, NEW n \in VipUses(v), n \in VipUses(v)'
      PROVE  NumberKept(n)
  BY <1>1, DanglingNext, AllocatedKept DEF NoDangling
<1>2. ASSUME NEW s \in SrcCounted, s \in SrcCounted', lpmSrcMapping_'[s] = lpmSrcMapping_[s]
      PROVE  NumberKept(lpmSrcMapping_[s])
  BY <1>2, DanglingNext, AllocatedKept DEF NoDangling
<1> QED BY <1>1, <1>2 DEF UsersKeepReals

(* Whoever uses a number - a VIP on its ring, a source-routing rule - and keeps it over
   a step means the same real before and after: no batch of another VIP, no deletion and
   no re-use of a freed number moves the traffic of a user to another real.  *)
THEOREM NumbersMeanTheSameReal == Liberties = {} => (Spec => [][UsersKeepReals]_vars)
<1> SUFFICES ASSUME Liberties = {} PROVE Spec => [][UsersKeepReals]_vars
  OBVIOUS
<1>1. IndInv /\ IndInv' /\ NoDangling /\ NoDangling' /\ [Next]_vars => [UsersKeepReals]_vars
  BY KeepsReals
<1> QED BY <1>1, Inductive, NothingDangles, PTL DEF Spec

(* The data path, which finds a number on the ring of a VIP and looks it up in reals,
   arrives at a real of that VIP: no ring of a VIP outside a call that changes it names
   a freed number or one whose entry is of somebody else.                    *)
THEOREM RingsReachReals == Liberties = {} => (Spec => []RingReachesReals)
<1> SUFFICES ASSUME Liberties = {} PROVE Spec => []RingReachesReals
  OBVIOUS
<1>1. RingServesVip /\ NoDangling /\ RealsAgree => RingReachesReals
  <2> SUFFICES ASSUME RingServesVip, NoDangling, RealsAgree,
                      ~Testing, "reals" \notin bpfFailed, NEW v \in VipKey, Serving(v) # {},
                      ~(call.op \in {"modifyReals", "delVip"} /\ call.vip = v),
                      NEW n \in vips_[v].ring
               PROVE  /\ n \in VipReals(v)
                      /\ \E a \in Addr :
                           /\ Known(a) /\ reals_[a].num = n
                           /\ reals[n] = [address |-> a, flags |-> reals_[a].flags]
    BY DEF RingReachesReals
  <2>1. VipUses(v) = VipReals(v)
    BY DEF VipUses
  <2>2. n \in VipReals(v) /\ n \in VipUses(v)
    BY <2>1 DEF RingServesVip
  <2>3. PICK a \in Addr : Known(a) /\ reals_[a].num = n
    BY <2>2, AllocatedIs DEF NoDangling
  <2> QED BY <2>2, <2>3 DEF RealsAgree
<1> QED BY <1>1, RingsServe, NothingDangles, RealsMirrored, PTL
=============================================================================
