--------------------------- MODULE LbTablesProofs ---------------------------
(* Theorems about LbTables, for every value of its constants. *)
EXTENDS LbTables, SequenceTheorems, FiniteSetTheorems, TLAPS

(* The inductive invariant, one part for each group of tables *)

\* Two live spellings of one kernel key are recorded in aliased.
OneSpelling ==
  \A k, l \in LiveKeys : HcKeyDef[k] = HcKeyDef[l] => k = l \/ HcKeyDef[k] \in aliased

KeyInv ==
  /\ HcNumberConservation
  /\ hc_key_map \in [Def -> HcNum \cup {Absent}]
  /\ OneSpelling
  /\ HcKeyMapAgrees

CallType ==
  {Idle} \cup [op : {"addHealthcheckerDst"}, somark : Somark, dst : Dst]
         \cup [op : {"delHealthcheckerDst"}, somark : Somark]
         \cup [op : {"changeMac"}]
         \cup [op : {"addSrcIpForPcktEncap"}, src : Dst]
         \cup [op : {"setupGueEnvironment"}, left : SUBSET Family]

\* What hc_reals_map holds for a destination
Entry(a) == IF a = Absent THEN Absent ELSE parseAddr(a)

\* The kernel entry of every mark is the one of hcReals_, but for the mark of the
\* call in progress, whose kernel entry is new already.
DstInv ==
  /\ features_.directHealthchecking \in BOOLEAN
  /\ hcReals_ \in [Somark -> Dst \cup {Absent}]
  /\ DOMAIN hc_reals_map = Somark
  /\ \A m \in Somark :
       hc_reals_map[m] =
         IF call.op = "addHealthcheckerDst" /\ call.somark = m THEN parseAddr(call.dst)
         ELSE IF call.op = "delHealthcheckerDst" /\ call.somark = m THEN Absent
         ELSE Entry(hcReals_[m])

\* HeadersAgree while a call is in progress too: the second of its two writes is
\* still to come, and the first put down the value that the second will.
HeaderInv ==
  /\ mac # ctl_mac => <<"ctl_array", "mac", "ADD">> \in failed
  /\ call.op = "changeMac" => mac = ctl_mac
  /\ features_.directHealthchecking /\ hc_pckt_macs # ctl_mac
       => call.op = "changeMac" \/ <<"hc_pckt_macs", "mac", "ADD">> \in failed
  /\ DOMAIN hc_pckt_srcs_map = Family /\ DOMAIN pckt_srcs = Family
  /\ call.op = "addSrcIpForPcktEncap" => hc_pckt_srcs_map[FamilyOf(call.src)] = call.src
  /\ features_.directHealthchecking /\ features_.gueEncap =>
       \A f \in Family : hc_pckt_srcs_map[f] # pckt_srcs[f] =>
         \/ call.op = "addSrcIpForPcktEncap" /\ FamilyOf(call.src) = f
         \/ f \in reloaded
         \/ <<"pckt_srcs", f, "ADD">> \in failed

IndInv == call \in CallType /\ KeyInv /\ DecapAgrees /\ DstInv /\ HeaderInv
-----------------------------------------------------------------------------
(* The record of failed kernel calls *)

SameFailures(map) ==
  \A key, act : <<map, key, act>> \in failed' <=> <<map, key, act>> \in failed

(* A kernel call for one key of one map changes no other key's record... *)
LEMMA NoteElsewhere ==
  ASSUME NEW map, NEW key, NEW act, NEW ok \in BOOLEAN, note(map, key, act, ok),
         NEW other, NEW otherKey, NEW otherAct, other # map \/ otherKey # key
  PROVE  <<other, otherKey, otherAct>> \in failed' <=> <<other, otherKey, otherAct>> \in failed
BY DEF note, FailuresOf

(* ... and a failed one adds to the record of its own key. *)
LEMMA NoteFailure ==
  ASSUME NEW map, NEW key, NEW act, note(map, key, act, FALSE)
  PROVE  <<map, key, act>> \in failed' /\ failed \subseteq failed'
BY DEF note

LEMMA NoteOtherMap ==
  ASSUME NEW map, NEW key, NEW act, NEW ok \in BOOLEAN, note(map, key, act, ok),
         NEW other, other # map
  PROVE  SameFailures(other)
BY NoteElsewhere DEF SameFailures

LEMMA NoNote == ASSUME UNCHANGED failed, NEW map PROVE SameFailures(map)
BY DEF SameFailures

LEMMA OutcomesBoolean == ASSUME NEW map, NEW good PROVE Outcomes(map, good) \subseteq BOOLEAN
BY DEF Outcomes
-----------------------------------------------------------------------------
(* What the calls of one group leave alone *)

LEMMA KeyFrame ==
  ASSUME KeyInv, UNCHANGED keyVars, SameFailures("hc_key_map")
  PROVE  KeyInv'
<1> USE DEF KeyInv, keyVars
<1>1. LiveKeys' = LiveKeys
  BY DEF LiveKeys
<1>2. HcNumberConservation' /\ OneSpelling'
  BY <1>1 DEF HcNumberConservation, OneSpelling
<1>3. HcKeyMapAgrees'
  BY <1>1, ZenonT(60) DEF HcKeyMapAgrees, SameFailures
<1> QED BY <1>2, <1>3

LEMMA DecapFrame ==
  ASSUME DecapAgrees, UNCHANGED decapVars, SameFailures("decap_dst")
  PROVE  DecapAgrees'
BY DEF DecapAgrees, decapVars, SameFailures, FailuresOf

LEMMA DstFrame ==
  ASSUME DstInv, UNCHANGED <<features_, dstVars>>,
         call.op \notin {"addHealthcheckerDst", "delHealthcheckerDst"},
         call'.op \notin {"addHealthcheckerDst", "delHealthcheckerDst"}
  PROVE  DstInv'
BY DEF DstInv, dstVars, Entry, parseAddr

LEMMA HeaderFrame ==
  ASSUME HeaderInv, UNCHANGED <<features_, macVars, srcVars>>,
         \A map \in {"ctl_array", "hc_pckt_macs", "pckt_srcs"} : SameFailures(map),
         call.op \notin {"changeMac", "addSrcIpForPcktEncap"},
         call'.op \notin {"changeMac", "addSrcIpForPcktEncap"}
  PROVE  HeaderInv'
BY DEF HeaderInv, macVars, srcVars, SameFailures, FamilyOf
-----------------------------------------------------------------------------
(* Healthcheck keys *)

\* The pool of numbers when one is taken from it and when one is put back: the
\* two lemmas that HcNumberConservation rests on.
LEMMA TakeNumber ==
  ASSUME HcNumberConservation, NEW k \in HcKey, k \notin LiveKeys, hcKeyNums_ # <<>>,
         hckeys_' = [hckeys_ EXCEPT ![k] = Head(hcKeyNums_)],
         hcKeyNums_' = Tail(hcKeyNums_)
  PROVE  HcNumberConservation' /\ Head(hcKeyNums_) \in HcNum /\ LiveKeys' = LiveKeys \cup {k}
<1> DEFINE n == Head(hcKeyNums_)
<1>1. /\ n \in HcNum /\ n # Absent /\ n = hcKeyNums_[1]
      /\ Len(hcKeyNums_) \in Nat \ {0}
      /\ hcKeyNums_' \in Seq(HcNum)
      /\ Len(hcKeyNums_') = Len(hcKeyNums_) - 1
      /\ \A i \in 1 .. Len(hcKeyNums_') : hcKeyNums_'[i] = hcKeyNums_[i + 1]
  <2>1. n \in HcNum /\ n = hcKeyNums_[1] /\ Len(hcKeyNums_) \in Nat \ {0}
    BY HeadTailProperties, EmptySeq DEF HcNumberConservation
  <2>2. n # Absent
    BY <2>1, TablesAssumption DEF HcNum
  <2> QED BY <2>1, <2>2, HeadTailProperties DEF HcNumberConservation
<1> HIDE DEF n
<1>2. /\ hckeys_' \in [HcKey -> HcNum \cup {Absent}]
      /\ hckeys_'[k] = n /\ hckeys_[k] = Absent
      /\ \A l \in HcKey : l # k => hckeys_'[l] = hckeys_[l]
  BY <1>1 DEF HcNumberConservation, LiveKeys, n
<1>3. LiveKeys' = LiveKeys \cup {k}
  BY <1>1, <1>2 DEF LiveKeys
<1>4. \A l \in HcKey : hckeys_[l] # n
  <2>1. 1 \in 1 .. Len(hcKeyNums_)
    BY <1>1
  <2> QED BY <1>1, <2>1 DEF HcNumberConservation
<1>5. \A i, j \in 1 .. Len(hcKeyNums_') : hcKeyNums_'[i] = hcKeyNums_'[j] => i = j
  <2> SUFFICES ASSUME NEW i \in 1 .. Len(hcKeyNums_'), NEW j \in 1 .. Len(hcKeyNums_'),
                      hcKeyNums_'[i] = hcKeyNums_'[j]
               PROVE  i = j
    OBVIOUS
  <2>1. i + 1 \in 1 .. Len(hcKeyNums_) /\ j + 1 \in 1 .. Len(hcKeyNums_)
    BY <1>1
  <2>2. hcKeyNums_[i + 1] = hcKeyNums_[j + 1]
    BY <1>1
  <2>3. i + 1 = j + 1
    BY <2>1, <2>2 DEF HcNumberConservation
  <2> QED BY <2>3
<1>6. \A l, m \in LiveKeys' : hckeys_'[l] = hckeys_'[m] => l = m
  BY <1>2, <1>3, <1>4 DEF HcNumberConservation, LiveKeys
<1>7. \A m \in HcNum : (\E i \in 1 .. Len(hcKeyNums_') : hcKeyNums_'[i] = m)
                        <=> (\A l \in HcKey : hckeys_'[l] # m)
  <2> SUFFICES ASSUME NEW m \in HcNum
               PROVE  (\E i \in 1 .. Len(hcKeyNums_') : hcKeyNums_'[i] = m)
                        <=> (\A l \in HcKey : hckeys_'[l] # m)
    OBVIOUS
  <2>1. (\E i \in 1 .. Len(hcKeyNums_') : hcKeyNums_'[i] = m)
          <=> m # n /\ \E i \in 1 .. Len(hcKeyNums_) : hcKeyNums_[i] = m
    <3>1. ASSUME NEW i \in 1 .. Len(hcKeyNums_'), hcKeyNums_'[i] = m
          PROVE  m # n /\ \E j \in 1 .. Len(hcKeyNums_) : hcKeyNums_[j] = m
      <4>1. /\ i + 1 \in 1 .. Len(hcKeyNums_) /\ 1 \in 1 .. Len(hcKeyNums_) /\ i + 1 # 1
            /\ hcKeyNums_[i + 1] = m
        BY <1>1, <3>1
      <4> QED BY <1>1, <4>1 DEF HcNumberConservation
    <3>2. ASSUME NEW i \in 1 .. Len(hcKeyNums_), hcKeyNums_[i] = m, m # n
          PROVE  \E j \in 1 .. Len(hcKeyNums_') : hcKeyNums_'[j] = m
      <4>1. i - 1 \in 1 .. Len(hcKeyNums_') /\ (i - 1) + 1 = i
        BY <1>1, <3>2
      <4>2. hcKeyNums_'[i - 1] = m
        BY <1>1, <3>2, <4>1
      <4> QED BY <4>1, <4>2
    <3> QED BY <3>1, <3>2
  <2>2. (\A l \in HcKey : hckeys_'[l] # m) <=> m # n /\ \A l \in HcKey : hckeys_[l] # m
    BY <1>2, TablesAssumption DEF HcNum
  <2> QED BY <2>1, <2>2 DEF HcNumberConservation
<1>8. HcNumberConservation'
  BY <1>1, <1>2, <1>5, <1>6, <1>7 DEF HcNumberConservation, HcNum
<1> QED BY <1>1, <1>3, <1>8 DEF n

LEMMA ReturnNumber ==
  ASSUME HcNumberConservation, NEW k \in LiveKeys,
         hcKeyNums_' = Append(hcKeyNums_, hckeys_[k]),
         hckeys_' = [hckeys_ EXCEPT ![k] = Absent]
  PROVE  HcNumberConservation' /\ LiveKeys' = LiveKeys \ {k}
<1> DEFINE n == hckeys_[k]
<1> DEFINE last == Len(hcKeyNums_) + 1
<1>1. k \in HcKey /\ n \in HcNum /\ n # Absent
  BY DEF LiveKeys, HcNumberConservation
<1>2. /\ hcKeyNums_' \in Seq(HcNum) /\ Len(hcKeyNums_') = last
      /\ hcKeyNums_'[last] = n /\ Len(hcKeyNums_) \in Nat
      /\ \A i \in 1 .. Len(hcKeyNums_) : hcKeyNums_'[i] = hcKeyNums_[i]
  BY <1>1, AppendProperties DEF HcNumberConservation
<1> HIDE DEF n
<1>3. /\ hckeys_' \in [HcKey -> HcNum \cup {Absent}]
      /\ hckeys_'[k] = Absent /\ hckeys_[k] = n
      /\ \A l \in HcKey : l # k => hckeys_'[l] = hckeys_[l]
  BY <1>1 DEF HcNumberConservation, n
<1>4. LiveKeys' = LiveKeys \ {k}
  BY <1>1, <1>3 DEF LiveKeys
<1>5. \A i \in 1 .. Len(hcKeyNums_) : hcKeyNums_[i] # n
  BY <1>1, <1>3 DEF HcNumberConservation
<1>6. \A i, j \in 1 .. Len(hcKeyNums_') : hcKeyNums_'[i] = hcKeyNums_'[j] => i = j
  BY <1>2, <1>5 DEF HcNumberConservation
<1>7. \A l, m \in LiveKeys' : hckeys_'[l] = hckeys_'[m] => l = m
  BY <1>3, <1>4 DEF HcNumberConservation, LiveKeys
<1>8. \A m \in HcNum : (\E i \in 1 .. Len(hcKeyNums_') : hcKeyNums_'[i] = m)
                        <=> (\A l \in HcKey : hckeys_'[l] # m)
  <2> SUFFICES ASSUME NEW m \in HcNum
               PROVE  (\E i \in 1 .. Len(hcKeyNums_') : hcKeyNums_'[i] = m)
                        <=> (\A l \in HcKey : hckeys_'[l] # m)
    OBVIOUS
  <2>1. (\E i \in 1 .. Len(hcKeyNums_') : hcKeyNums_'[i] = m)
          <=> m = n \/ \E i \in 1 .. Len(hcKeyNums_) : hcKeyNums_[i] = m
    BY <1>2
  <2>2. m # Absent
    BY TablesAssumption DEF HcNum
  <2>3. (\A l \in HcKey : hckeys_'[l] # m) <=> m = n \/ \A l \in HcKey : hckeys_[l] # m
    <3>1. CASE m = n
      BY <1>1, <1>3, <2>2, <3>1 DEF HcNumberConservation, LiveKeys
    <3>2. CASE m # n
      BY <1>1, <1>3, <2>2, <3>2
    <3> QED BY <3>1, <3>2
  <2> QED BY <2>1, <2>3 DEF HcNumberConservation
<1>9. HcNumberConservation'
  BY <1>2, <1>3, <1>6, <1>7, <1>8 DEF HcNumberConservation, HcNum
<1> QED BY <1>4, <1>9
(* What updateHcKeyMap does to the kernel map and to the record of failures *)
LEMMA UpdateHcKeyMap ==
  ASSUME KeyInv, NEW k \in HcKey, NEW act \in {"ADD", "DEL"}, NEW num \in HcNum \cup {0},
         act = "ADD" => num \in HcNum, updateHcKeyMap(k, act, num)
  PROVE  LET d == HcKeyDef[k] IN
         /\ hc_key_map' \in [Def -> HcNum \cup {Absent}]
         /\ \A e \in Def : e # d =>
              /\ hc_key_map'[e] = hc_key_map[e]
              /\ \A a : <<"hc_key_map", e, a>> \in failed' <=> <<"hc_key_map", e, a>> \in failed
         /\ \/ d \notin Def
            \/ /\ d \in Def
               /\ hc_key_map'[d] = IF act = "ADD" THEN num ELSE Absent
            \/ /\ d \in Def /\ hc_key_map'[d] = hc_key_map[d]
               /\ <<"hc_key_map", d, act>> \in failed' /\ failed \subseteq failed'
         /\ \A map : map # "hc_key_map" => SameFailures(map)
<1> DEFINE d == HcKeyDef[k]
<1>1. CASE d = BadAddress /\ UNCHANGED <<hc_key_map, failed>>
  BY <1>1 DEF Def, KeyInv, SameFailures
<1>2. CASE d # BadAddress /\ \E ok \in BOOLEAN :
             /\ hc_key_map' =
                  IF ok THEN [hc_key_map EXCEPT ![d] = IF act = "ADD" THEN num ELSE Absent]
                        ELSE hc_key_map
             /\ note("hc_key_map", d, act, ok)
  <2>1. d \in Def
    BY <1>2 DEF Def
  <2>2. PICK ok \in BOOLEAN :
             /\ hc_key_map' =
                  IF ok THEN [hc_key_map EXCEPT ![d] = IF act = "ADD" THEN num ELSE Absent]
                        ELSE hc_key_map
             /\ note("hc_key_map", d, act, ok)
    BY <1>2
  <2> HIDE DEF d
  <2>3. \A e, a : e # d =>
          (<<"hc_key_map", e, a>> \in failed' <=> <<"hc_key_map", e, a>> \in failed)
    BY <2>2, NoteElsewhere
  <2>4. \A map : map # "hc_key_map" => SameFailures(map)
    BY <2>2, NoteOtherMap
  <2>5. ok \/ (<<"hc_key_map", d, act>> \in failed' /\ failed \subseteq failed')
    BY <2>2, NoteFailure
  <2>6. /\ hc_key_map' \in [Def -> HcNum \cup {Absent}]
        /\ \A e \in Def : e # d => hc_key_map'[e] = hc_key_map[e]
        /\ hc_key_map'[d] = IF ok THEN IF act = "ADD" THEN num ELSE Absent ELSE hc_key_map[d]
    BY <2>1, <2>2 DEF KeyInv
  <2> QED BY <2>1, <2>3, <2>4, <2>5, <2>6 DEF d
<1> QED BY <1>1, <1>2, OutcomesBoolean DEF updateHcKeyMap

(* A key that gets a number keeps it whether the kernel call works or not; the
   kernel then has that number, or none, or one that a failed delete left.     *)
LEMMA AddKeyStep ==
  ASSUME KeyInv, NEW k \in HcKey, addHcKeyTables(k)
  PROVE  KeyInv' /\ \A map : map # "hc_key_map" => SameFailures(map)
<1> DEFINE n == Head(hcKeyNums_)
<1> DEFINE d == HcKeyDef[k]
<1>1. HcNumberConservation' /\ n \in HcNum /\ LiveKeys' = LiveKeys \cup {k}
  BY TakeNumber DEF addHcKeyTables, KeyInv
<1>2. /\ hckeys_'[k] = n
      /\ \A l \in HcKey : l # k => hckeys_'[l] = hckeys_[l]
  BY DEF addHcKeyTables, KeyInv, HcNumberConservation
<1>3. /\ updateHcKeyMap(k, "ADD", n) /\ k \notin LiveKeys /\ LiveKeys \subseteq HcKey
      /\ aliased' = aliased \cup {HcKeyDef[j] : j \in {l \in LiveKeys : HcKeyDef[l] = HcKeyDef[k]}}
  BY DEF addHcKeyTables, LiveKeys
<1> HIDE DEF n
<1>4. /\ hc_key_map' \in [Def -> HcNum \cup {Absent}]
      /\ \A e \in Def : e # d =>
           /\ hc_key_map'[e] = hc_key_map[e]
           /\ \A a : <<"hc_key_map", e, a>> \in failed' <=> <<"hc_key_map", e, a>> \in failed
      /\ \/ d \notin Def
         \/ d \in Def /\ hc_key_map'[d] = n
         \/ /\ d \in Def /\ hc_key_map'[d] = hc_key_map[d]
            /\ <<"hc_key_map", d, "ADD">> \in failed' /\ failed \subseteq failed'
      /\ \A map : map # "hc_key_map" => SameFailures(map)
  BY <1>1, <1>3, UpdateHcKeyMap
<1>5. aliased \subseteq aliased' /\ \A l \in LiveKeys : HcKeyDef[l] = d => d \in aliased'
  BY <1>3
<1>6. OneSpelling'
  BY <1>1, <1>5 DEF KeyInv, OneSpelling
<1>7. ASSUME NEW e \in Def \ aliased'
      PROVE  LET live == {hckeys_[l] : l \in {j \in LiveKeys : HcKeyDef[j] = e}} IN
             \/ hc_key_map'[e] = Absent /\ live' = {}
             \/ hc_key_map'[e] \in live'
             \/ hc_key_map'[e] = Absent /\ <<"hc_key_map", e, "ADD">> \in failed'
             \/ <<"hc_key_map", e, "DEL">> \in failed'
  <2> DEFINE live == {hckeys_[l] : l \in {j \in LiveKeys : HcKeyDef[j] = e}}
  <2>1. \/ hc_key_map[e] = Absent /\ live = {}
        \/ hc_key_map[e] \in live
        \/ hc_key_map[e] = Absent /\ <<"hc_key_map", e, "ADD">> \in failed
        \/ <<"hc_key_map", e, "DEL">> \in failed
    BY <1>5 DEF KeyInv, HcKeyMapAgrees
  <2>2. CASE e # d
    <3>1. live' = live
      BY <1>1, <1>2, <1>3, <2>2
    <3> HIDE DEF live, d
    <3> QED BY <1>4, <2>1, <2>2, <3>1 DEF live
  <2>3. CASE e = d
    <3>1. live = {} /\ n \in live'
      BY <1>1, <1>2, <1>5, <2>3
    <3> QED BY <1>4, <2>1, <2>3, <3>1
  <2> QED BY <2>2, <2>3
<1>8. HcKeyMapAgrees'
  BY <1>7 DEF HcKeyMapAgrees, Def
<1> QED BY <1>1, <1>4, <1>6, <1>8 DEF KeyInv, HcNum, Def

LEMMA DelKeyStep ==
  ASSUME KeyInv, NEW k \in HcKey, delHcKeyTables(k), UNCHANGED aliased
  PROVE  KeyInv' /\ \A map : map # "hc_key_map" => SameFailures(map)
<1> DEFINE d == HcKeyDef[k]
<1>1. HcNumberConservation' /\ LiveKeys' = LiveKeys \ {k}
  BY ReturnNumber DEF delHcKeyTables, KeyInv
<1>2. \A l \in HcKey : l # k => hckeys_'[l] = hckeys_[l]
  BY DEF delHcKeyTables, KeyInv, HcNumberConservation
<1>3. updateHcKeyMap(k, "DEL", 0) /\ k \in LiveKeys /\ LiveKeys \subseteq HcKey
  BY DEF delHcKeyTables, LiveKeys
<1>4. /\ hc_key_map' \in [Def -> HcNum \cup {Absent}]
      /\ \A e \in Def : e # d =>
           /\ hc_key_map'[e] = hc_key_map[e]
           /\ \A a : <<"hc_key_map", e, a>> \in failed' <=> <<"hc_key_map", e, a>> \in failed
      /\ d \in Def => hc_key_map'[d] = Absent \/ <<"hc_key_map", d, "DEL">> \in failed'
      /\ \A map : map # "hc_key_map" => SameFailures(map)
  BY <1>3, UpdateHcKeyMap
<1>5. OneSpelling'
  BY <1>1 DEF KeyInv, OneSpelling
<1>6. ASSUME NEW e \in Def \ aliased
      PROVE  LET live == {hckeys_[l] : l \in {j \in LiveKeys : HcKeyDef[j] = e}} IN
             \/ hc_key_map'[e] = Absent /\ live' = {}
             \/ hc_key_map'[e] \in live'
             \/ hc_key_map'[e] = Absent /\ <<"hc_key_map", e, "ADD">> \in failed'
             \/ <<"hc_key_map", e, "DEL">> \in failed'
  <2> DEFINE live == {hckeys_[l] : l \in {j \in LiveKeys : HcKeyDef[j] = e}}
  <2>1. \/ hc_key_map[e] = Absent /\ live = {}
        \/ hc_key_map[e] \in live
        \/ hc_key_map[e] = Absent /\ <<"hc_key_map", e, "ADD">> \in failed
        \/ <<"hc_key_map", e, "DEL">> \in failed
    BY DEF KeyInv, HcKeyMapAgrees
  <2>2. CASE e # d
    <3>1. live' = live
      BY <1>1, <1>2, <1>3, <2>2
    <3> HIDE DEF live, d
    <3> QED BY <1>4, <2>1, <2>2, <3>1 DEF live
  <2>3. CASE e = d
    <3>1. live' = {}
      BY <1>1, <1>3, <2>3 DEF KeyInv, OneSpelling
    <3> QED BY <1>4, <2>3, <3>1
  <2> QED BY <2>2, <2>3
<1>7. HcKeyMapAgrees'
  BY <1>6 DEF HcKeyMapAgrees, Def
<1> QED BY <1>1, <1>4, <1>5, <1>7 DEF KeyInv, HcNum, Def
-----------------------------------------------------------------------------
(* Decapsulation destinations *)
LEMMA DecapStep ==
  ASSUME DecapAgrees, NEW d \in Dst, NEW act \in {"ADD", "DEL"}, modifyDecapDst(d, act),
         decapDsts_' = IF act = "ADD" THEN decapDsts_ \cup {d} ELSE decapDsts_ \ {d}
  PROVE  DecapAgrees' /\ \A map : map # "decap_dst" => SameFailures(map)
<1>1. PICK ok \in BOOLEAN :
        /\ decap_dst' = IF ~ok THEN decap_dst
                        ELSE IF act = "ADD" THEN decap_dst \cup {d} ELSE decap_dst \ {d}
        /\ note("decap_dst", d, act, ok)
  BY OutcomesBoolean DEF modifyDecapDst
<1>2. ASSUME NEW e \in Dst, (e \in decap_dst') # (e \in decapDsts_')
      PROVE  failed' \cap FailuresOf("decap_dst", e) # {}
  <2>1. CASE e = d
    <3>1. ~ok
      BY <1>1, <1>2, <2>1
    <3> QED BY <1>1, <2>1, <3>1, NoteFailure DEF FailuresOf
  <2>2. CASE e # d
    <3>1. failed \cap FailuresOf("decap_dst", e) # {}
      BY <1>1, <1>2, <2>2 DEF DecapAgrees
    <3>2. PICK a \in {"ADD", "DEL"} : <<"decap_dst", e, a>> \in failed
      BY <3>1 DEF FailuresOf
    <3>3. <<"decap_dst", e, a>> \in failed'
      BY <1>1, <2>2, <3>2, NoteElsewhere
    <3> QED BY <3>3 DEF FailuresOf
  <2> QED BY <2>1, <2>2
<1>3. \A map : map # "decap_dst" => SameFailures(map)
  BY <1>1, NoteOtherMap
<1> QED BY <1>2, <1>3 DEF DecapAgrees
-----------------------------------------------------------------------------
(* Each call, whole *)

\* The groups but the one that a call is of
LEMMA KeyCall ==
  ASSUME IndInv, UNCHANGED features_, NEW k \in HcKey, addHcKey(k) \/ delHcKey(k)
  PROVE  IndInv'
<1>1. /\ KeyInv' /\ \A map : map # "hc_key_map" => SameFailures(map)
      /\ call = Idle /\ UNCHANGED <<dstVars, decapVars, macVars, srcVars, call>>
  BY AddKeyStep, DelKeyStep
     DEF IndInv, addHcKey, delHcKey, addHcKeyTables, delHcKeyTables
<1>2. DecapAgrees' /\ DstInv' /\ HeaderInv'
  BY <1>1, DecapFrame, DstFrame, HeaderFrame DEF IndInv, Idle
<1> QED BY <1>1, <1>2 DEF IndInv, CallType, Idle

LEMMA DecapCall ==
  ASSUME IndInv, UNCHANGED features_, NEW d \in Dst,
         addInlineDecapDst(d) \/ delInlineDecapDst(d)
  PROVE  IndInv'
<1>1. /\ DecapAgrees' /\ \A map : map # "decap_dst" => SameFailures(map)
      /\ call = Idle /\ UNCHANGED <<keyVars, dstVars, macVars, srcVars, call>>
  BY DecapStep DEF IndInv, addInlineDecapDst, delInlineDecapDst
<1>2. KeyInv' /\ DstInv' /\ HeaderInv'
  BY <1>1, KeyFrame, DstFrame, HeaderFrame DEF IndInv, Idle
<1> QED BY <1>1, <1>2 DEF IndInv, CallType, Idle

(* Healthcheck destinations: the first step of a call and the last *)
LEMMA DstCall ==
  ASSUME IndInv, UNCHANGED features_,
         \/ \E m \in Somark, a \in Dst : addHealthcheckerDst(m, a)
         \/ \E m \in Somark : delHealthcheckerDst(m)
         \/ addHealthcheckerDstDone
         \/ delHealthcheckerDstDone
  PROVE  IndInv'
<1> USE TablesAssumption DEF IndInv
<1>1. /\ UNCHANGED <<keyVars, decapVars, macVars, srcVars, failed>>
      /\ call.op \in {"idle", "addHealthcheckerDst", "delHealthcheckerDst"}
      /\ call'.op \in {"idle", "addHealthcheckerDst", "delHealthcheckerDst"}
  <2>1. ASSUME NEW m \in Somark, NEW a \in Dst, addHealthcheckerDst(m, a)
        PROVE  /\ UNCHANGED <<keyVars, decapVars, macVars, srcVars, failed>>
               /\ call.op = "idle" /\ call'.op \in {"idle", "addHealthcheckerDst"}
    BY <2>1 DEF addHealthcheckerDst, Idle
  <2>2. ASSUME NEW m \in Somark, delHealthcheckerDst(m)
        PROVE  /\ UNCHANGED <<keyVars, decapVars, macVars, srcVars, failed>>
               /\ call.op = "idle" /\ call'.op \in {"idle", "delHealthcheckerDst"}
    BY <2>2 DEF delHealthcheckerDst, Idle
  <2>3. CASE addHealthcheckerDstDone
    BY <2>3 DEF addHealthcheckerDstDone, Idle
  <2>4. CASE delHealthcheckerDstDone
    BY <2>4 DEF delHealthcheckerDstDone, Idle
  <2> QED BY <2>1, <2>2, <2>3, <2>4
<1>2. KeyInv' /\ DecapAgrees' /\ HeaderInv'
  BY <1>1, KeyFrame, DecapFrame, HeaderFrame, NoNote
<1>3. ASSUME NEW m \in Somark, NEW a \in Dst, addHealthcheckerDst(m, a)
      PROVE  call' \in CallType /\ DstInv'
  <2>1. call' \in CallType
    BY <1>3 DEF addHealthcheckerDst, CallType
  <2>2. DstInv'
    BY <1>3 DEF addHealthcheckerDst, DstInv, Entry, parseAddr, Idle
  <2> QED BY <2>1, <2>2
<1>4. ASSUME NEW m \in Somark, delHealthcheckerDst(m)
      PROVE  call' \in CallType /\ DstInv'
  <2>1. call' \in CallType
    BY <1>4 DEF delHealthcheckerDst, CallType
  <2>2. DstInv'
    BY <1>4 DEF delHealthcheckerDst, DstInv, Entry, parseAddr, Idle
  <2> QED BY <2>1, <2>2
<1>5. CASE addHealthcheckerDstDone
  <2>1. call.somark \in Somark /\ call.dst \in Dst
    BY <1>5 DEF addHealthcheckerDstDone, CallType, Idle
  <2>2. DstInv'
    BY <1>5, <2>1 DEF addHealthcheckerDstDone, DstInv, Entry, parseAddr, Idle
  <2> QED BY <1>2, <1>5, <2>2 DEF addHealthcheckerDstDone, CallType
<1>6. CASE delHealthcheckerDstDone
  <2>1. call.somark \in Somark
    BY <1>6 DEF delHealthcheckerDstDone, CallType, Idle
  <2>2. DstInv'
    BY <1>6, <2>1 DEF delHealthcheckerDstDone, DstInv, Entry, parseAddr, Idle
  <2> QED BY <1>2, <1>6, <2>2 DEF delHealthcheckerDstDone, CallType
<1> QED BY <1>2, <1>3, <1>4, <1>5, <1>6

(* changeMac and its second write: the first has put the new address into the
   cached value and, if it worked, into ctl_array.                            *)
LEMMA MacCall ==
  ASSUME IndInv, UNCHANGED features_, (\E m \in Mac : changeMac(m)) \/ changeMacHc
  PROVE  IndInv'
<1> USE DEF IndInv
<1>1. ASSUME NEW m \in Mac, changeMac(m)
      PROVE  IndInv'
  <2>1. PICK ok \in BOOLEAN :
          /\ ctl_mac' = IF ok THEN m ELSE ctl_mac
          /\ call' = IF ok /\ features_.directHealthchecking THEN [op |-> "changeMac"] ELSE Idle
          /\ note("ctl_array", "mac", "ADD", ok)
    BY <1>1 DEF changeMac, Outcomes
  <2>2. \A map : map # "ctl_array" => SameFailures(map)
    BY <2>1, NoteOtherMap
  <2>3. /\ call = Idle /\ mac' = m
        /\ UNCHANGED <<keyVars, dstVars, decapVars, hc_pckt_macs, srcVars>>
    BY <1>1 DEF changeMac
  <2>4. call' \in CallType /\ call'.op \in {"idle", "changeMac"}
    BY <2>1 DEF CallType, Idle
  <2>5. KeyInv' /\ DecapAgrees' /\ DstInv'
    BY <2>2, <2>3, <2>4, KeyFrame, DecapFrame, DstFrame DEF Idle
  <2>6. ok \/ <<"ctl_array", "mac", "ADD">> \in failed'
    BY <2>1, NoteFailure
  <2>7. \A f : <<"hc_pckt_macs", f, "ADD">> \in failed' <=> <<"hc_pckt_macs", f, "ADD">> \in failed
    BY <2>2 DEF SameFailures
  <2>8. \A f : <<"pckt_srcs", f, "ADD">> \in failed' <=> <<"pckt_srcs", f, "ADD">> \in failed
    BY <2>2 DEF SameFailures
  <2>9. HeaderInv'
    BY <2>1, <2>3, <2>4, <2>6, <2>7, <2>8 DEF HeaderInv, Idle, srcVars, FamilyOf
  <2> QED BY <2>4, <2>5, <2>9
<1>2. CASE changeMacHc
  <2>1. PICK ok \in BOOLEAN :
          /\ hc_pckt_macs' = IF ok THEN mac ELSE hc_pckt_macs
          /\ note("hc_pckt_macs", "mac", "ADD", ok)
    BY <1>2 DEF changeMacHc, Outcomes
  <2>2. \A map : map # "hc_pckt_macs" => SameFailures(map)
    BY <2>1, NoteOtherMap
  <2>3. /\ call.op = "changeMac" /\ call' = Idle
        /\ UNCHANGED <<keyVars, dstVars, decapVars, mac, ctl_mac, srcVars>>
    BY <1>2 DEF changeMacHc
  <2>4. KeyInv' /\ DecapAgrees' /\ DstInv'
    BY <2>2, <2>3, KeyFrame, DecapFrame, DstFrame DEF Idle
  <2>5. ok \/ <<"hc_pckt_macs", "mac", "ADD">> \in failed'
    BY <2>1, NoteFailure
  <2>6. /\ \A f : <<"ctl_array", f, "ADD">> \in failed' <=> <<"ctl_array", f, "ADD">> \in failed
        /\ \A f : <<"pckt_srcs", f, "ADD">> \in failed' <=> <<"pckt_srcs", f, "ADD">> \in failed
    BY <2>2 DEF SameFailures
  <2>7. HeaderInv'
    BY <2>1, <2>3, <2>5, <2>6 DEF HeaderInv, Idle, srcVars, FamilyOf
  <2> QED BY <2>3, <2>4, <2>7 DEF CallType
<1> QED BY <1>1, <1>2

LEMMA FamilyType == ASSUME NEW a PROVE FamilyOf(a) \in Family
BY DEF FamilyOf, Family

(* Source addresses: both writes of addSrcIpForPcktEncap, and those of a reload,
   which sets only the second map.                                            *)
LEMMA SrcCall ==
  ASSUME IndInv, UNCHANGED features_,
         \/ \E a \in Dst : addSrcIpForPcktEncap(a)
         \/ addSrcIpForPcktEncapGue
         \/ reloadBalancerProg
         \/ \E f \in Family : setupGueEnvironment(f)
  PROVE  IndInv'
<1> USE DEF IndInv
<1>1. ASSUME NEW a \in Dst, addSrcIpForPcktEncap(a)
      PROVE  IndInv'
  <2> DEFINE f == FamilyOf(a)
  <2>1. PICK ok \in BOOLEAN :
          /\ hc_pckt_srcs_map' =
               IF ok THEN [hc_pckt_srcs_map EXCEPT ![f] = a] ELSE hc_pckt_srcs_map
          /\ call' = IF ok THEN [op |-> "addSrcIpForPcktEncap", src |-> a] ELSE Idle
          /\ note("hc_pckt_srcs_map", f, "ADD", ok)
    BY <1>1 DEF addSrcIpForPcktEncap, Outcomes
  <2>2. \A map : map # "hc_pckt_srcs_map" => SameFailures(map)
    BY <2>1, NoteOtherMap
  <2>3. /\ call = Idle
        /\ UNCHANGED <<keyVars, dstVars, decapVars, macVars, pckt_srcs, reloaded>>
    BY <1>1 DEF addSrcIpForPcktEncap
  <2>4. call' \in CallType /\ call'.op \in {"idle", "addSrcIpForPcktEncap"}
    BY <2>1 DEF CallType, Idle
  <2>5. KeyInv' /\ DecapAgrees' /\ DstInv'
    BY <2>2, <2>3, <2>4, KeyFrame, DecapFrame, DstFrame DEF Idle
  <2>6. \A map \in {"ctl_array", "hc_pckt_macs", "pckt_srcs"} : \A key, act :
          <<map, key, act>> \in failed' <=> <<map, key, act>> \in failed
    BY <2>2 DEF SameFailures
  <2>7. f \in Family /\ FamilyOf(a)' = f /\ (ok => FamilyOf(call'.src) = f)
    BY <2>1, FamilyType DEF FamilyOf
  <2> HIDE DEF f
  <2>8. HeaderInv'
    BY <2>1, <2>3, <2>4, <2>6, <2>7 DEF HeaderInv, Idle, macVars
  <2> QED BY <2>4, <2>5, <2>8
<1>2. CASE addSrcIpForPcktEncapGue
  <2> DEFINE f == FamilyOf(call.src)
  <2>1. PICK ok \in BOOLEAN :
          /\ pckt_srcs' = IF ok THEN [pckt_srcs EXCEPT ![f] = call.src] ELSE pckt_srcs
          /\ reloaded' = IF ok THEN reloaded \ {f} ELSE reloaded
          /\ note("pckt_srcs", f, "ADD", ok)
    BY <1>2 DEF addSrcIpForPcktEncapGue, Outcomes
  <2>2. \A map : map # "pckt_srcs" => SameFailures(map)
    BY <2>1, NoteOtherMap
  <2>3. /\ call.op = "addSrcIpForPcktEncap" /\ call' = Idle
        /\ UNCHANGED <<keyVars, dstVars, decapVars, macVars, hc_pckt_srcs_map>>
    BY <1>2 DEF addSrcIpForPcktEncapGue
  <2>4. KeyInv' /\ DecapAgrees' /\ DstInv'
    BY <2>2, <2>3, KeyFrame, DecapFrame, DstFrame DEF Idle
  <2>5. \A map \in {"ctl_array", "hc_pckt_macs"} : \A key, act :
          <<map, key, act>> \in failed' <=> <<map, key, act>> \in failed
    BY <2>2 DEF SameFailures
  <2>6. /\ ok \/ <<"pckt_srcs", f, "ADD">> \in failed'
        /\ \A g : g # f =>
             (<<"pckt_srcs", g, "ADD">> \in failed' <=> <<"pckt_srcs", g, "ADD">> \in failed)
    <3>1. ok \/ <<"pckt_srcs", f, "ADD">> \in failed'
      BY <2>1, NoteFailure
    <3> QED BY <2>1, <3>1, NoteElsewhere
  <2>7. f \in Family /\ hc_pckt_srcs_map[f] = call.src
    BY <2>3, FamilyType DEF HeaderInv
  <2> HIDE DEF f
  <2>8. \A g \in Family : g # f => hc_pckt_srcs_map[g] = pckt_srcs[g] \/ g \in reloaded
            \/ <<"pckt_srcs", g, "ADD">> \in failed
            \/ ~(features_.directHealthchecking /\ features_.gueEncap)
    BY <2>3 DEF HeaderInv, f
  <2>9. HeaderInv'
    BY <2>1, <2>3, <2>5, <2>6, <2>7, <2>8 DEF HeaderInv, Idle, macVars
  <2> QED BY <2>3, <2>4, <2>9 DEF CallType
<1>3. CASE reloadBalancerProg
  <2>1. /\ call = Idle /\ call' = [op |-> "setupGueEnvironment", left |-> Family]
        /\ UNCHANGED <<keyVars, dstVars, decapVars, macVars, srcVars, failed>>
    BY <1>3 DEF reloadBalancerProg
  <2>2. KeyInv' /\ DecapAgrees' /\ DstInv' /\ HeaderInv'
    BY <2>1, NoNote, KeyFrame, DecapFrame, DstFrame, HeaderFrame DEF Idle
  <2> QED BY <2>1, <2>2 DEF CallType
<1>4. ASSUME NEW f \in Family, setupGueEnvironment(f)
      PROVE  IndInv'
  <2>1. PICK ok \in BOOLEAN :
          /\ pckt_srcs' = IF ok THEN [pckt_srcs EXCEPT ![f] = ConfigSrc[f]] ELSE pckt_srcs
          /\ reloaded' = IF ok THEN reloaded \cup {f} ELSE reloaded
          /\ note("pckt_srcs", f, "ADD", ok)
          /\ call' = IF ok /\ call.left # {f} THEN [call EXCEPT !.left = @ \ {f}] ELSE Idle
    BY <1>4 DEF setupGueEnvironment, Outcomes
  <2>2. \A map : map # "pckt_srcs" => SameFailures(map)
    BY <2>1, NoteOtherMap
  <2>3. /\ call.op = "setupGueEnvironment"
        /\ UNCHANGED <<keyVars, dstVars, decapVars, macVars, hc_pckt_srcs_map>>
    BY <1>4 DEF setupGueEnvironment
  <2>4. call' \in CallType /\ call'.op \in {"idle", "setupGueEnvironment"}
    BY <2>1, <2>3 DEF CallType, Idle
  <2>5. KeyInv' /\ DecapAgrees' /\ DstInv'
    BY <2>2, <2>3, <2>4, KeyFrame, DecapFrame, DstFrame
  <2>6. \A map \in {"ctl_array", "hc_pckt_macs"} : \A key, act :
          <<map, key, act>> \in failed' <=> <<map, key, act>> \in failed
    BY <2>2 DEF SameFailures
  <2>7. /\ ok \/ <<"pckt_srcs", f, "ADD">> \in failed'
        /\ \A g : g # f =>
             (<<"pckt_srcs", g, "ADD">> \in failed' <=> <<"pckt_srcs", g, "ADD">> \in failed)
    <3>1. ok \/ <<"pckt_srcs", f, "ADD">> \in failed'
      BY <2>1, NoteFailure
    <3> QED BY <2>1, <3>1, NoteElsewhere
  <2>8. HeaderInv'
    BY <2>1, <2>3, <2>4, <2>6, <2>7 DEF HeaderInv, macVars
  <2> QED BY <2>4, <2>5, <2>8
<1> QED BY <1>1, <1>2, <1>3, <1>4
-----------------------------------------------------------------------------
LEMMA InitKeys == Init => KeyInv
<1> SUFFICES ASSUME Init PROVE KeyInv
  OBVIOUS
<1> DEFINE N == IF EnableHc THEN MaxVips ELSE 0
<1>1. N \in Nat /\ HcNum = 0 .. N - 1 /\ Absent \notin HcNum
  BY TablesAssumption DEF HcNum
<1>2. Cardinality(HcNum) = N
  BY <1>1, FS_Interval
<1>3. /\ hcKeyNums_ = [i \in 1 .. N |-> i - 1] /\ hckeys_ = [k \in HcKey |-> Absent]
      /\ hc_key_map = [d \in Def |-> Absent]
  BY <1>2 DEF Init
<1> HIDE DEF N
<1>4. hcKeyNums_ \in Seq(HcNum) /\ Len(hcKeyNums_) = N
  BY <1>1, <1>3
<1>5. LiveKeys = {}
  BY <1>3 DEF LiveKeys
<1>6. HcNumberConservation
  <2>1. \A n \in HcNum : n + 1 \in 1 .. N /\ hcKeyNums_[n + 1] = n
    BY <1>1, <1>3
  <2>2. \A i, j \in 1 .. N : hcKeyNums_[i] = hcKeyNums_[j] => i = j
    BY <1>1, <1>3
  <2>3. \A n \in HcNum : \A k \in HcKey : hckeys_[k] # n
    BY <1>1, <1>3
  <2>4. hckeys_ \in [HcKey -> HcNum \cup {Absent}]
    BY <1>3
  <2> QED BY <1>4, <1>5, <2>1, <2>2, <2>3, <2>4 DEF HcNumberConservation
<1>7. OneSpelling
  BY <1>5 DEF OneSpelling
<1>8. HcKeyMapAgrees
  BY <1>3, <1>5 DEF HcKeyMapAgrees
<1> QED BY <1>3, <1>6, <1>7, <1>8 DEF KeyInv

LEMMA InitOthers == Init => call \in CallType /\ DecapAgrees /\ DstInv /\ HeaderInv
<1> SUFFICES ASSUME Init PROVE call \in CallType /\ DecapAgrees /\ DstInv /\ HeaderInv
  OBVIOUS
<1>1. call \in CallType /\ DecapAgrees
  BY DEF Init, CallType, DecapAgrees
<1>2. DstInv
  BY DEF Init, DstInv, Entry, Idle
<1>3. HeaderInv
  BY TablesAssumption DEF Init, HeaderInv, Idle
<1> QED BY <1>1, <1>2, <1>3

(* IndInv holds in every state of every behaviour. *)
THEOREM Inductive == Spec => []IndInv
<1>1. Init => IndInv
  BY InitKeys, InitOthers DEF IndInv
<1>2. IndInv /\ [Next]_vars => IndInv'
  <2> SUFFICES ASSUME IndInv, [Next]_vars PROVE IndInv'
    OBVIOUS
  <2>1. CASE UNCHANGED vars
    <3>1. KeyInv' /\ DecapAgrees'
      BY <2>1, KeyFrame, DecapFrame, NoNote DEF IndInv, vars
    <3>2. DstInv' /\ HeaderInv'
      BY <2>1 DEF IndInv, vars, dstVars, macVars, srcVars, DstInv, HeaderInv, Entry,
                  parseAddr, FamilyOf
    <3> QED BY <2>1, <3>1, <3>2 DEF IndInv, vars
  <2>2. CASE Next
    BY <2>2, KeyCall, DstCall, DecapCall, MacCall, SrcCall DEF Next
  <2> QED BY <2>1, <2>2
<1> QED BY <1>1, <1>2, PTL DEF Spec
-----------------------------------------------------------------------------
(* No healthcheck number is lost or given out twice by addHcKey and delHcKey,
   for any number of keys, however their kernel calls end.                    *)
THEOREM HcNumbersConserved == Spec => []HcNumberConservation
<1>1. IndInv => HcNumberConservation
  BY DEF IndInv, KeyInv
<1> QED BY <1>1, Inductive, PTL

(* hc_key_map and decap_dst mirror hckeys_ and decapDsts_ but for the entries
   whose last kernel call failed, and for two spellings of one address.        *)
THEOREM KernelMirrorsAgree == Spec => []MirrorsAgree
<1>1. IndInv => MirrorsAgree
  BY DEF IndInv, KeyInv, MirrorsAgree
<1> QED BY <1>1, Inductive, PTL

(* What the healthchecking program does with a packet follows hcReals_: the
   address written by addHealthcheckerDst is read back in the byte order it was
   written in, whichever of the two programs is loaded.                         *)
THEOREM ProbesFollowTable == Spec => []ProbeFollowsTable
<1>1. IndInv => ProbeFollowsTable
  <2> SUFFICES ASSUME IndInv, NEW m \in Somark,
                      call.op \in {"addHealthcheckerDst", "delHealthcheckerDst"}
                        => call.somark # m,
                      NEW verdict \in healthcheck_encap(m)
               PROVE  IF hcReals_[m] = Absent THEN verdict = Skip
                      ELSE \/ verdict = Drop
                           \/ verdict.act = "redirect" /\ verdict.dst = hcReals_[m]
    BY DEF ProbeFollowsTable
  <2> DEFINE a == hcReals_[m]
  <2>1. hc_reals_map[m] = Entry(a) /\ a \in Dst \cup {Absent}
    BY DEF IndInv, DstInv
  <2>2. CASE a = Absent
    BY <2>1, <2>2 DEF Entry, healthcheck_encap
  <2>3. CASE a \in Dst
    <3>1. a # Absent /\ hc_reals_map[m] = parseAddr(a) /\ parseAddr(a) # Absent
      BY <2>1, <2>3, TablesAssumption DEF Entry, parseAddr
    <3>2. /\ features_.directHealthchecking => ReadAs(parseAddr(a), "be") = a
          /\ ~features_.directHealthchecking => ReadAs(parseAddr(a), "host") = a
      BY DEF ReadAs, parseAddr
    <3>3. verdict = Drop \/ (verdict.act = "redirect" /\ verdict.dst = a)
      <4>1. DirectEncap(parseAddr(a)).act = "redirect"
              /\ DirectEncap(parseAddr(a)).dst = ReadAs(parseAddr(a), "be")
        BY DEF DirectEncap
      <4>2. TunnelEncap(parseAddr(a)).act = "redirect"
              /\ TunnelEncap(parseAddr(a)).dst = ReadAs(parseAddr(a), "host")
        BY DEF TunnelEncap
      <4>3. \/ verdict = Drop
            \/ features_.directHealthchecking /\ verdict = DirectEncap(parseAddr(a))
            \/ ~features_.directHealthchecking /\ verdict = TunnelEncap(parseAddr(a))
        BY <3>1 DEF healthcheck_encap
      <4> HIDE DEF a
      <4>4. CASE features_.directHealthchecking /\ verdict = DirectEncap(parseAddr(a))
        BY <3>2, <4>1, <4>4
      <4>5. CASE ~features_.directHealthchecking /\ verdict = TunnelEncap(parseAddr(a))
        BY <3>2, <4>2, <4>5
      <4> QED BY <4>3, <4>4, <4>5
    <3> QED BY <3>1, <3>3
  <2> QED BY <2>1, <2>2, <2>3
<1> QED BY <1>1, Inductive, PTL

(* Between calls a direct healthcheck leaves with the MAC and the source address
   that balanced packets have, unless a write failed or a reload intervened.    *)
THEOREM HealthcheckHeadersAgree == Spec => []HeadersAgree
<1>1. IndInv => HeadersAgree
  BY DEF IndInv, HeaderInv, HeadersAgree, Idle
<1> QED BY <1>1, Inductive, PTL
=============================================================================
