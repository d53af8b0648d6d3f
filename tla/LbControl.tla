------------------------------ MODULE LbControl ------------------------------
(***************************************************************************)
(* The forwarding tables of the control plane: class VsoshlbLb            *)
(* (src/vsoshlb/lib/VsoshlbLb.cpp) and the Vip objects it owns            *)
(* (src/vsoshlb/lib/Vip.cpp).                                             *)
(*                                                                         *)
(* A real server gets a small number from the free list realNums_ when    *)
(* its first user appears and gives it back when the last one goes.  The  *)
(* users are VIPs, QUIC server ids and source-routing rules; reals_ holds *)
(* the number and the count of users.  Everything is mirrored into kernel *)
(* maps by calls that may fail.                                            *)
(*                                                                         *)
(* The class is not thread safe: one caller at a time.  A function that   *)
(* loops over a batch is a sequence of steps, one per iteration, because  *)
(* each iteration may run the user's realsIdCallback_, which sees the      *)
(* tables as they are then; no other call starts before the last step.    *)
(* A call that returns early without changing anything is a stuttering    *)
(* step; a batch element that is skipped only because its address does    *)
(* not parse is the batch without that element.                           *)
(***************************************************************************)
EXTENDS Integers, Sequences, FiniteSets, HashRing

CONSTANTS
  Addr,           \* the addresses reals may have
  EmptyAddr,      \* folly::IPAddress(), what numToReals_[n] inserts for a missing n
  Absent,         \* "no entry under this key"
  VipKey,         \* address as it is spelled, port and protocol of a VIP
  VipDef,         \* vipKeyToVipDefinition: the key of vip_map, address parsed
  QuicId,         \* QUIC server ids that pass the kMaxQuicIdV2 test
  Src,            \* source networks of source-routing rules
  Weight,         \* weights a caller may give a real
  RealFlag,       \* flag bits of a real other than V6DADDR
  VipFlag,        \* flag bits of a VIP
  MaxReals,       \* config_.maxReals
  MaxVips,        \* config_.maxVips
  MaxLpmSrcSize,  \* config_.maxLpmSrcSize
  ChRingSize,     \* config_.chRingSize
  EnableCidV3,    \* config_.enableCidV3
  Testing,        \* config_.testing: no kernel map is touched
  SrcRouting,     \* features_.srcRouting of the loaded program
  BpfMayFail,     \* whether bpf() calls with good arguments may fail
  Liberties,      \* what this caller does that a careful one does not
  MaxBatch,       \* bound: longest batch passed by the caller
  MaxRefCount     \* bound: the caller adds no user beyond this count

Liberty == {"dupAdd", "dupDel", "remapQuic", "readdSrc", "aliasVip",
            "rehashDrained", "revalidateAny"}

ASSUME ConfigAssumption ==
  /\ MaxReals \in Nat \ {0}
  /\ MaxVips \in Nat
  /\ MaxLpmSrcSize \in Nat
  /\ ChRingSize \in Nat \ {0}
  /\ {EnableCidV3, Testing, SrcRouting, BpfMayFail} \subseteq BOOLEAN

ASSUME DataAssumption ==
  /\ EmptyAddr \notin Addr
  /\ Absent \notin Addr
  /\ Absent # EmptyAddr
  /\ Weight \subseteq Nat /\ Weight # {}

\* "no entry" is not an entry of the kernel map reals
ASSUME EntryAssumption == Absent \notin [address : Addr, flags : SUBSET RealFlag]

\* addresses with ports, networks and numbers of a bounded width
ASSUME FiniteAssumption ==
  IsFiniteSet(VipKey) /\ IsFiniteSet(QuicId) /\ IsFiniteSet(Src)

ASSUME CallerAssumption ==
  /\ Liberties \subseteq Liberty
  /\ MaxBatch \in Nat \ {0}
  /\ MaxRefCount \in Nat \ {0}

VARIABLES
  realNums_, reals_, numToReals_,       \* real servers
  emptyReal,                            \* reals_[folly::IPAddress()]
  vipNums_, vips_,                      \* VIPs
  quicMapping_, lpmSrcMapping_,         \* QUIC server ids, source routing
  vip_map, reals, server_id_map,        \* kernel maps
  lpm_src, ch_rings,
  bpfFailed,                            \* kernel maps with a failed call so far
  call                                  \* the call in progress

poolVars == <<realNums_, reals_, numToReals_, emptyReal>>
userVars == <<quicMapping_, lpmSrcMapping_>>
vipVars  == <<vipNums_, vips_>>
kernelVars == <<vip_map, reals, server_id_map, lpm_src, ch_rings, bpfFailed>>
vars == <<poolVars, vipVars, userVars, kernelVars, call>>
-----------------------------------------------------------------------------
(* Data *)

RealNum == 1 .. MaxReals - 1      \* 0 is reserved: an unset array element
VipNum  == 0 .. MaxVips - 1
VipDefs == {VipDef[v] : v \in VipKey}

\* reals_ holds folly::IPAddress() only if operator[] inserted it, with number
\* and count 0.  Its count is never increased; what matters of it is whether a
\* decrement, modulo 2^32, finds 1.
\* Bound: fewer than 2^32 releases go through this entry while the process
\* lives, so that "wrapped", 2^32-1 and downwards, stays above 0.
EmptyReal == {"none", "zero", "wrapped"}

\* RealMeta; number 0 stands for "not in reals_"
NoReal == [num |-> 0, refCount |-> 0, flags |-> {}]
RealMeta == [num : RealNum, refCount : Nat \ {0}, flags : SUBSET RealFlag]

\* Vip: weight[n] is reals_[n].weight, ring the set of numbers on chRing_
NoWeight == -1
NoVip == [num |-> -1, flags |-> {}, weight |-> [n \in RealNum |-> NoWeight],
          ring |-> {}]
VipObject == [num : VipNum, flags : SUBSET VipFlag,
              weight : [RealNum -> Weight \cup {NoWeight}],
              ring : SUBSET RealNum]

NewReal    == [address : Addr, weight : Weight, flags : SUBSET RealFlag]
UpdateReal == [num : RealNum, weight : Weight]
QuicReal   == [id : QuicId, address : Addr]

Idle == [op |-> "idle"]
Crashed == [op |-> "crashed"]
Action == {"ADD", "DEL"}

ModifyRealsCall ==
  [op : {"modifyReals"}, action : Action, vip : VipKey, todo : Seq(NewReal),
   cur_reals : SUBSET RealNum, ureals : Seq(UpdateReal)]
DelVipCall   == [op : {"delVip"}, vip : VipKey, left : SUBSET RealNum]
ClearSrcCall == [op : {"clearSrc"}, left : SUBSET Src]
QuicCall ==
  [op : {"quic"}, action : Action, todo : Seq(QuicReal), released : BOOLEAN,
   to_update : [QuicId -> 0 .. MaxReals - 1]]

Known(a)   == reals_[a] # NoReal
HasVip(v)  == vips_[v] # NoVip
VipReals(v) == {n \in RealNum : vips_[v].weight[n] # NoWeight}
RangeOf(s) == {s[i] : i \in 1 .. Len(s)}

Init ==
  /\ realNums_ = [i \in 1 .. MaxReals - 1 |-> i]
  /\ reals_ = [a \in Addr |-> NoReal]
  /\ numToReals_ = [n \in RealNum |-> Absent]
  /\ emptyReal = "none"
  /\ vipNums_ = [i \in 1 .. MaxVips |-> i - 1]
  /\ vips_ = [v \in VipKey |-> NoVip]
  /\ quicMapping_ = [id \in QuicId |-> Absent]
  /\ lpmSrcMapping_ = [s \in Src |-> 0]
  /\ vip_map = [d \in VipDefs |-> Absent]
  /\ reals = [n \in RealNum |-> Absent]
  /\ server_id_map = [id \in QuicId |-> 0]
  /\ lpm_src = [s \in Src |-> 0]
  /\ ch_rings = [k \in VipNum |-> {}]
  /\ bpfFailed = {}
  /\ call = Idle
-----------------------------------------------------------------------------
(* Kernel maps.  bpf() fails on a bad key, and may fail on a good one; a    *)
(* failed call leaves the map alone and is counted.                         *)

Outcomes(good) ==
  CASE Testing -> {TRUE}
    [] ~Testing /\ ~good -> {FALSE}
    [] OTHER -> IF BpfMayFail THEN BOOLEAN ELSE {TRUE}

\* lbStats_.bpfFailedCalls++, kept per map
countFailure(map, ok) ==
  bpfFailed' = IF ok THEN bpfFailed ELSE bpfFailed \cup {map}

\* updateVipMap: meta is Absent for ModifyAction::DEL, which fails when the
\* key is not there
updateVipMap(v, meta) ==
  \E ok \in Outcomes(meta = Absent => vip_map[VipDef[v]] # Absent) :
    /\ vip_map' = IF ok /\ ~Testing THEN [vip_map EXCEPT ![VipDef[v]] = meta]
                                    ELSE vip_map
    /\ countFailure("vip_map", ok)

updateRealsMap(a, n, flags, ok) ==
  reals' = IF ok /\ ~Testing
           THEN [reals EXCEPT ![n] = [address |-> a, flags |-> flags]] ELSE reals

\* modifyLpmSrcRule -> modifyLpmMap; n = 0 is ModifyAction::DEL, which fails
\* when the rule is not there
LpmOutcomes(s, n) == Outcomes(n = 0 => lpm_src[s] # 0)
modifyLpmSrcRule(s, n, ok) ==
  lpm_src' = IF ok /\ ~Testing THEN [lpm_src EXCEPT ![s] = n] ELSE lpm_src

\* programHashRing: the array of keys handed to bpfUpdateMapBatch is never
\* assigned, so the numbers of the new ring may land in the segment of any
\* VIP, overwrite what is there, or miss the map (and fail the batch).
programHashRing(ring) ==
  \/ (Testing \/ ring = {}) /\ UNCHANGED <<ch_rings, bpfFailed>>
  \/ /\ ~Testing /\ ring # {}
     /\ ch_rings' \in [VipNum -> SUBSET RealNum]
     /\ \A k \in VipNum : ch_rings'[k] \subseteq ch_rings[k] \cup ring
     /\ \E ok \in BOOLEAN : countFailure("ch_rings", ok)
-----------------------------------------------------------------------------
(* The pool of real numbers *)

\* reals_.find(a) = end()
Unlisted(a) == IF a \in Addr THEN ~Known(a) ELSE emptyReal = "none"

\* the count of the empty address wraps at its first decrement
decreaseEmpty ==
  /\ emptyReal' = "wrapped"
  /\ UNCHANGED <<realNums_, reals_, numToReals_>>

\* Mutant: a count of two is taken for the last user.
MutFreeAtOneLeft(a) ==
  \/ Unlisted(a) /\ UNCHANGED poolVars
  \/ a = EmptyAddr /\ ~Unlisted(a) /\ decreaseEmpty
  \/ /\ a \in Addr /\ Known(a) /\ reals_[a].refCount > 2
     /\ reals_' = [reals_ EXCEPT ![a].refCount = @ - 1]
     /\ UNCHANGED <<realNums_, numToReals_, emptyReal>>
  \/ /\ a \in Addr /\ Known(a) /\ reals_[a].refCount <= 2
     /\ realNums_' = Append(realNums_, reals_[a].num)
     /\ reals_' = [reals_ EXCEPT ![a] = NoReal]
     /\ numToReals_' = [numToReals_ EXCEPT ![reals_[a].num] = Absent]
     /\ UNCHANGED emptyReal

\* Mutant: the number is not pushed back, or numToReals_ is not erased.
MutDrop(a, push, erase) ==
  \/ Unlisted(a) /\ UNCHANGED poolVars
  \/ a = EmptyAddr /\ ~Unlisted(a) /\ decreaseEmpty
  \/ /\ a \in Addr /\ Known(a) /\ reals_[a].refCount > 1
     /\ reals_' = [reals_ EXCEPT ![a].refCount = @ - 1]
     /\ UNCHANGED <<realNums_, numToReals_, emptyReal>>
  \/ /\ a \in Addr /\ Known(a) /\ reals_[a].refCount = 1
     /\ UNCHANGED emptyReal
     /\ realNums_' = IF push THEN Append(realNums_, reals_[a].num) ELSE realNums_
     /\ reals_' = [reals_ EXCEPT ![a] = NoReal]
     /\ numToReals_' = IF erase THEN [numToReals_ EXCEPT ![reals_[a].num] = Absent]
                                ELSE numToReals_
MutNoPushBack(a) == MutDrop(a, FALSE, TRUE)
MutNoErase(a)    == MutDrop(a, TRUE, FALSE)

\* decreaseRefCountForReal(a); a may be EmptyAddr, see releaseNum
decreaseRefCountForReal(a) ==
  \/ /\ Unlisted(a)
     /\ UNCHANGED poolVars
  \/ /\ a = EmptyAddr /\ ~Unlisted(a)
     /\ decreaseEmpty
  \/ /\ a \in Addr /\ Known(a) /\ reals_[a].refCount > 1
     /\ reals_' = [reals_ EXCEPT ![a].refCount = @ - 1]
     /\ UNCHANGED <<realNums_, numToReals_, emptyReal>>
  \/ /\ a \in Addr /\ Known(a) /\ reals_[a].refCount = 1
     /\ realNums_' = Append(realNums_, reals_[a].num)
     /\ reals_' = [reals_ EXCEPT ![a] = NoReal]
     /\ numToReals_' = [numToReals_ EXCEPT ![reals_[a].num] = Absent]
     /\ UNCHANGED emptyReal

\* only the first use of a real writes to the kernel
Allocates(a) == ~Known(a) /\ realNums_ # <<>>
RealsOutcomes(a) == IF Allocates(a) THEN Outcomes(TRUE) ELSE {TRUE}

\* what increaseRefCountForReal(a) returns; MaxReals when the pool is empty
NumFor(a) ==
  CASE Known(a) -> reals_[a].num
    [] ~Known(a) /\ realNums_ = <<>> -> MaxReals
    [] OTHER -> Head(realNums_)

\* Mutant: the look-up in reals_ is missing, a known real gets a new number.
MutAlwaysAllocate(a, flags, ok) ==
  IF realNums_ = <<>> THEN UNCHANGED <<poolVars, reals>>
  ELSE /\ realNums_' = Tail(realNums_)
       /\ numToReals_' = [numToReals_ EXCEPT ![Head(realNums_)] = a]
       /\ reals_' = [reals_ EXCEPT ![a] =
                       [num |-> Head(realNums_), refCount |-> 1, flags |-> flags]]
       /\ updateRealsMap(a, Head(realNums_), flags, ok)
       /\ UNCHANGED emptyReal

increaseRefCountForReal(a, flags, ok) ==
  \/ /\ Known(a)
     /\ reals_' = [reals_ EXCEPT ![a].refCount = @ + 1]
     /\ UNCHANGED <<realNums_, numToReals_, emptyReal, reals>>
  \/ /\ ~Known(a) /\ realNums_ = <<>>
     /\ UNCHANGED <<poolVars, reals>>
  \/ /\ ~Known(a) /\ realNums_ # <<>>
     /\ realNums_' = Tail(realNums_)
     /\ numToReals_' = [numToReals_ EXCEPT ![Head(realNums_)] = a]
     /\ reals_' = [reals_ EXCEPT ![a] =
                     [num |-> Head(realNums_), refCount |-> 1, flags |-> flags]]
     /\ updateRealsMap(a, Head(realNums_), flags, ok)
     /\ UNCHANGED emptyReal

\* what reading numToReals_[n] for each n of nums leaves in the index
ReadThrough(nums) ==
  [n \in RealNum |-> IF n \in nums /\ numToReals_[n] = Absent
                     THEN EmptyAddr ELSE numToReals_[n]]

\* decreaseRefCountForReal(numToReals_[n]): operator[] inserts a missing n,
\* and the empty address may then be one that reals_ holds
releaseNum(n) ==
  \/ /\ numToReals_[n] = Absent
     /\ numToReals_' = ReadThrough({n})
     /\ emptyReal' = IF emptyReal = "none" THEN "none" ELSE "wrapped"
     /\ UNCHANGED <<realNums_, reals_>>
  \/ /\ numToReals_[n] # Absent
     /\ decreaseRefCountForReal(numToReals_[n])

\* modifyReal: flags are set or cleared, never counted
modifyReal(a, flags, set) ==
  /\ call = Idle
  /\ Known(a)
  /\ LET new == IF set THEN reals_[a].flags \cup flags
                       ELSE reals_[a].flags \ flags
     IN /\ reals_' = [reals_ EXCEPT ![a].flags = new]
        /\ \E ok \in Outcomes(TRUE) :
             updateRealsMap(a, reals_[a].num, new, ok) /\ countFailure("reals", ok)
  /\ UNCHANGED <<realNums_, numToReals_, emptyReal, vipVars, userVars, vip_map,
                 server_id_map, lpm_src, ch_rings, call>>
-----------------------------------------------------------------------------
(* VIPs *)

\* Mutant: pop_front is missing.
MutAddVipNoPop(v, flags) ==
  /\ call = Idle
  /\ vipNums_ # <<>>
  /\ ~HasVip(v)
  /\ vips_' = [vips_ EXCEPT ![v] =
                 [NoVip EXCEPT !.num = Head(vipNums_), !.flags = flags]]
  /\ updateVipMap(v, [num |-> Head(vipNums_), flags |-> flags])
  /\ UNCHANGED <<poolVars, vipNums_, userVars, reals, server_id_map, lpm_src,
                 ch_rings, call>>

\* addVip: the result of updateVipMap is ignored
addVip(v, flags) ==
  /\ call = Idle
  /\ vipNums_ # <<>>
  /\ ~HasVip(v)
  /\ vipNums_' = Tail(vipNums_)
  /\ vips_' = [vips_ EXCEPT ![v] =
                 [NoVip EXCEPT !.num = Head(vipNums_), !.flags = flags]]
  /\ updateVipMap(v, [num |-> Head(vipNums_), flags |-> flags])
  /\ UNCHANGED <<poolVars, userVars, reals, server_id_map, lpm_src, ch_rings,
                 call>>

\* Mutant: the flags written to the kernel are the ones before the change.
MutModifyVipOldFlags(v, flags, set) ==
  /\ call = Idle
  /\ HasVip(v)
  /\ vips_' = [vips_ EXCEPT ![v].flags = IF set THEN @ \cup flags ELSE @ \ flags]
  /\ updateVipMap(v, [num |-> vips_[v].num, flags |-> vips_[v].flags])
  /\ UNCHANGED <<poolVars, vipNums_, userVars, reals, server_id_map, lpm_src,
                 ch_rings, call>>

\* modifyVip
modifyVip(v, flags, set) ==
  /\ call = Idle
  /\ HasVip(v)
  /\ LET new == IF set THEN vips_[v].flags \cup flags ELSE vips_[v].flags \ flags
     IN /\ vips_' = [vips_ EXCEPT ![v].flags = new]
        /\ updateVipMap(v, [num |-> vips_[v].num, flags |-> new])
  /\ UNCHANGED <<poolVars, vipNums_, userVars, reals, server_id_map, lpm_src,
                 ch_rings, call>>

Endpoints(weight, S) == [n \in S |-> weight[n]]

Serving(v)  == {n \in RealNum : vips_[v].weight[n] > 0}

\* recalculateHashRing takes every real, drained ones too
recalculateHashRing(v, func) ==
  Rings(func, Endpoints(vips_[v].weight, VipReals(v)), ChRingSize)

changeHashFunctionForVip(v, func) ==
  /\ call = Idle
  /\ HasVip(v)
  /\ \/ /\ VipReals(v) = {}
        /\ programHashRing({})
        /\ UNCHANGED vips_
     \/ \E new \in recalculateHashRing(v, func) :
          /\ vips_' = [vips_ EXCEPT ![v].ring = new]
          /\ programHashRing(new)
  /\ UNCHANGED <<poolVars, vipNums_, userVars, vip_map, reals, server_id_map,
                 lpm_src, call>>

\* getRealsForVip reads numToReals_[n] and then reals_[numToReals_[n]]: for a
\* number that was given back, both insert
getRealsForVip(v) ==
  /\ call = Idle
  /\ HasVip(v)
  /\ numToReals_' = ReadThrough(VipReals(v))
  /\ emptyReal' = IF emptyReal = "none" /\ \E n \in VipReals(v) :
                                             numToReals_'[n] = EmptyAddr
                  THEN "zero" ELSE emptyReal
  /\ UNCHANGED <<realNums_, reals_, vipVars, userVars, kernelVars, call>>

\* getVipLruMissStats: the first failing look-up ends it
getVipLruMissStats(v) ==
  /\ call = Idle
  /\ ~Testing
  /\ HasVip(v)
  /\ \E read \in SUBSET VipReals(v) : numToReals_' = ReadThrough(read)
  /\ UNCHANGED <<realNums_, reals_, emptyReal, vipVars, userVars, kernelVars, call>>

\* Mutant: the VIP is erased before the loop over its reals.
MutDelVipEraseFirst(v) ==
  /\ call = Idle
  /\ HasVip(v)
  /\ call' = [op |-> "delVip", vip |-> v, left |-> VipReals(v)]
  /\ vips_' = [vips_ EXCEPT ![v] = NoVip]
  /\ UNCHANGED <<poolVars, vipNums_, userVars, kernelVars>>

\* delVip: one step per real of the VIP, in the order of an unordered_map
delVip(v) ==
  /\ call = Idle
  /\ HasVip(v)
  /\ call' = [op |-> "delVip", vip |-> v, left |-> VipReals(v)]
  /\ UNCHANGED <<poolVars, vipVars, userVars, kernelVars>>

delVipReal ==
  /\ call.op = "delVip"
  /\ \E n \in call.left :
       /\ releaseNum(n)
       /\ call' = [call EXCEPT !.left = @ \ {n}]
  /\ UNCHANGED <<vipVars, userVars, kernelVars>>

delVipDone ==
  /\ call.op = "delVip"
  /\ call.left = {}
  /\ vipNums_' = Append(vipNums_, vips_[call.vip].num)
  /\ vips_' = [vips_ EXCEPT ![call.vip] = NoVip]
  /\ updateVipMap(call.vip, Absent)
  /\ call' = Idle
  /\ UNCHANGED <<poolVars, userVars, reals, server_id_map, lpm_src, ch_rings>>
-----------------------------------------------------------------------------
(* Reals of a VIP *)

\* modifyRealsForVip (and addRealForVip, delRealForVip: a batch of one)
modifyRealsForVip(action, batch, v) ==
  /\ call = Idle
  /\ HasVip(v)
  /\ call' = [op |-> "modifyReals", action |-> action, vip |-> v,
              todo |-> batch, cur_reals |-> VipReals(v), ureals |-> <<>>]
  /\ UNCHANGED <<poolVars, vipVars, userVars, kernelVars>>

NextReal == Head(call.todo)

\* a real that is unknown, or not one of this VIP's, is skipped
delRealStep ==
  /\ call.op = "modifyReals" /\ call.action = "DEL" /\ call.todo # <<>>
  /\ LET a == NextReal.address
         n == reals_[a].num
     IN \/ /\ ~Known(a) \/ n \notin call.cur_reals
           /\ call' = [call EXCEPT !.todo = Tail(@)]
           /\ UNCHANGED poolVars
        \/ /\ Known(a) /\ n \in call.cur_reals
           /\ decreaseRefCountForReal(a)
           /\ call' = [call EXCEPT !.todo = Tail(@),
                         !.ureals = Append(@, [num |-> n,
                                               weight |-> NextReal.weight])]
  /\ UNCHANGED <<vipVars, userVars, kernelVars>>

\* cur_reals grows for a known real only; an empty pool skips the element
addRealStep ==
  /\ call.op = "modifyReals" /\ call.action = "ADD" /\ call.todo # <<>>
  /\ LET a == NextReal.address
         n == NumFor(a)
         more == Append(call.ureals, [num |-> n, weight |-> NextReal.weight])
     IN \/ /\ Known(a) /\ n \in call.cur_reals
           /\ call' = [call EXCEPT !.todo = Tail(@), !.ureals = more]
           /\ UNCHANGED <<poolVars, reals, bpfFailed>>
        \/ /\ Known(a) /\ n \notin call.cur_reals
           /\ increaseRefCountForReal(a, NextReal.flags, TRUE)
           /\ call' = [call EXCEPT !.todo = Tail(@), !.ureals = more,
                                   !.cur_reals = @ \cup {n}]
           /\ UNCHANGED bpfFailed
        \/ /\ ~Known(a)
           /\ \E ok \in RealsOutcomes(a) :
                /\ increaseRefCountForReal(a, NextReal.flags, ok)
                /\ countFailure("reals", ok)
           /\ call' = [call EXCEPT !.todo = Tail(@),
                         !.ureals = IF n = MaxReals THEN @ ELSE more]
  /\ UNCHANGED <<vipVars, userVars, vip_map, server_id_map, lpm_src, ch_rings>>

\* Vip::getEndpoints: the weights after the batch, and whether any differs
CurWeight(v, n) == IF vips_[v].weight[n] = NoWeight THEN 0 ELSE vips_[v].weight[n]
UpdatedNums(ureals) == {ureals[i].num : i \in 1 .. Len(ureals)}
LastUpdate(ureals, n) ==
  CHOOSE i \in 1 .. Len(ureals) :
    /\ ureals[i].num = n
    /\ \A j \in i + 1 .. Len(ureals) : ureals[j].num # n
NewWeight(v, action, ureals) ==
  [n \in RealNum |->
     CASE n \notin UpdatedNums(ureals) -> vips_[v].weight[n]
       [] n \in UpdatedNums(ureals) /\ action = "DEL" -> NoWeight
       [] OTHER -> ureals[LastUpdate(ureals, n)].weight]
\* Mutant: a deleted real does not count as a change.
MutDelIsNoChange(v, action, ureals) ==
  \E i \in 1 .. Len(ureals) :
    action = "ADD" /\ ureals[i].weight # CurWeight(v, ureals[i].num)

RealsChanged(v, action, ureals) ==
  \E i \in 1 .. Len(ureals) :
    action = "DEL" \/ ureals[i].weight # CurWeight(v, ureals[i].num)
getEndpoints(v, action, ureals) ==
  LET weight == NewWeight(v, action, ureals)
  IN Endpoints(weight, IF RealsChanged(v, action, ureals)
                       THEN {n \in RealNum : weight[n] > 0} ELSE {})

\* Vip::batchRealsUpdate and programHashRing; no endpoint, no new ring.  For
\* endpoints without a zero weight the hash function makes no difference.
modifyRealsDone ==
  /\ call.op = "modifyReals" /\ call.todo = <<>>
  /\ LET v == call.vip
         endpoints == getEndpoints(v, call.action, call.ureals)
         updated == [vips_ EXCEPT
                       ![v].weight = NewWeight(v, call.action, call.ureals)]
     IN \/ /\ DOMAIN endpoints = {}
           /\ vips_' = updated
           /\ programHashRing({})
        \/ \E new \in Rings("Maglev", endpoints, ChRingSize) :
             /\ vips_' = [updated EXCEPT ![v].ring = new]
             /\ programHashRing(new)
  /\ call' = Idle
  /\ UNCHANGED <<poolVars, vipNums_, userVars, vip_map, reals, server_id_map,
                 lpm_src>>
-----------------------------------------------------------------------------
(* Source routing.  A call with several networks is the sequence of the    *)
(* calls with one: nothing is done after the loop, and a failure leaves    *)
(* the rules added so far.                                                 *)

RuleCount == Cardinality({s \in Src : lpmSrcMapping_[s] # 0})

\* addSrcRoutingRule: a rule that is replaced keeps its old user count
addSrcRoutingRule(s, dst) ==
  /\ call = Idle
  /\ SrcRouting \/ Testing
  /\ RuleCount + 1 <= MaxLpmSrcSize
  /\ NumFor(dst) # MaxReals
  /\ lpmSrcMapping_' = [lpmSrcMapping_ EXCEPT ![s] = NumFor(dst)]
  /\ \E ok1 \in RealsOutcomes(dst), ok2 \in LpmOutcomes(s, NumFor(dst)) :
       /\ increaseRefCountForReal(dst, {}, ok1)
       /\ modifyLpmSrcRule(s, NumFor(dst), ok2)
       /\ bpfFailed' = bpfFailed \cup (IF ok1 THEN {} ELSE {"reals"})
                                 \cup (IF ok2 THEN {} ELSE {"lpm_src"})
  /\ UNCHANGED <<vipVars, quicMapping_, vip_map, server_id_map, ch_rings, call>>

delSrcRoutingRule(s) ==
  /\ call = Idle
  /\ SrcRouting \/ Testing
  /\ lpmSrcMapping_[s] # 0
  /\ releaseNum(lpmSrcMapping_[s])
  /\ lpmSrcMapping_' = [lpmSrcMapping_ EXCEPT ![s] = 0]
  /\ \E ok \in LpmOutcomes(s, 0) :
       modifyLpmSrcRule(s, 0, ok) /\ countFailure("lpm_src", ok)
  /\ UNCHANGED <<vipVars, quicMapping_, vip_map, reals, server_id_map, ch_rings,
                 call>>

clearAllSrcRoutingRules ==
  /\ call = Idle
  /\ SrcRouting \/ Testing
  /\ call' = [op |-> "clearSrc", left |-> {s \in Src : lpmSrcMapping_[s] # 0}]
  /\ UNCHANGED <<poolVars, vipVars, userVars, kernelVars>>

\* numToReals_.find(...) is dereferenced unchecked: a missing number is the
\* end() iterator, and the process dies
clearSrcStep ==
  /\ call.op = "clearSrc"
  /\ \E s \in call.left :
       LET n == lpmSrcMapping_[s]
       IN \/ /\ numToReals_[n] = Absent
             /\ call' = Crashed
             /\ UNCHANGED <<poolVars, lpm_src, bpfFailed>>
          \/ /\ numToReals_[n] # Absent
             /\ decreaseRefCountForReal(numToReals_[n])
             /\ \E ok \in LpmOutcomes(s, 0) :
                  modifyLpmSrcRule(s, 0, ok) /\ countFailure("lpm_src", ok)
             /\ call' = [call EXCEPT !.left = @ \ {s}]
  /\ UNCHANGED <<vipVars, userVars, vip_map, reals, server_id_map, ch_rings>>

clearSrcDone ==
  /\ call.op = "clearSrc"
  /\ call.left = {}
  /\ lpmSrcMapping_' = [s \in Src |-> 0]
  /\ call' = Idle
  /\ UNCHANGED <<poolVars, vipVars, quicMapping_, kernelVars>>

\* getSrcRoutingRule and getSrcRoutingRuleCidr read through numToReals_[...]
getSrcRoutingRule ==
  /\ call = Idle
  /\ SrcRouting \/ Testing
  /\ numToReals_' = ReadThrough({lpmSrcMapping_[s] : s \in Src})
  /\ UNCHANGED <<realNums_, reals_, emptyReal, vipVars, userVars, kernelVars, call>>
-----------------------------------------------------------------------------
(* QUIC server ids *)

\* modifyQuicRealsMapping
modifyQuicRealsMapping(action, batch) ==
  /\ call = Idle
  /\ call' = [op |-> "quic", action |-> action, todo |-> batch,
              released |-> FALSE, to_update |-> [id \in QuicId |-> 0]]
  /\ UNCHANGED <<poolVars, vipVars, userVars, kernelVars>>

NextQuic == Head(call.todo)

\* Mutant: the user is not taken off the count.
MutDelQuicNoDecrease ==
  /\ call.op = "quic" /\ call.action = "DEL" /\ call.todo # <<>>
  /\ quicMapping_' = IF quicMapping_[NextQuic.id] = NextQuic.address
                     THEN [quicMapping_ EXCEPT ![NextQuic.id] = Absent]
                     ELSE quicMapping_
  /\ call' = [call EXCEPT !.todo = Tail(@)]
  /\ UNCHANGED <<poolVars, vipVars, lpmSrcMapping_, kernelVars>>

\* server_id_map keeps the entry of a deleted mapping
delQuicStep ==
  /\ call.op = "quic" /\ call.action = "DEL" /\ call.todo # <<>>
  /\ LET id == NextQuic.id
         a  == NextQuic.address
     IN \/ /\ quicMapping_[id] # a
           /\ UNCHANGED <<poolVars, quicMapping_>>
        \/ /\ quicMapping_[id] = a
           /\ decreaseRefCountForReal(a)
           /\ quicMapping_' = [quicMapping_ EXCEPT ![id] = Absent]
  /\ call' = [call EXCEPT !.todo = Tail(@)]
  /\ UNCHANGED <<vipVars, lpmSrcMapping_, kernelVars>>

\* the id is bound to another address: that one loses a user first
overrideQuicStep ==
  /\ call.op = "quic" /\ call.action = "ADD" /\ call.todo # <<>>
  /\ ~call.released
  /\ quicMapping_[NextQuic.id] \notin {Absent, NextQuic.address}
  /\ decreaseRefCountForReal(quicMapping_[NextQuic.id])
  /\ call' = [call EXCEPT !.released = TRUE]
  /\ UNCHANGED <<vipVars, userVars, kernelVars>>

\* an id already bound to the address, or an empty pool, skips the element
addQuicStep ==
  /\ call.op = "quic" /\ call.action = "ADD" /\ call.todo # <<>>
  /\ LET id == NextQuic.id
         a  == NextQuic.address
         skip == [call EXCEPT !.todo = Tail(@), !.released = FALSE]
     IN \/ /\ quicMapping_[id] = a
           /\ call' = skip
           /\ UNCHANGED <<poolVars, quicMapping_, reals, bpfFailed>>
        \/ /\ quicMapping_[id] # a
           /\ call.released \/ quicMapping_[id] = Absent
           /\ \E ok \in RealsOutcomes(a) :
                increaseRefCountForReal(a, {}, ok) /\ countFailure("reals", ok)
           /\ \/ /\ NumFor(a) = MaxReals
                 /\ call' = skip
                 /\ UNCHANGED quicMapping_
              \/ /\ NumFor(a) # MaxReals
                 /\ call' = [skip EXCEPT !.to_update[id] = NumFor(a)]
                 /\ quicMapping_' = [quicMapping_ EXCEPT ![id] = a]
  /\ UNCHANGED <<vipVars, lpmSrcMapping_, vip_map, server_id_map, lpm_src,
                 ch_rings>>

\* Mutant: an id that has an entry is not written again (BPF_NOEXIST).
MutQuicDoneNoExist ==
  /\ call.op = "quic" /\ call.todo = <<>>
  /\ server_id_map' = [id \in QuicId |->
       IF server_id_map[id] = 0 THEN call.to_update[id] ELSE server_id_map[id]]
  /\ call' = Idle
  /\ UNCHANGED <<poolVars, vipVars, userVars, vip_map, reals, lpm_src, ch_rings,
                 bpfFailed>>

\* each write of to_update into server_id_map succeeds or fails by itself
quicDone ==
  /\ call.op = "quic" /\ call.todo = <<>>
  /\ LET ids == {id \in QuicId : call.to_update[id] # 0}
     IN \/ Testing /\ UNCHANGED <<server_id_map, bpfFailed>>
        \/ /\ ~Testing
           /\ \E failed \in IF BpfMayFail THEN SUBSET ids ELSE {{}} :
                /\ server_id_map' = [id \in QuicId |->
                     IF id \in ids \ failed THEN call.to_update[id]
                                            ELSE server_id_map[id]]
                /\ countFailure("server_id_map", failed = {})
  /\ call' = Idle
  /\ UNCHANGED <<poolVars, vipVars, userVars, vip_map, reals, lpm_src, ch_rings>>

\* invalidateServerIds: the entry is deleted (hash map, cid v3; a missing one
\* fails) or set to 0 (array map).  Called with a loaded program only: the
\* function has no test of config_.testing.
invalidateServerId(id) ==
  /\ call = Idle
  /\ ~Testing
  /\ \E ok \in Outcomes(EnableCidV3 => server_id_map[id] # 0) :
       /\ server_id_map' = IF ok THEN [server_id_map EXCEPT ![id] = 0]
                                 ELSE server_id_map
       /\ countFailure("server_id_map", ok)
  /\ UNCHANGED <<poolVars, vipVars, userVars, vip_map, reals, lpm_src, ch_rings,
                 call>>

\* revalidateServerIds: an address without a number is skipped
revalidateServerId(id, a) ==
  /\ call = Idle
  /\ ~Testing
  /\ Known(a)
  /\ \E ok \in Outcomes(TRUE) :
       /\ server_id_map' = IF ok THEN [server_id_map EXCEPT ![id] = reals_[a].num]
                                 ELSE server_id_map
       /\ countFailure("server_id_map", ok)
  /\ UNCHANGED <<poolVars, vipVars, userVars, vip_map, reals, lpm_src, ch_rings,
                 call>>
-----------------------------------------------------------------------------
(* The caller.  Which batches and rules it passes depends on Liberties:    *)
(*   dupAdd / dupDel  a batch for a VIP may name a real twice              *)
(*   remapQuic        a bound server id may be bound to another address    *)
(*   readdSrc         a source network may be added again                  *)
(*   aliasVip         a VIP may be added in two spellings of its address   *)
(*   rehashDrained    Maglev may be set while some reals are drained       *)
(*   revalidateAny    a server id may be validated for any address         *)

Batches(S) == UNION {[1 .. k -> S] : k \in 1 .. MaxBatch}

Distinct(batch) ==
  \A i, j \in 1 .. Len(batch) : batch[i].address = batch[j].address => i = j

\* the weights and flags of a DEL batch are not read: one choice stands for all
DelReal == {[address |-> a, weight |-> CHOOSE w \in Weight : TRUE, flags |-> {}] :
              a \in Addr}

RealBatches(action) ==
  IF action = "ADD"
  THEN {b \in Batches(NewReal) : "dupAdd" \in Liberties \/ Distinct(b)}
  ELSE {b \in Batches(DelReal) : "dupDel" \in Liberties \/ Distinct(b)}

\* the ids of a batch that a careful caller may bind
Unbound(batch) ==
  \A i \in 1 .. Len(batch) :
    /\ quicMapping_[batch[i].id] \in {Absent, batch[i].address}
    /\ \A j \in 1 .. Len(batch) : batch[j].id = batch[i].id => i = j

\* the VIP is not there in another spelling
Unaliased(v) == \A w \in VipKey : HasVip(w) => VipDef[w] # VipDef[v]

\* some reals of the VIP are drained, others serve
HalfDrained(v) == Serving(v) \notin {{}, VipReals(v)}

BelowMaxRefCount == \A a \in Addr : reals_[a].refCount < MaxRefCount

CallerStep ==
  \/ \E a \in Addr, f \in SUBSET RealFlag, set \in BOOLEAN : modifyReal(a, f, set)
  \/ \E v \in VipKey, f \in SUBSET VipFlag :
       (Unaliased(v) \/ "aliasVip" \in Liberties) /\ addVip(v, f)
  \/ \E v \in VipKey, f \in SUBSET VipFlag, set \in BOOLEAN : modifyVip(v, f, set)
  \/ \E v \in VipKey, func \in {"Maglev", "MaglevV2"} :
       /\ func = "Maglev" /\ HalfDrained(v) => "rehashDrained" \in Liberties
       /\ changeHashFunctionForVip(v, func)
  \/ \E v \in VipKey : getRealsForVip(v)
  \/ \E v \in VipKey : getVipLruMissStats(v)
  \/ \E v \in VipKey : delVip(v)
  \/ \E v \in VipKey, action \in Action : \E b \in RealBatches(action) :
       (action = "ADD" => BelowMaxRefCount) /\ modifyRealsForVip(action, b, v)
  \/ \E s \in Src, a \in Addr :
       /\ lpmSrcMapping_[s] = 0 \/ "readdSrc" \in Liberties
       /\ BelowMaxRefCount
       /\ addSrcRoutingRule(s, a)
  \/ \E s \in Src : delSrcRoutingRule(s)
  \/ clearAllSrcRoutingRules
  \/ getSrcRoutingRule
  \/ \E b \in Batches(QuicReal) :
       /\ Unbound(b) \/ "remapQuic" \in Liberties
       /\ BelowMaxRefCount
       /\ modifyQuicRealsMapping("ADD", b)
  \/ \E b \in Batches(QuicReal) : modifyQuicRealsMapping("DEL", b)
  \/ \E id \in QuicId : invalidateServerId(id)
  \/ \E id \in QuicId, a \in Addr :
       /\ quicMapping_[id] = a \/ "revalidateAny" \in Liberties
       /\ revalidateServerId(id, a)

LoopStep ==
  \/ delVipReal
  \/ delVipDone
  \/ delRealStep
  \/ addRealStep
  \/ modifyRealsDone
  \/ clearSrcStep
  \/ clearSrcDone
  \/ delQuicStep
  \/ overrideQuicStep
  \/ addQuicStep
  \/ quicDone

\* a dead process does nothing more
Dead == call = Crashed /\ UNCHANGED vars

Next == CallerStep \/ LoopStep \/ Dead

Spec == Init /\ [][Next]_vars
-----------------------------------------------------------------------------
(* Users of a number, as the call in progress has left them *)

VipUses(v) ==
  CASE call.op = "delVip" /\ call.vip = v -> call.left
    [] call.op = "modifyReals" /\ call.vip = v /\ call.action = "ADD"
         -> VipReals(v) \cup UpdatedNums(call.ureals)
    [] call.op = "modifyReals" /\ call.vip = v /\ call.action = "DEL"
         -> VipReals(v) \ UpdatedNums(call.ureals)
    [] OTHER -> VipReals(v)

\* the numbers of source-routing rules still counted
SrcCounted == {s \in Src : /\ lpmSrcMapping_[s] # 0
                           /\ call.op = "clearSrc" => s \in call.left}

\* the server ids still counted: one being overridden has been released
QuicCounted == {id \in QuicId : /\ quicMapping_[id] # Absent
                                /\ ~(/\ call.op = "quic" /\ call.released
                                     /\ NextQuic.id = id)}

Allocated == {reals_[a].num : a \in {b \in Addr : Known(b)}}

UsersOf(a) ==
  Cardinality({v \in VipKey : reals_[a].num \in VipUses(v)}) +
  Cardinality({s \in SrcCounted : lpmSrcMapping_[s] = reals_[a].num}) +
  Cardinality({id \in QuicCounted : quicMapping_[id] = a})
-----------------------------------------------------------------------------
(* Properties *)

KernelMap == {"vip_map", "reals", "server_id_map", "lpm_src", "ch_rings"}

CallType == {Idle, Crashed} \cup ModifyRealsCall \cup DelVipCall
              \cup ClearSrcCall \cup QuicCall

PoolType ==
  /\ realNums_ \in Seq(RealNum)
  /\ reals_ \in [Addr -> RealMeta \cup {NoReal}]
  /\ numToReals_ \in [RealNum -> Addr \cup {EmptyAddr, Absent}]
  /\ emptyReal \in EmptyReal

VipType ==
  /\ vipNums_ \in Seq(VipNum)
  /\ vips_ \in [VipKey -> VipObject \cup {NoVip}]

UserType ==
  /\ quicMapping_ \in [QuicId -> Addr \cup {Absent}]
  /\ lpmSrcMapping_ \in [Src -> 0 .. MaxReals - 1]

KernelType ==
  /\ vip_map \in [VipDefs -> [num : VipNum, flags : SUBSET VipFlag] \cup {Absent}]
  /\ reals \in [RealNum -> [address : Addr, flags : SUBSET RealFlag] \cup {Absent}]
  /\ server_id_map \in [QuicId -> 0 .. MaxReals - 1]
  /\ lpm_src \in [Src -> 0 .. MaxReals - 1]
  /\ ch_rings \in [VipNum -> SUBSET RealNum]
  /\ bpfFailed \subseteq KernelMap

CallOK ==
  /\ call \in CallType
  /\ call.op \in {"modifyReals", "delVip"} => HasVip(call.vip)

\* Every table holds values of its type, and a call in progress belongs to a
\* VIP that exists.
TypeOK == PoolType /\ VipType /\ UserType /\ KernelType /\ CallOK

\* Whatever the caller does, a real number is on the free list exactly once or
\* belongs to exactly one known real (realNums_, reals_ and the erase and
\* push_back of decreaseRefCountForReal): none is lost, none is shared.
NumberConservation ==
  /\ \A i, j \in 1 .. Len(realNums_) : realNums_[i] = realNums_[j] => i = j
  /\ \A a, b \in Addr : Known(a) /\ Known(b) /\ reals_[a].num = reals_[b].num => a = b
  /\ \A a \in Addr, i \in 1 .. Len(realNums_) : Known(a) => reals_[a].num # realNums_[i]
  /\ \A n \in RealNum : (\E i \in 1 .. Len(realNums_) : realNums_[i] = n) \/
                        (\E a \in Addr : Known(a) /\ reals_[a].num = n)

\* The same of VIP numbers, across addVip and the several steps of delVip.
VipNumberConservation ==
  /\ \A i, j \in 1 .. Len(vipNums_) : vipNums_[i] = vipNums_[j] => i = j
  /\ \A v, w \in VipKey : HasVip(v) /\ HasVip(w) /\ vips_[v].num = vips_[w].num => v = w
  /\ \A v \in VipKey, i \in 1 .. Len(vipNums_) : HasVip(v) => vips_[v].num # vipNums_[i]
  /\ \A n \in VipNum : (\E i \in 1 .. Len(vipNums_) : vipNums_[i] = n) \/
                       (\E v \in VipKey : HasVip(v) /\ vips_[v].num = n)

\* numToReals_ and reals_ stay inverse to each other on the addresses reals
\* can have.  The empty address is the exception: operator[] may leave it
\* under any number that was given back (delVip, delSrcRoutingRule, the
\* getters) and in reals_ with number 0 (getRealsForVip), so that neither map
\* leads back; no number in use is ever under it.
IndexAgrees ==
  /\ \A a \in Addr : Known(a) => numToReals_[reals_[a].num] = a
  /\ \A n \in RealNum : numToReals_[n] \in Addr =>
       Known(numToReals_[n]) /\ reals_[numToReals_[n]].num = n

\* No VIP, rule or server id that is still counted uses a number that was
\* given back (decreaseRefCountForReal frees only at zero): what it would
\* reach next is the real the number is given to, or nobody.
NoDangling ==
  /\ \A v \in VipKey : VipUses(v) \subseteq Allocated
  /\ \A s \in SrcCounted : lpmSrcMapping_[s] \in Allocated
  /\ \A id \in QuicCounted : Known(quicMapping_[id])

\* The reference count of a real is the number of its users, in the middle of
\* a batch too: no number leaks, none is freed early.
RefCountExact == \A a \in Addr : Known(a) => reals_[a].refCount = UsersOf(a)

\* clearAllSrcRoutingRules never dereferences numToReals_.end().
NoCrash == call # Crashed

\* As long as a VIP has a real with a positive weight, its ring is not empty
\* and holds reals of this VIP only, all with a positive weight if the ring has
\* room for them; drained reals only if the caller changed to Maglev while
\* some were (Vip::calculateHashRing on what getEndpoints, with its
\* reals_changed shortcut, or getRealsAndWeight returns).
RingServesVip ==
  \A v \in VipKey : Serving(v) # {} =>
    /\ vips_[v].ring # {}
    /\ vips_[v].ring \subseteq VipReals(v)
    /\ TotalWeight(vips_[v].weight) <= ChRingSize => Serving(v) \subseteq vips_[v].ring
    /\ "rehashDrained" \notin Liberties => vips_[v].ring \subseteq Serving(v)

\* A kernel map that no bpf() call has failed on agrees with the control
\* plane on every VIP, known real and source rule (address, number, flags),
\* whatever failed on the other maps.  vips_ goes by the spelling of an address
\* and vip_map by its value: what holds under a value is the VIP that has it.
KernelAgrees ==
  ~Testing =>
    /\ "vip_map" \notin bpfFailed =>
         /\ \A v \in VipKey : HasVip(v) => vip_map[VipDef[v]] =
              [num |-> vips_[v].num, flags |-> vips_[v].flags]
         /\ \A d \in VipDefs :
              (\A v \in VipKey : HasVip(v) => VipDef[v] # d) => vip_map[d] = Absent
    /\ "reals" \notin bpfFailed => \A a \in Addr : Known(a) =>
         reals[reals_[a].num] = [address |-> a, flags |-> reals_[a].flags]
    /\ "lpm_src" \notin bpfFailed => \A s \in Src :
         lpm_src[s] = IF s \in SrcCounted THEN lpmSrcMapping_[s] ELSE 0

\* Between calls, a bound server id that has an entry in server_id_map leads
\* the data path to the address it is bound to, unless a write to one of the
\* two maps on the way failed.
QuicRouteCurrent ==
  ~Testing /\ bpfFailed \cap {"reals", "server_id_map"} = {} /\ call = Idle =>
    \A id \in QuicId : quicMapping_[id] # Absent /\ server_id_map[id] # 0 =>
      reals[server_id_map[id]] # Absent
        /\ reals[server_id_map[id]].address = quicMapping_[id]

\* The user of realsIdCallback_ sees the numbers change as RealIds promises,
\* one real at a time, whatever the caller does.
Ids == INSTANCE RealIds WITH
         Num <- RealNum, None <- 0, idOf <- [a \in Addr |-> reals_[a].num]
RealIdsSpec == Ids!Spec

\* VsoshlbLb.cpp:2870 "no more vips using this real": a number on the free
\* list is used by no VIP.
FreedRealHasNoVip ==
  \A i \in 1 .. Len(realNums_), v \in VipKey : realNums_[i] \notin VipUses(v)
=============================================================================
