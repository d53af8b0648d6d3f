------------------------------ MODULE LbTables ------------------------------
(***************************************************************************)
(* The small tables of class VsoshlbLb (src/vsoshlb/lib/VsoshlbLb.cpp)     *)
(* that are mirrored into kernel maps of their own: healthcheck keys,      *)
(* healthcheck destinations, inline-decap destinations, the router's MAC   *)
(* and the source addresses of encapsulated packets; and the              *)
(* healthchecking tc programs (src/vsoshlb/lib/bpf/healthchecking.bpf.c,   *)
(* healthchecking_ipip.c), which read them on other cores.                 *)
(*                                                                         *)
(* Control calls come one at a time, but the programs run between any two  *)
(* kernel calls: a call that makes several of them is several steps.       *)
(* config_.testing is FALSE here.  A call that returns before it changes   *)
(* anything is a stuttering step.                                          *)
(***************************************************************************)
EXTENDS Integers, Sequences, FiniteSets

CONSTANTS
  HcKey,        \* healthcheck keys as callers spell them
  HcKeyDef,     \* [HcKey -> kernel keys]: vipKeyToVipDefinition, see below
  BadAddress,   \* HcKeyDef of a key whose address does not parse
  Somark,       \* so_mark values of healthchecks, 0 not among them
  Dst4, Dst6,   \* IPv4 and IPv6 addresses
  Mac,          \* MAC addresses
  ConfigMac,    \* config_.defaultMac
  ConfigSrc,    \* [Family -> address]: config_.vsoshlbSrcV4, vsoshlbSrcV6
  Absent,       \* "no entry under this key"
  MaxVips,      \* config_.maxVips
  MaxReals,     \* config_.maxReals
  MaxDecapDst,  \* config_.maxDecapDst
  EnableHc,     \* config_.enableHc
  Callers       \* the groups of calls a caller may restrict itself to: the tables
                \* of different groups share no state

Dst == Dst4 \cup Dst6
Family == {"v4", "v6"}
FamilyOf(a) == IF a \in Dst4 THEN "v4" ELSE "v6"

ASSUME TablesAssumption ==
  /\ {MaxVips, MaxReals, MaxDecapDst} \subseteq Nat
  /\ EnableHc \in BOOLEAN
  /\ DOMAIN HcKeyDef = HcKey
  /\ Dst4 \cap Dst6 = {} /\ Absent \notin Dst /\ Absent \notin 0 .. MaxVips
  /\ \A a \in Dst, o \in {"be", "host"} : [addr |-> a, order |-> o] # Absent
  /\ ConfigMac \in Mac
  /\ ConfigSrc \in [Family -> Dst]
  /\ \A f \in Family : FamilyOf(ConfigSrc[f]) = f
  /\ Callers \subseteq SUBSET {"keys", "dsts", "decap", "mac", "src"}

VARIABLES
  features_,                       \* what featureDiscovering found in the programs
  hcKeyNums_, hckeys_,             \* healthcheck keys and their numbers
  hcReals_,                        \* healthcheck destinations by so_mark
  decapDsts_,                      \* inline-decap destinations
  mac,                             \* ctlValues_[kMacAddrPos].mac
  hc_key_map, hc_reals_map,        \* kernel maps
  decap_dst, ctl_mac, hc_pckt_macs,
  hc_pckt_srcs_map, pckt_srcs,
  failed,     \* history: the <<map, key, action>> whose kernel call failed,
              \* until a later call for that key succeeds
  aliased,    \* history: kernel keys of hc_key_map that two live spellings shared
  reloaded,   \* history: a reload wrote pckt_srcs after the last addSrcIpForPcktEncap
  caller,     \* the groups of calls made in this behaviour
  call        \* the call in progress

keyVars   == <<hcKeyNums_, hckeys_, hc_key_map, aliased>>
dstVars   == <<hcReals_, hc_reals_map>>
decapVars == <<decapDsts_, decap_dst>>
macVars   == <<mac, ctl_mac, hc_pckt_macs>>
srcVars   == <<hc_pckt_srcs_map, pckt_srcs, reloaded>>
vars == <<features_, keyVars, dstVars, decapVars, macVars, srcVars, failed, caller, call>>
-----------------------------------------------------------------------------
(* Data *)

HcNum == IF EnableHc THEN 0 .. MaxVips - 1 ELSE {}
Def   == {HcKeyDef[k] : k \in HcKey} \ {BadAddress}
LiveKeys == {k \in HcKey : hckeys_[k] # Absent}

Idle == [op |-> "idle"]
\* An array map holds a value for every index; zero until it is written.
Zero == Absent

Init ==
  /\ features_ \in [directHealthchecking : BOOLEAN, inlineDecap : BOOLEAN,
                    gueEncap : BOOLEAN]
  /\ EnableHc \/ ~features_.directHealthchecking
  /\ hcKeyNums_ = [i \in 1 .. Cardinality(HcNum) |-> i - 1]
  /\ hckeys_ = [k \in HcKey |-> Absent]
  /\ hcReals_ = [m \in Somark |-> Absent]
  /\ decapDsts_ = {}
  /\ mac = ConfigMac
  /\ hc_key_map = [d \in Def |-> Absent]
  /\ hc_reals_map = [m \in Somark |-> Absent]
  /\ decap_dst = {}
  /\ ctl_mac = ConfigMac
  /\ hc_pckt_macs = IF features_.directHealthchecking THEN ConfigMac ELSE Zero
  /\ hc_pckt_srcs_map = IF features_.directHealthchecking
                        THEN ConfigSrc ELSE [f \in Family |-> Zero]
  /\ pckt_srcs = IF features_.gueEncap
                 THEN ConfigSrc ELSE [f \in Family |-> Zero]
  /\ failed = {}
  /\ aliased = {}
  /\ reloaded = {}
  /\ caller \in Callers
  /\ call = Idle
-----------------------------------------------------------------------------
(* Kernel calls.  A call on a map the loaded programs do not have fails     *)
(* (getMapFdByName gives kNotExists), so does DEL of a missing key; any     *)
(* other may fail.  A failed call leaves the map alone.                     *)

MapLoaded(map) ==
  CASE map = "hc_reals_map" -> EnableHc
    [] map \in {"hc_key_map", "hc_pckt_macs", "hc_pckt_srcs_map"} ->
         features_.directHealthchecking
    [] map = "decap_dst" -> features_.inlineDecap
    [] map = "pckt_srcs" -> features_.gueEncap
    [] OTHER -> TRUE

Outcomes(map, good) == IF MapLoaded(map) /\ good THEN BOOLEAN ELSE {FALSE}

FailuresOf(map, key) == {<<map, key, act>> : act \in {"ADD", "DEL"}}

note(map, key, act, ok) ==
  failed' = IF ok THEN failed \ FailuresOf(map, key)
                  ELSE failed \cup {<<map, key, act>>}
-----------------------------------------------------------------------------
(* Healthcheck keys *)

\* updateHcKeyMap: the kernel key is made from the parsed address.  When the
\* address does not parse folly::IPAddress throws, out of the public call.
updateHcKeyMap(k, act, num) ==
  LET d == HcKeyDef[k] IN
  \/ d = BadAddress /\ UNCHANGED <<hc_key_map, failed>>
  \/ /\ d # BadAddress
     /\ \E ok \in Outcomes("hc_key_map", act = "ADD" \/ hc_key_map[d] # Absent) :
          /\ hc_key_map' =
               IF ok THEN [hc_key_map EXCEPT ![d] = IF act = "ADD" THEN num ELSE Absent]
                     ELSE hc_key_map
          /\ note("hc_key_map", d, act, ok)

\* Mutant: the number of the key is read but stays in the deque.
MutAddKeepsNum(k) ==
  /\ EnableHc /\ call = Idle
  /\ hcKeyNums_ # <<>> /\ k \notin LiveKeys
  /\ hckeys_' = [hckeys_ EXCEPT ![k] = Head(hcKeyNums_)]
  /\ updateHcKeyMap(k, "ADD", Head(hcKeyNums_))
  /\ UNCHANGED <<hcKeyNums_, aliased>>

\* Whether the update works or not, the key keeps its number.
addHcKeyTables(k) ==
  /\ EnableHc /\ call = Idle
  /\ hcKeyNums_ # <<>> /\ k \notin LiveKeys
  /\ hckeys_' = [hckeys_ EXCEPT ![k] = Head(hcKeyNums_)]
  /\ hcKeyNums_' = Tail(hcKeyNums_)
  /\ updateHcKeyMap(k, "ADD", Head(hcKeyNums_))
  /\ aliased' = aliased \cup {HcKeyDef[j] : j \in {l \in LiveKeys : HcKeyDef[l] = HcKeyDef[k]}}

addHcKey(k) ==
  /\ addHcKeyTables(k)
  /\ UNCHANGED <<dstVars, decapVars, macVars, srcVars, call>>

\* Mutant: the kernel entry is left alone.
MutDelNoKernel(k) ==
  /\ EnableHc /\ call = Idle /\ k \in LiveKeys
  /\ hcKeyNums_' = Append(hcKeyNums_, hckeys_[k])
  /\ hckeys_' = [hckeys_ EXCEPT ![k] = Absent]
  /\ UNCHANGED <<hc_key_map, failed>>

\* The number is free before the kernel entry is gone, and also when it stays.
delHcKeyTables(k) ==
  /\ EnableHc /\ call = Idle /\ k \in LiveKeys
  /\ hcKeyNums_' = Append(hcKeyNums_, hckeys_[k])
  /\ hckeys_' = [hckeys_ EXCEPT ![k] = Absent]
  /\ updateHcKeyMap(k, "DEL", 0)

delHcKey(k) ==
  /\ delHcKeyTables(k)
  /\ UNCHANGED <<aliased, dstVars, decapVars, macVars, srcVars, call>>
-----------------------------------------------------------------------------
(* Healthcheck destinations: the kernel map first, hcReals_ only after it   *)

\* Mutant: IPv4 addresses are always written in network byte order.
MutAlwaysBe(a) == [addr |-> a, order |-> "be"]

\* beaddr: an IPv4 address in network or in host byte order.
\* parseAddrToInt for the metadata tunnel, parseAddrToBe otherwise
parseAddr(a) ==
  [addr |-> a,
   order |-> IF a \in Dst4 /\ ~features_.directHealthchecking THEN "host" ELSE "be"]

addHealthcheckerDst(m, a) ==
  /\ EnableHc /\ call = Idle
  /\ hcReals_[m] = Absent => Cardinality({n \in Somark : hcReals_[n] # Absent}) # MaxReals
  /\ \E ok \in Outcomes("hc_reals_map", TRUE) :
       /\ hc_reals_map' = IF ok THEN [hc_reals_map EXCEPT ![m] = parseAddr(a)] ELSE hc_reals_map
       /\ call' = IF ok THEN [op |-> "addHealthcheckerDst", somark |-> m, dst |-> a] ELSE Idle
  /\ UNCHANGED <<keyVars, hcReals_, decapVars, macVars, srcVars, failed>>

addHealthcheckerDstDone ==
  /\ call.op = "addHealthcheckerDst"
  /\ hcReals_' = [hcReals_ EXCEPT ![call.somark] = call.dst]
  /\ call' = Idle
  /\ UNCHANGED <<keyVars, hc_reals_map, decapVars, macVars, srcVars, failed>>

delHealthcheckerDst(m) ==
  /\ EnableHc /\ call = Idle /\ hcReals_[m] # Absent
  /\ \E ok \in Outcomes("hc_reals_map", hc_reals_map[m] # Absent) :
       /\ hc_reals_map' = IF ok THEN [hc_reals_map EXCEPT ![m] = Absent] ELSE hc_reals_map
       /\ call' = IF ok THEN [op |-> "delHealthcheckerDst", somark |-> m] ELSE Idle
  /\ UNCHANGED <<keyVars, hcReals_, decapVars, macVars, srcVars, failed>>

delHealthcheckerDstDone ==
  /\ call.op = "delHealthcheckerDst"
  /\ hcReals_' = [hcReals_ EXCEPT ![call.somark] = Absent]
  /\ call' = Idle
  /\ UNCHANGED <<keyVars, hc_reals_map, decapVars, macVars, srcVars, failed>>
-----------------------------------------------------------------------------
(* Inline decapsulation: the result of modifyDecapDst is dropped *)

modifyDecapDst(d, act) ==
  \E ok \in Outcomes("decap_dst", act = "ADD" \/ d \in decap_dst) :
    /\ decap_dst' = IF ~ok THEN decap_dst
                    ELSE IF act = "ADD" THEN decap_dst \cup {d} ELSE decap_dst \ {d}
    /\ note("decap_dst", d, act, ok)

addInlineDecapDst(d) ==
  /\ features_.inlineDecap /\ call = Idle
  /\ d \notin decapDsts_
  /\ Cardinality(decapDsts_) + 1 <= MaxDecapDst
  /\ decapDsts_' = decapDsts_ \cup {d}
  /\ modifyDecapDst(d, "ADD")
  /\ UNCHANGED <<keyVars, dstVars, macVars, srcVars, call>>

delInlineDecapDst(d) ==
  /\ features_.inlineDecap /\ call = Idle
  /\ d \in decapDsts_
  /\ decapDsts_' = decapDsts_ \ {d}
  /\ modifyDecapDst(d, "DEL")
  /\ UNCHANGED <<keyVars, dstVars, macVars, srcVars, call>>
-----------------------------------------------------------------------------
(* The router's MAC: the cached value, ctl_array, then hc_pckt_macs *)

changeMac(m) ==
  /\ call = Idle
  /\ mac' = m
  /\ \E ok \in Outcomes("ctl_array", TRUE) :
       /\ ctl_mac' = IF ok THEN m ELSE ctl_mac
       /\ call' = IF ok /\ features_.directHealthchecking THEN [op |-> "changeMac"] ELSE Idle
       /\ note("ctl_array", "mac", "ADD", ok)
  /\ UNCHANGED <<keyVars, dstVars, decapVars, hc_pckt_macs, srcVars>>

\* Mutant: direct healthchecks keep the old address.
MutMacNoHc ==
  /\ call.op = "changeMac" /\ call' = Idle
  /\ UNCHANGED <<keyVars, dstVars, decapVars, macVars, srcVars, failed>>

changeMacHc ==
  /\ call.op = "changeMac" /\ call' = Idle
  /\ \E ok \in Outcomes("hc_pckt_macs", TRUE) :
       /\ hc_pckt_macs' = IF ok THEN mac ELSE hc_pckt_macs
       /\ note("hc_pckt_macs", "mac", "ADD", ok)
  /\ UNCHANGED <<keyVars, dstVars, decapVars, mac, ctl_mac, srcVars>>
-----------------------------------------------------------------------------
(* Source addresses of encapsulated packets: hc_pckt_srcs_map, then         *)
(* pckt_srcs; the first failure ends the call.                              *)

addSrcIpForPcktEncap(a) ==
  /\ call = Idle
  /\ \E ok \in Outcomes("hc_pckt_srcs_map", TRUE) :
       /\ hc_pckt_srcs_map' =
            IF ok THEN [hc_pckt_srcs_map EXCEPT ![FamilyOf(a)] = a] ELSE hc_pckt_srcs_map
       /\ call' = IF ok THEN [op |-> "addSrcIpForPcktEncap", src |-> a] ELSE Idle
       /\ note("hc_pckt_srcs_map", FamilyOf(a), "ADD", ok)
  /\ UNCHANGED <<keyVars, dstVars, decapVars, macVars, pckt_srcs, reloaded>>

addSrcIpForPcktEncapGue ==
  /\ call.op = "addSrcIpForPcktEncap" /\ call' = Idle
  /\ \E ok \in Outcomes("pckt_srcs", TRUE) :
       /\ pckt_srcs' = IF ok THEN [pckt_srcs EXCEPT ![FamilyOf(call.src)] = call.src]
                             ELSE pckt_srcs
       /\ reloaded' = IF ok THEN reloaded \ {FamilyOf(call.src)} ELSE reloaded
       /\ note("pckt_srcs", FamilyOf(call.src), "ADD", ok)
  /\ UNCHANGED <<keyVars, dstVars, decapVars, macVars, hc_pckt_srcs_map>>

\* reloadBalancerProg of a program with the same features keeps every map of
\* this module (BpfLoader) and runs setupGueEnvironment again: the addresses of
\* the configuration replace what addSrcIpForPcktEncap wrote, IPv4 before IPv6,
\* and the first failure throws.
reloadBalancerProg ==
  /\ call = Idle /\ features_.gueEncap
  /\ call' = [op |-> "setupGueEnvironment", left |-> Family]
  /\ UNCHANGED <<keyVars, dstVars, decapVars, macVars, srcVars, failed>>

setupGueEnvironment(f) ==
  /\ call.op = "setupGueEnvironment" /\ f \in call.left
  /\ f = "v6" => "v4" \notin call.left
  /\ \E ok \in Outcomes("pckt_srcs", TRUE) :
       /\ pckt_srcs' = IF ok THEN [pckt_srcs EXCEPT ![f] = ConfigSrc[f]] ELSE pckt_srcs
       /\ reloaded' = IF ok THEN reloaded \cup {f} ELSE reloaded
       /\ note("pckt_srcs", f, "ADD", ok)
       /\ call' = IF ok /\ call.left # {f} THEN [call EXCEPT !.left = @ \ {f}] ELSE Idle
  /\ UNCHANGED <<keyVars, dstVars, decapVars, macVars, hc_pckt_srcs_map>>
-----------------------------------------------------------------------------
(* The healthchecking program: what it may do with a local packet of mark m. *)
(* The direct program writes the outer header itself; the other one hands    *)
(* the address to the metadata tunnel, whose remote_ipv4 is in host order.   *)

Skip == [act |-> "unspec"]
\* The packet is too big, has no room for the header, or a control entry is missing
Drop == [act |-> "shot"]

\* The address an IPv4 word means to the one who reads it in the given order
ReadAs(be, order) ==
  IF be.addr \in Dst4 /\ be.order # order THEN Absent ELSE be.addr

\* hc_encap_ipip, hc_encap_gue (HC_ENCAP) and the MACs written behind it
DirectEncap(real) ==
  [act |-> "redirect", dst |-> ReadAs(real, "be"),
   src |-> hc_pckt_srcs_map[FamilyOf(real.addr)], mac |-> hc_pckt_macs]

\* bpf_skb_set_tunnel_key of healthchecking_ipip.c
TunnelEncap(real) ==
  [act |-> "redirect", dst |-> ReadAs(real, "host"), src |-> Absent, mac |-> Absent]

healthcheck_encap(m) ==
  IF hc_reals_map[m] = Absent THEN {Skip}
  ELSE {Drop, IF features_.directHealthchecking THEN DirectEncap(hc_reals_map[m])
              ELSE TunnelEncap(hc_reals_map[m])}
-----------------------------------------------------------------------------
Next ==
  /\ \/ "keys" \in caller /\ \E k \in HcKey : addHcKey(k) \/ delHcKey(k)
     \/ "dsts" \in caller /\ \E m \in Somark, a \in Dst : addHealthcheckerDst(m, a)
     \/ "dsts" \in caller /\ \E m \in Somark : delHealthcheckerDst(m)
     \/ addHealthcheckerDstDone
     \/ delHealthcheckerDstDone
     \/ "decap" \in caller /\ \E d \in Dst : addInlineDecapDst(d) \/ delInlineDecapDst(d)
     \/ "mac" \in caller /\ \E m \in Mac : changeMac(m)
     \/ changeMacHc
     \/ "src" \in caller /\ \E a \in Dst : addSrcIpForPcktEncap(a)
     \/ addSrcIpForPcktEncapGue
     \/ "src" \in caller /\ reloadBalancerProg
     \/ \E f \in Family : setupGueEnvironment(f)
  /\ UNCHANGED <<features_, caller>>

Spec == Init /\ [][Next]_vars
-----------------------------------------------------------------------------
(* Properties *)

\* Every healthcheck number is either in the deque once or held by one key:
\* no number is lost or given out twice, however addHcKey and delHcKey end,
\* with a kernel failure and with an exception for a bad address too.
HcNumberConservation ==
  /\ hcKeyNums_ \in Seq(HcNum) /\ hckeys_ \in [HcKey -> HcNum \cup {Absent}]
  /\ \A i, j \in 1 .. Len(hcKeyNums_) : hcKeyNums_[i] = hcKeyNums_[j] => i = j
  /\ \A k, l \in LiveKeys : hckeys_[k] = hckeys_[l] => k = l
  /\ \A n \in HcNum : (\E i \in 1 .. Len(hcKeyNums_) : hcKeyNums_[i] = n)
                       <=> (\A k \in HcKey : hckeys_[k] # n)

\* The counter a kernel key is bound to is the one its live healthcheck key
\* has in hckeys_, and a deleted key has none, unless the last kernel call for
\* it failed or two spellings of it were live at once.  A wrong counter (one
\* another key may own by now) takes a failed delete: a failed add alone
\* leaves no entry at all.
HcKeyMapAgrees ==
  \A d \in Def \ aliased :
    LET live == {hckeys_[k] : k \in {l \in LiveKeys : HcKeyDef[l] = d}} IN
    \/ hc_key_map[d] = Absent /\ live = {}
    \/ hc_key_map[d] \in live
    \/ hc_key_map[d] = Absent /\ <<"hc_key_map", d, "ADD">> \in failed
    \/ <<"hc_key_map", d, "DEL">> \in failed

\* The data path decapsulates exactly the destinations of decapDsts_, except
\* one whose last kernel call failed: the callers see TRUE then too.
DecapAgrees ==
  \A d \in Dst : (d \in decap_dst) # (d \in decapDsts_)
                 => failed \cap FailuresOf("decap_dst", d) # {}

\* The kernel maps of healthcheck keys and of decapsulation destinations mirror
\* the user-space tables, up to entries whose own last kernel call failed and, for
\* keys, up to spellings of one address.
MirrorsAgree == HcKeyMapAgrees /\ DecapAgrees

\* A packet with a mark is dropped or leaves for the address the healthchecker
\* bound to that mark, in the byte order the loaded program reads, and a packet
\* with another mark is left alone: hcReals_ and hc_reals_map agree however a call ends, and
\* between its two steps only the mark of that call may differ.
ProbeFollowsTable ==
  \A m \in Somark :
    (call.op \in {"addHealthcheckerDst", "delHealthcheckerDst"} => call.somark # m) =>
      \A verdict \in healthcheck_encap(m) :
        IF hcReals_[m] = Absent THEN verdict = Skip
        ELSE \/ verdict = Drop
             \/ verdict.act = "redirect" /\ verdict.dst = hcReals_[m]

\* Between calls the two halves of the data path use the same headers: a direct
\* healthcheck leaves for the MAC the balancer uses and getMac reports, with the
\* source address GUE packets have, unless the kernel refused one of the writes
\* or a reload has put the configured address back into pckt_srcs alone.
HeadersAgree ==
  call = Idle =>
    /\ mac # ctl_mac => <<"ctl_array", "mac", "ADD">> \in failed
    /\ features_.directHealthchecking /\ hc_pckt_macs # ctl_mac
         => <<"hc_pckt_macs", "mac", "ADD">> \in failed
    /\ features_.directHealthchecking /\ features_.gueEncap =>
         \A f \in Family : hc_pckt_srcs_map[f] # pckt_srcs[f]
           => f \in reloaded \/ <<"pckt_srcs", f, "ADD">> \in failed
=============================================================================
