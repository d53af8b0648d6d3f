----------------------------- MODULE ConnTables -----------------------------
(***************************************************************************)
(* The connection tables (LRU maps) the balancer keeps per core, and their *)
(* administration by class VsoshlbLb while packets flow: listLru,          *)
(* purgeVipLru, analyzeLru, searchLru and deleteLru                        *)
(* (src/vsoshlb/lib/VsoshlbLb.cpp), against the writes of the data path    *)
(* (src/vsoshlb/lib/bpf/balancer.bpf.c).                                   *)
(*                                                                         *)
(* An administration call walks a table with one kernel call after the     *)
(* other; the data path inserts, moves and evicts entries between any two. *)
(* Which real an entry names is decided elsewhere and left out: a table is *)
(* the sequence of its keys.                                               *)
(***************************************************************************)
EXTENDS Integers, Sequences, FiniteSets, SequencesExt

CONSTANTS
  Src,             \* client addresses
  Port,            \* ports a client sends to
  Wildcard,        \* port 0
  VipPort,         \* ports of the VIPs of the one address; Wildcard may be among them
  Configs,         \* flags the VIPs may have, a set of functions from VipPort
  Cpu, Forwarding, \* cores, and those with a table of their own
  Arrivals,        \* packets that arrive: core, client, port
  Bucket,          \* [flow keys -> Nat]: the hash bucket of a key
  Capacity,        \* max_entries of a table
  kLruMaxLookups,  \* bound on the steps of a walk
  Limits,          \* limits callers give to listLru
  NoKey,           \* the empty key a walk starts from
  ENOENT, EOther   \* errors of bpf_map_get_next_key

Flag == {"F_HASH_NO_SRC_PORT", "F_LRU_BYPASS", "F_HASH_DPORT_ONLY", "F_HASH_SRC_DST_PORT"}

\* The client's own port is one value; a flow key may hold another port or none.
Client == "client"
FlowKey == [src : Src \cup {"none"}, sport : {Client, "none"} \cup Port,
            dport : Port \cup {Wildcard}]

ASSUME ConnAssumption ==
  /\ Wildcard \notin Port /\ VipPort \subseteq Port \cup {Wildcard}
  /\ Configs \subseteq [VipPort -> SUBSET Flag]
  /\ Forwarding \subseteq Cpu /\ IsFiniteSet(Forwarding)
  /\ Arrivals \subseteq Cpu \X Src \X Port
  /\ Bucket \in [FlowKey -> Nat]
  /\ Capacity \in Nat \ {0} /\ kLruMaxLookups \in Nat \ {0}
  /\ {NoKey, ENOENT, EOther} \cap FlowKey = {} /\ NoKey \notin {ENOENT, EOther} /\ ENOENT # EOther

Fallback == "fallback"
Table == Forwarding \cup {Fallback}

VARIABLES
  flags,      \* flags of the VIPs (vip_map)
  lru,        \* the tables: keys in the order a walk meets them
  call,       \* the administration call in progress
  pending,    \* history: keys the call is asked for that were in the table when it
              \* turned to it, were not written since and are not handled yet
  missed      \* history: what the latest call was, if it met no error in a table and
              \* yet left something pending there

vars == <<flags, lru, call, pending, missed>>

Idle == [op |-> "idle"]
-----------------------------------------------------------------------------
(* Kernel: an LRU hash.  A new entry becomes the first of its bucket, also   *)
(* when it replaces one with the same key; a full table gives up one entry.  *)

Keys(t) == Range(lru[t])

AtBucketHead(s, k) ==
  LET i == SelectInSeq(s, LAMBDA x : Bucket[x] >= Bucket[k])
  IN IF i = 0 THEN Append(s, k) ELSE InsertAt(s, i, k)

\* The possible contents of a table after an update with BPF_ANY
UpdatedTables(s, k) ==
  LET rest == RemoveFirst(s, k)
      kept == IF Len(rest) < Capacity THEN {rest}
              ELSE {RemoveAt(rest, i) : i \in DOMAIN rest}
  IN {AtBucketHead(r, k) : r \in kept}

\* bpf_map_get_next_key: after a key that is not there comes the first one
NextKey(t, k) ==
  LET i == IF k \in Keys(t) THEN SelectInSeq(lru[t], LAMBDA x : x = k) + 1 ELSE 1
  IN IF i > Len(lru[t]) THEN ENOENT ELSE lru[t][i]
-----------------------------------------------------------------------------
(* Data path *)

TableOf(c) == IF c \in Forwarding THEN c ELSE Fallback

\* The VIP a packet belongs to: exact port first, then the wildcard
VipOf(dport) == IF dport \in VipPort THEN dport ELSE Wildcard

\* process_packet: the key of a packet, made from the packet and the flags
flow(src, dport) ==
  LET v == VipOf(dport) IN
  [src |-> src,
   sport |-> IF "F_HASH_NO_SRC_PORT" \in flags[v] THEN "none" ELSE Client,
   dport |-> IF v = dport \/ flags[v] \cap {"F_HASH_DPORT_ONLY", "F_HASH_SRC_DST_PORT"} # {}
             THEN dport ELSE Wildcard]

\* get_packet_dst: with F_HASH_DPORT_ONLY every client shares one key
hashedFlow(src, dport) ==
  IF "F_HASH_DPORT_ONLY" \in flags[VipOf(dport)]
  THEN [src |-> "none", sport |-> flow(src, dport).dport, dport |-> flow(src, dport).dport]
  ELSE flow(src, dport)

\* Every key the data path may enter for packets of some clients to a VIP
KeysOf(srcs, v) ==
  LET ports == {p \in Port : VipOf(p) = v}
  IN {flow(s, p) : s \in srcs, p \in ports} \cup {hashedFlow(s, p) : s \in srcs, p \in ports}

Balanced(p) == p \in VipPort \/ Wildcard \in VipPort

enter(t, k) ==
  /\ \E s \in UpdatedTables(lru[t], k) : lru' = [lru EXCEPT ![t] = s]
  /\ pending' = IF call # Idle /\ Head(call.maps) = t
                THEN (pending \ {k}) \cap Range(lru'[t]) ELSE pending
  /\ UNCHANGED <<flags, call, missed>>

\* get_packet_dst: a new connection, an expired UDP flow or a repeated SYN is
\* entered unless the VIP bypasses the table; under a flood of new connections
\* it is not (a stuttering step).  A source-routed flow is not hashed.
get_packet_dst(c, src, dport) ==
  /\ Balanced(dport)
  /\ "F_LRU_BYPASS" \notin flags[VipOf(dport)]
  /\ \E k \in {flow(src, dport), hashedFlow(src, dport)} : enter(TableOf(c), k)

\* check_and_update_real_index_in_lru: a packet with a server id corrects the
\* real of its flow's entry in place (a stuttering step), or enters the flow.
check_and_update_real_index_in_lru(c, src, dport) ==
  LET k == flow(src, dport) IN
  /\ Balanced(dport)
  /\ k \notin Keys(TableOf(c))
  /\ enter(TableOf(c), k)
-----------------------------------------------------------------------------
(* Administration: the tables of the cores in order, then the fallback.  Every *)
(* balancer program has the map fallback_cache (balancer_maps.h), so that its   *)
(* look-up by name, whose failure is only logged, finds it once one is loaded.  *)

Maps == SetToSeq(Forwarding) \o <<Fallback>>
Walks == {"purgeVipLru", "listLru", "analyzeLru"}
Lookups == {"deleteLru", "searchLru"}

\* What a call is asked for, in terms of packets: the keys their flows may be
\* kept under.  None of it is visible to the code, which looks for its filter.
Wanted(c) ==
  CASE c.op = "analyzeLru" -> FlowKey
    [] c.op \in {"purgeVipLru", "listLru"} -> KeysOf(Src, c.vip)
    [] OTHER -> KeysOf({c.src}, c.vip)

\* flowKeyFromParams, and the comparison of purgeVipLruMap and listLruMap
flowKeyFromParams(v, src) == [src |-> src, sport |-> Client, dport |-> v]
vipMatch(k) == call.op = "analyzeLru" \/ k.dport = call.vip

start(c) ==
  /\ call = Idle /\ call' = c
  /\ pending' = Keys(Head(c.maps)) \cap Wanted(c)
  /\ missed' = {}
  /\ UNCHANGED <<flags, lru>>

walk(op, v, maps, limit) ==
  start([op |-> op, vip |-> v, maps |-> maps, key |-> NoKey, next |-> NoKey, i |-> 0,
         pc |-> "next", error |-> FALSE, listed |-> 0, limit |-> limit])

purgeVipLru(v) == walk("purgeVipLru", v, Maps, 0)
listLru(v, limit) == walk("listLru", v, Maps, limit)
analyzeLru ==
  Forwarding # {} /\ walk("analyzeLru", Wildcard, SetToSeq(Forwarding), 0)

lookup(op, v, src) ==
  start([op |-> op, vip |-> v, src |-> src, maps |-> Maps])
deleteLru(v, src) == lookup("deleteLru", v, src)
searchLru(v, src) == lookup("searchLru", v, src)

\* What is pending once the key k of table t was looked up; nothing is asked of a
\* walk that met an error.  A purge is asked to delete, the others to report.
stillPending(t, k, error) ==
  IF error THEN {}
  ELSE Range(lru'[t]) \cap
       (IF call.op \in {"purgeVipLru", "deleteLru"} THEN pending ELSE pending \ {k})

\* The call is done with table t and goes on to the tables in rest.
leaveTable(left, rest, next) ==
  /\ missed' = IF left = {} THEN missed ELSE {[op |-> call.op, vip |-> call.vip]}
  /\ call' = IF rest = <<>> THEN Idle ELSE next
  /\ pending' = IF rest = <<>> THEN {} ELSE Range(lru'[Head(rest)]) \cap Wanted(call)

\* Mutant: any error of bpfMapGetNextKey is taken for the end of the table.
MutErrorIsEnd ==
  /\ call.op \in Walks /\ call.pc = "next"
  /\ \E n \in {NextKey(Head(call.maps), call.key), ENOENT} :
       call' = [call EXCEPT !.next = n, !.pc = "visit"]
  /\ UNCHANGED <<flags, lru, pending, missed>>

\* Mutant: the steps are counted anew when a walk is sent back to the first key.
MutRestartCount ==
  /\ call.op \in Walks /\ call.pc = "next"
  /\ \E n \in {NextKey(Head(call.maps), call.key), EOther} :
       call' = [call EXCEPT !.next = n, !.pc = "visit",
                  !.i = IF @ = 0 \/ call.key \in Keys(Head(call.maps)) THEN @ ELSE 1]
  /\ UNCHANGED <<flags, lru, pending, missed>>

\* First half of an iteration: bpfMapGetNextKey, before the key is looked at
getNextKey ==
  /\ call.op \in Walks /\ call.pc = "next"
  /\ \E n \in {NextKey(Head(call.maps), call.key), EOther} :
       call' = [call EXCEPT !.next = n, !.pc = "visit"]
  /\ UNCHANGED <<flags, lru, pending, missed>>

\* Second half: the current key is deleted, listed or counted by a call that
\* fails if the key is gone, and may fail for another reason (works = FALSE);
\* then the walk ends, gives up or goes on with the next key.
visitWith(works) ==
  /\ call.op \in Walks /\ call.pc = "visit"
  /\ LET t == Head(call.maps)
         match == call.i # 0 /\ vipMatch(call.key)
         found == match /\ works /\ call.key \in Keys(t)
         listed == call.listed + (IF found /\ call.op = "listLru" THEN 1 ELSE 0)
         full == call.op = "listLru" /\ call.next \in FlowKey /\ listed >= call.limit
         last == call.next \in FlowKey /\ call.i = kLruMaxLookups - 1
         error == call.error \/ (match /\ ~found) \/ call.next = EOther \/ full \/ last
         left == stillPending(t, IF found THEN call.key ELSE NoKey, error)
         rest == IF full /\ t # Fallback THEN <<Fallback>> ELSE Tail(call.maps)
     IN
     /\ lru' = IF found /\ call.op = "purgeVipLru"
               THEN [lru EXCEPT ![t] = RemoveFirst(@, call.key)] ELSE lru
     /\ IF call.next \in {ENOENT, EOther} \/ full \/ last
        THEN leaveTable(left, rest,
               [call EXCEPT !.maps = rest, !.key = NoKey, !.next = NoKey, !.i = 0,
                            !.pc = "next", !.error = FALSE, !.listed = listed])
        ELSE /\ call' = [call EXCEPT !.key = call.next, !.next = NoKey, !.i = @ + 1,
                           !.pc = "next", !.error = error, !.listed = listed]
             /\ pending' = left
             /\ UNCHANGED missed
  /\ UNCHANGED flags
visit == \E works \in BOOLEAN : visitWith(works)

\* deleteLru and searchLru (lookupLruMap): one kernel call for each table.  An error
\* other than ENOENT is only logged by deleteLru; searchLru reports any.
visitKey ==
  /\ call.op \in Lookups
  /\ LET t == Head(call.maps)
         k == flowKeyFromParams(call.vip, call.src)
     IN \E error \in BOOLEAN :
          /\ lru' = IF call.op = "deleteLru" /\ ~error THEN [lru EXCEPT ![t] = RemoveFirst(@, k)]
                    ELSE lru
          /\ leaveTable(stillPending(t, k, error), Tail(call.maps), [call EXCEPT !.maps = Tail(@)])
  /\ UNCHANGED flags
-----------------------------------------------------------------------------
Init ==
  /\ flags \in Configs
  /\ lru = [t \in Table |-> <<>>]
  /\ call = Idle
  /\ pending = {} /\ missed = {}

Administration == getNextKey \/ visit \/ visitKey

Next ==
  \/ \E c \in Cpu, s \in Src, p \in Port :
       /\ <<c, s, p>> \in Arrivals
       /\ get_packet_dst(c, s, p) \/ check_and_update_real_index_in_lru(c, s, p)
  \/ \E v \in VipPort : purgeVipLru(v) \/ \E n \in Limits : listLru(v, n)
  \/ \E v \in VipPort, s \in Src : deleteLru(v, s) \/ searchLru(v, s)
  \/ analyzeLru
  \/ Administration

\* The caller's thread runs on while a call is in progress.
Spec == Init /\ [][Next]_vars /\ WF_vars(Administration)
-----------------------------------------------------------------------------
(* Properties *)

\* The data path may keep flows of VIP v under keys whose port is not v's
KeepsPort(v) ==
  v = Wildcard /\ flags[v] \cap {"F_HASH_DPORT_ONLY", "F_HASH_SRC_DST_PORT"} # {}
\* ... or under keys that do not hold the client's address and port
DropsClient(v) == flags[v] \cap {"F_HASH_DPORT_ONLY", "F_HASH_NO_SRC_PORT"} # {}

\* A walk that reports no error has handled every entry of the VIP that was in
\* the table when it began and was not written since, although packets insert,
\* move and evict entries between its kernel calls and send it back to the first
\* key; deleteLru and searchLru reach the entry of their flow in every table
\* where the kernel call works.
\* Two kinds of VIP are excepted, because the data path keeps their flows under
\* keys these calls do not look for.
NothingMissed ==
  \A m \in missed :
    /\ m.op # "analyzeLru"
    /\ KeepsPort(m.vip) \/ (m.op \in Lookups /\ DropsClient(m.vip))

\* Every administration call returns, however the packets keep sending its walk
\* back to the first key of a table: kLruMaxLookups is what ends it.
WalksEnd == (call # Idle) ~> (call = Idle)
=============================================================================
