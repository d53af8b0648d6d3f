# Formal verification of vsoshlb

vsoshlb is an L4 load balancer: XDP programs forward packets, and a user-space
library keeps the tables they read. This directory holds TLA+ models of the
parts that keep state, TLC runs over small instances, and proofs checked by
TLAPS. Paths below are relative to `src/vsoshlb/`.

## 1. Inventory

| Component | State | Operations | Interacts with |
|---|---|---|---|
| Forwarding tables (`lib/VsoshlbLb.cpp`, `lib/Vip.cpp`) | free lists `realNums_`, `vipNums_`; `reals_` (number, reference count, flags), `numToReals_`, `vips_` (flags, weights, ring), `quicMapping_`, `lpmSrcMapping_` | add/del/modify VIP and real, batches of reals, hash function, source rules, QUIC ids | writes the kernel maps the data path reads; calls `realsIdCallback_` in the middle of batches |
| Consistent hashing (`lib/MaglevHash.cpp`, `lib/MaglevHashV2.cpp`) | none between calls | `generateHashRing` | called by `Vip` with the endpoints of a VIP |
| Other tables (same class) | `hckeys_`, `hcKeyNums_`, `hcReals_`, `decapDsts_`, `ctlValues_` | healthcheck keys and destinations, decap destinations, MAC, source addresses | one or two kernel maps each |
| Program lifecycle (same class), `lib/BpfLoader.cpp` | `features_`, `progsAttached_`, `rootMapFd_`; names to fds, shared maps | load, reload, attach, install/remove feature | kernel; root XDP program |
| Connection tables and their administration | per-CPU, fallback and global LRU maps | init, list, analyse, delete, purge | shared with the data path while it runs |
| Packet capture (`lib/VsoshlbMonitor.cpp`, `PcapWriter`, `*Writer`) | `queue_`, `dataWriters_`, `headerExists_`, `enabledEvents_`, counters | packet in; stop, restart, reset, enable, disable, set/unset pipe, destroy | event-base, writer and owner threads |
| Event pipe (`lib/EventPipeCallback.cpp`) | `readBuffer_`, `cb_subsmap_` | bytes in, records out; add/remove client | the capture's pipes; clients |
| Monitoring service (`lib/MonitoringServiceCore.cpp`) | `subscription_map_`, `client_to_event_ids_`, `curr_cid_`, limit | initialise, accept, subscribe, cancel, tear down | one event pipe per event, the monitor |
| Data path (`lib/bpf/`) | kernel maps, counters | one packet: parse, look up, encapsulate, verdict | everything above |
| Decapsulation (`decap/`) | counters | one packet | none |
| TCP packet router (`tpr/`) | attached program, server id, timer; per-socket state | init, shutdown, set id, poll; sockops callbacks | kernel, an event base |

`PROJECT.json` lists every part with its files and status, those left out too.

What is hard here, and what makes each part correct:

* **Forwarding tables.** Small numbers are recycled between addresses that
  VIPs, rules and server ids refer to. Correct means: numbers are never lost or
  shared, counts are exact in the middle of a batch, nothing in use refers to a
  freed number, kernel maps follow unless a write failed. Hazards: duplicates
  in a batch, a pool that runs dry half-way, re-binding, ignored failures,
  `operator[]` that inserts, two spellings of one address.
* **Consistent hashing.** A ring is returned as soon as it is full, however many
  endpoints are still without a place. Correct means: it is filled whatever the
  weights, and misses no endpoint there is room for.
* **Capture.** Three threads, one queue that is sometimes full, calls that are
  only queued, writes that fail and are only logged. Correct means: a capture is a
  pcap stream but for the writes that failed, pipes carry whole records, control
  calls return, shutdown ends.
* **Event pipe and monitoring service.** Reads that split records anywhere;
  several maps with locks of their own. Correct means: clients get whole
  records in order, a cancelled client gets nothing more, the maps agree.
* **Healthcheck, decap and address tables.** Tables mirrored in one or two
  kernel maps, written one after the other while a program reads them. Correct
  means: mirrors agree up to refused writes, a probe leaves for the address
  bound to its mark in the byte order its program reads.
* **Lifecycle and loader.** Long calls in which every step can throw and leave
  what was done before; programs that outlive the process. Correct means: all
  programs work on the maps user space writes, flags and path describe the
  loaded program, a failed start leaves nothing attached.
* **Connection tables.** A walk over a hash table that changes under it.
  Correct means: it ends, and if it reports no error it missed nothing.
* **TPR.** A timer on another thread racing shutdown; a descriptor number that
  is reused; retries. Correct means: the program answers with the id the caller
  was told, nothing stays attached, the timer never runs after shutdown.

## 2. How the source is read

Some lines of the source are missing from this commit (typically lines with a
`*` in them: pointer assignments, multiplications, some declarations and loop
heads). The models follow the text that is there:

* a name that is used and whose declaration is missing is taken as declared
  (`msg`, `rmeta`);
* a loop whose head is missing is restored only where the body leaves no doubt
  (the loops over `subsmap` in `EventPipeCallback` and `getSubscriptionMapForEvent`);
* a value that is declared and never assigned in the text is an arbitrary
  value: `keys` of `programHashRing`, so `ch_rings` is modelled as the set of
  reals that any element may hold;
* in `restartMonitor` the condition of the block with `resetWriters` is not
  readable: both outcomes are modelled, `config_.storage` stays as it is;
* in the LRU calls `key` and `filterKey`, used and never declared, are the value
  of `maybeKey` computed above them; the constant `kLruMaxLookups` is a
  parameter; in `healthchecking.bpf.c` `esrc` and `edst` are taken as declared;
* in `generateHashRing` the lines that fill `permutation` and compute `cur` are
  missing: an endpoint's places are taken to meet every position, which they do
  for a ring size that is a prime (65537 unless configured); which position comes
  next is left open;
* code that is not in the repository (folly's queue, the RPC layer around the
  monitoring service, the kernel) is modelled from its use and marked external.

Every early return that changes nothing is a stuttering step.

## 3. Modules

**`LbControl`** - `VsoshlbLb`'s forwarding tables and `Vip`. Variables have the
names of the members; the kernel maps are `vip_map`, `reals`, `server_id_map`,
`lpm_src` and `ch_rings`. The class has one caller at a time, but a batch calls
the user's callback between its elements, so loops are sequences of steps, one
per iteration, and `call` holds the rest of the batch: `modifyRealsForVip` is
`delRealStep`/`addRealStep` per element and `modifyRealsDone` (ring and kernel),
`delVip` is `delVipReal` and `delVipDone`, `modifyQuicRealsMapping` is
`delQuicStep`/`overrideQuicStep`/`addQuicStep` and `quicDone`,
`clearAllSrcRoutingRules` likewise. `addSrcRoutingRule` and
`delSrcRoutingRule` with several sources are repeated calls with one source:
each element is finished before the next one starts. A VIP is known by the spelling
of its address; the key of `vip_map` is the parsed address, `VipDef`. `getRealsForVip`,
`getVipLruMissStats` and `getSrcRoutingRule` are actions because they insert:
`emptyReal` is the entry that `getRealsForVip` may leave in `reals_` under the empty
address, with number 0, and whose count the next release through it wraps. A ring is
the set of reals on it, one of the `Rings` of the endpoints. `Outcomes` gives each
`bpf()` call its results: success, or failure with
the map unchanged, recorded in `bpfFailed`. With `Testing` no map is touched,
as in the code.

`Liberties` says what a caller does that a careful one does not: name a real
twice in an ADD or DEL batch (`dupAdd`, `dupDel`), re-bind a server id
(`remapQuic`), add a source rule that exists (`readdSrc`), have a VIP in two
spellings of its address (`aliasVip`), change to Maglev while some reals of the VIP
are drained and others serve (`rehashDrained`), re-validate a server id for an address
it is not bound to (`revalidateAny`). The code accepts all of them; properties about
exact counts hold without, properties about numbers hold with them.

**`HashRing`** - which sets of endpoints may be on a ring: `Rings`. An endpoint may be
left off if the weights do not fit, one of weight zero may be on. **`Maglev`** - the
loops of both classes as a function of the weights in any order; `KeepsPromise` says
that on all small arguments they end in one of the `Rings`, and `MakesRing` requires it
as soon as there is a VIP.

**`RealIds`** - the contract of `realsIdCallback_`, and the abstract
specification `LbControl` implements with `idOf` mapped to
`[a \in Addr |-> reals_[a].num]`.

**`MCLbControl`** - symmetry sets for TLC, and VIPs that have an address each
(`OwnAddress`) or are spellings of one (`OneAddress`). **`MCLbRing`** - the same
together with `Maglev`.

**`Monitor`** - the perf-buffer callback, the writer thread `runMulti` and the
owner's calls. A message is queued whole; a blocked `blockingWrite` has its
place at the end of the queue (folly's MPMCQueue hands out tickets) and its
call returns when the place is within the capacity. The writer thread's
iteration has steps where another thread can see the difference: read, look at
the message, record header, record data; `cntrLock_` is held from the look on.
Files, buffers and pipes are sequences of `"hdr"`, `"rec"`, `"data"`; in a file any of
them may be `"lost"`, none or a part of its bytes written, after which the code goes
on as if it were there (`lib/FileWriter.cpp:15`). `PipesOf` says which pipes the owner
may give to which event. **`MCMonitor`** - any of them
for any event.

**`EventPipe`** - `readBuffer` on chunks of any size, one step per record, and
clients that come and go between records. Bytes are units; the first unit of a
record header tells its length.

**`Subscriptions`** - `MonitoringServiceCore`; one step per lock taken. The
read of `client_to_event_ids_` without a lock may miss an entry while another
thread inserts. `CancelAnytime` says whether the service (external) may report
the end of a stream before `onClientSubscribed` has returned.
**`MCSubscriptions`** - request sets and symmetry.

**`LbTables`** - the other tables of `VsoshlbLb`: `hckeys_`, `hcReals_`,
`decapDsts_`, the MAC in `ctlValues_`, and the kernel maps that mirror them. A
call that makes one kernel call is one step; `addHealthcheckerDst`, `changeMac`,
`addSrcIpForPcktEncap` and the write of the source addresses by a reload are two
or more, because the healthchecking program runs in between.
`healthcheck_encap` is that program's verdict on a packet, in both forms: the
direct one writes the header itself, the other fills a tunnel key whose IPv4
address is in host order. `MapLoaded` gives a map to a configuration only if the
loaded programs have it. A healthcheck key is compared by its spelling in user
space and by its parsed address in the kernel: `HcKeyDef`. The history variables
`failed`, `aliased` and `reloaded` hold exactly the excuses the properties allow.
Both configured source addresses are set. **`MCLbTables`** - the instance.

**`BpfLoader`** - names of programs and maps. A kernel map is the load that
created it, a program is bound to the maps of its load. `reloadBpfObject` makes
the maps it meets shared one by one, and a failure leaves any part of them so.

**`Lifecycle`**, which extends `BpfLoader` - `loadBpfProgs`,
`reloadBalancerProg`, `installFeature`, `removeFeature`, `attachBpfProgs` and the
destructor, one step for each thing that can fail (`call.pc`), in standalone
mode, with a root map, and with somebody else managing the root map. `Crash` ends
the process at any step; the interfaces keep what is attached, and `Start`
begins anew. A careful caller (`Liberties = {}`) loads before it attaches,
attaches before it reloads or changes features and attaches again only after a
reload; what the code does to others is listed in section 6.
**`MCLifecycle`** - two balancers with different maps and a healthchecker.

**`ConnTables`** - the LRU maps as the sequence in which a walk meets their
keys. The data path (`get_packet_dst`, `check_and_update_real_index_in_lru`)
enters keys made from the packet and the VIP's flags; a full table gives up any
entry. `listLru`, `purgeVipLru` and `analyzeLru` walk with two steps per
iteration (`getNextKey`, `visit`), `deleteLru` and `searchLru` visit each table
once. Each of their kernel calls may fail, on a key that is there too. The fallback map
is in every balancer program (`lib/bpf/balancer_maps.h`), so its look-up by name finds
it. The kernel's hash (buckets, insertion at the head of a bucket, restart at
the first key when the current one is gone) is external. **`MCConnTables`** -
buckets, arrivals and flags.

**`*Proofs`** - the theorems about the module of that name and their proofs
(section 5). The first half of `LbControlProofs` is about numbers, the second (from
*The users of a number* on) about their users, the kernel maps and the data path.

**`TprRouter`** - `TcpPktRouter`, its skeleton and `TPRStatsPoller`. `evb` is the
event base's thread inside `timeoutExpired`, `pc` the caller inside `shutdown` or
the destructor; the poller's `shutdown_`, the close of the descriptor, the
cancellation of the timer and the detach are separate steps. `fd` says what the
poller's descriptor number denotes while other code opens and closes files.

## 4. Runs

| Run | Shows | Bounds |
|---|---|---|
| `lb_careful` | `NoDangling`, `RefCountExact`, `NoCrash`, `RingServesVip` for a caller without liberties; `MakesRing` | 3 addresses for 2 numbers: the pool runs dry and numbers are recycled; 2 VIPs share reals; batches of 2; weights 0 and 1 on rings of one place: reals are drained, and two that serve do not fit. `MakesRing`: up to 3 weights of 0 to 3, up to 7 places |
| `lb_liberal` | `NumberConservation`, `VipNumberConservation`, `IndexAgrees`, refinement `RealIdsSpec` for any caller | as `lb_careful`, all liberties, counts up to 2 |
| `lb_kernel` | `TypeOK`, `KernelAgrees` with kernel calls that fail | 2 addresses, 1 number, flags on reals and VIPs, 2 spellings of one VIP |
| `lb_quic` | `QuicRouteCurrent` without re-binding, stale entries of `server_id_map` included | 2 ids, 3 addresses, 2 numbers, CID v3 invalidation, failing calls |
| `lb_dup_del` | **violation** of `FreedRealHasNoVip` | 2 VIPs, a DEL batch of 2 |
| `mon_capture` | `TypeOK`, `CaptureWellFormed`, `AmountMatchesCapture`, `BufferBound`, `PipeFramed`, and the liveness properties `CallsReturn`, `ShutdownEnds`, for the three kinds of storage and files any write to which may fail | 2 events, queue of 2, 2 packets, 3 calls: a full queue, two resets in a row, a limit reached; buffer for one header and one record |
| `pipe_records` | `WholeRecordsInOrder`, `RecordsArrive` | 3 records of 3 or 4 units, reads of up to 3 units: a record spans up to 4 reads, one read holds parts of two records |
| `subs_careful` | `MapsAgree`, `NoEventAfterCancel` when a stream ends after its subscribe | 2 clients, 2 events, limits 1 and 2 |
| `lb_tables` | `HcNumberConservation`, `MirrorsAgree`, `ProbeFollowsTable`, `HeadersAgree`, for every combination of features and with every kernel call failing | two spellings of one address and a bad one; fewer numbers than keys, fewer destinations than marks or addresses; tables of different groups share no state, so `Callers` lets one behaviour use some of the groups |
| `lifecycle` | `OneMapPerName`, `FeaturesTrue`, `AttachedIsLoaded`, `NothingLeftBehind`, `RecirculationCurrent`, `LrusBeforeTraffic` for a careful caller | 2 processes, 4 objects loaded, 2 cores, 3 modes, with and without healthchecker and clean-up |
| `conn_tables` | `NothingMissed`, and the liveness property `WalksEnd` | a core with its own table and one on the fallback, 2 clients, 2 ports, tables of 2 entries so that every third flow evicts, 4 lookups per walk, every flag of a VIP |
| `tpr` | `IdPublished`, `NothingAttachedBehind`, `TimerStopped`, the action property `OwnDescriptors`, and `ShutdownReturns` | ids 0 to 2 and one out of range; any number of routers, crashes and shutdowns |

Why these bounds are enough to be interesting: every hazard of the list needs
at most two users of one number and one more address that takes the number
over; two events show that a writer does not disturb another; two clients give
every overlap of two handlers. `MaxRefCount`, `MaxBatch`, `MaxPackets`,
`MaxCalls`, `MaxRecords`, `MaxSends`, `MaxLoads` and `MaxStarts` bound the inputs
only, never what the code does with them, and `MaxGaps` is high enough in
`mon_capture` for every write to fail. One bound is not a constant: the empty
address in `reals_` has three states, which is right for fewer than 2^32 releases
through that entry while the process lives. Four loads are a load of both programs
and two reloads, or a load in each of two processes. In `conn_tables`
`kLruMaxLookups` is larger than a table, so that walks end in all three ways; in
the code it is far larger still. `mon_capture` has one pipe: a second one would show
that `setAsyncPipeWriter` can change the destination between the two writes of
a record and leave half of it in each pipe.

**Deadlock** is checked in the `lb_*`, `lifecycle`, `conn_tables` and `tpr` runs. The
others (`mon_capture`, `pipe_records`, `subs_careful`) stop when
their packets, calls, records or clients are used up, so their configurations say
`CHECK_DEADLOCK FALSE`.

**Fairness.** `Monitor` assumes weak fairness of the writer thread's and of the
owner's steps: both are threads of their own that run as long as they are not
blocked, and a step is enabled exactly when the thread is not blocked. Nothing
is assumed about packets or new calls. `EventPipe` assumes it of the reader
thread, which the event base calls while bytes are there. `ConnTables` assumes it
of the steps of a call in progress: the caller's thread runs on, and never waits
for a packet. `TprRouter` assumes it of the timer's thread, whose loop runs
whatever is due, and of the steps of a shutdown; weak fairness is enough although
`cancelTimeout` waits for the loop, because a timeout that finds `shutdown_` set
does not arm the timer again. The other modules have no fairness and no liveness
property.

## 5. Proofs

Every safety property that a passing run checks is proved for every value of
the constants: every number of addresses, VIPs, events, clients, programs, cores
and records, every size of the tables and buffers, every pattern of failures, and
unless the statement says otherwise every caller.

| Module | Theorem | Statement |
|---|---|---|
| `LbControlProofs` | `TypeCorrect` | `Spec => []TypeOK` |
| | `RealNumbersConserved`, `VipNumbersConserved` | `Spec => []NumberConservation`, `Spec => []VipNumberConservation` |
| | `IndexCorrect` | `Spec => []IndexAgrees` |
| | `RealIdsRefinement` | `Spec => RealIdsSpec` |
| | `CountsExact`, `NothingDangles`, `NeverCrashes` | `Liberties = {} => (Spec => []RefCountExact)`, same for `NoDangling`, `NoCrash` |
| | `RingsServe` | `Spec => []RingServesVip` |
| | `NothingStrays` | `Liberties = {} => (Spec => [](NoStrayEntries /\ IndexAgrees))`: no read inserts the empty address, the two index maps are inverse without exception |
| | `RealsMirrored` | `Spec => []RealsAgree` |
| | `VipsMirrored` | `"aliasVip" \notin Liberties => (Spec => []VipMapAgrees)` |
| | `KernelMirrored`, `QuicRoutesCurrent` | `Liberties = {} => (Spec => []KernelAgrees)`, same for `QuicRouteCurrent` |
| | `NumbersMeanTheSameReal` | `Liberties = {} => (Spec => [][UsersKeepReals]_vars)`: whoever uses a number and keeps it over a step means the same real before and after |
| | `RingsReachReals` | `Liberties = {} => (Spec => []RingReachesReals)`: a number on a VIP's ring is of one of its reals and leads through the kernel map `reals` to that real |
| `LbTablesProofs` | `HcNumbersConserved`, `KernelMirrorsAgree`, `ProbesFollowTable`, `HealthcheckHeadersAgree` | `HcNumberConservation`, `MirrorsAgree`, `ProbeFollowsTable`, `HeadersAgree` are invariants |
| `LifecycleProofs` | `ReloadsKeepTables`, `FeaturesDescribeProgram`, `RecirculatesIntoLoaded`, `CleanInterfaces` | `OneMapPerName`, `FeaturesTrue`, `RecirculationCurrent`, `NothingLeftBehind` are invariants |
| | `AttachedProgramIsLoaded`, `TablesBeforeTraffic` | with `Liberties = {}`: `AttachedIsLoaded`, `LrusBeforeTraffic` |
| | `TablesStayInPlace` | `Spec => [][TablesStay]_vars`: while the process lives, no step exchanges a kernel map that user space knows by a name, or a shared one, for another |
| `MonitorProofs` | `TypeCorrect`, `CapturesAreWellFormed`, `AmountIsExact`, `BuffersBounded` | `TypeOK`, `CaptureWellFormed`, `AmountMatchesCapture`, `BufferBound` are invariants |
| | `PipesAreFramed` | `OnePipeEach => (Spec => []PipeFramed)` |
| | `ShutdownIsLast` | `Spec => []ShutdownComesLast`: the destructor's shutdown message has packets only behind it, is not lost once queued, and nothing else ends the writer thread |
| | `ShutdownNearsEnd` | `Spec => [][ShutdownNears]_vars`: each step of the writer thread brings it nearer to that message, no other step takes it farther away |
| `EventPipeProofs` | `RecordsStayWhole`, `StreamStaysFramed` | `Spec => []WholeRecordsInOrder`, `Spec => []StreamInv` |
| `SubscriptionsProofs` | `TypeCorrect` | `Spec => []TypeOK` |
| | `QuietMapsAgree`, `CanceledGetsNothing` | with `~CancelAnytime`: `[]MapsAgree`, and the action property `NoEventAfterCancel` |
| `TprRouterProofs` | `TimerNeverOutlivesPoller`, `ProgramIsDetachable`, `PublishedIdIsConfirmed` | `TimerStopped`, `NothingAttachedBehind`, `IdPublished` are invariants |
| | `ForeignDescriptorUses` | `Spec => OwnDescriptors`, an action property |
| `ConnTablesProofs` | `WalksMissNothing` | `Spec => []NothingMissed` |
| | `CallsNearEnd` | `Spec => [][CallNearsEnd]_vars`: each step of a call lowers the bound on the steps it has left, packets do not raise it |

In each module `Inductive` states the inductive invariant the others follow
from; `UsersInductive` states the second one of `LbControlProofs`.

### Hypotheses

Three are about the caller or the environment; without each of them the code
does not have the property, and the run or the finding that shows it is named:

* `Liberties = {}` in `LbControlProofs` - a caller that names no real twice in a
  batch, re-binds no server id, re-adds no source rule and so on (`lb_dup_del`,
  section 6). `KernelAgrees` needs it for source rules and for the spellings of a
  VIP (`VipsMirrored`); `RingsServe` and `RealsMirrored` hold without.
* `Liberties = {}` in two theorems of `LifecycleProofs` - the order of loads,
  attaches and reloads of section 3; the others hold for any order.
* `~CancelAnytime` - a stream ends after `onClientSubscribed` has returned.
* `OnePipeEach` - the owner moves no event to a second pipe. With two pipes
  `setAsyncPipeWriter` may fall between the two writes of a record.

The assumptions on the constants are the named `ASSUME`s of the modules; TLC
evaluates them in every run. Besides sizes (naturals) and the types of tables
they say:

* a marker (`Absent`, `EmptyAddr`, `NoPipe`) is no value it could be confused
  with: `DataAssumption`, `EntryAssumption`, `TablesAssumption`, `MonitorAssumption`;
* VIPs, server ids, sources, events and clients are finitely many
  (`FiniteAssumption`, `MonitorAssumption`, `SubscriptionsAssumption`), which the
  counting of users and of free room needs;
* every feature, per-core table and `hc_reals_map` is a map the loader knows, and
  the healthchecking object has no `lru_mapping` (`LifecycleAssumption`; it is
  declared in `lib/bpf/balancer_maps.h`, which `healthchecking.bpf.c` does not
  include);
* the forwarding cores are finitely many, and the values a lookup may return instead
  of a key (`NoKey`, `ENOENT`, `EOther`) are told apart (`ConnAssumption`);
* `Requests \subseteq SUBSET Event`: a client asks for events the monitor has; to
  ask for another one is like asking for one whose pipe could not be made.

### Arguments

**Numbers** (`LbControlProofs`) - one induction with

    IndInv == PoolInv /\ VipInv /\ UserType /\ KernelType /\ CallOK

`PoolInv` joins the types of the pool with `NumberConservation` and
`IndexAgrees`, which are not inductive apart from each other: `releaseNum`
finds the address to decrement through `numToReals_`, so the free list stays
right only if the index does. `CallOK` is needed because later steps of a batch
use numbers and addresses that earlier ones put into `call`.
`DecreaseKeepsPool`, `IncreaseKeepsPool` and `ReleaseKeepsPool` say once what
the three helpers preserve; then there is one lemma per action. For the
refinement, each action changes at most one real's number, to a free one
(`IncreaseIdStep`) or to none (`DecreaseIdStep`).

**Users** (`LbControlProofs`) - on top of `IndInv`,

    UserInv == NoCrash /\ Exact /\ BatchInv /\ ClearInv /\ QuicInv

`Exact` is `NoDangling` and `RefCountExact` together: a count can only stay exact
if a real with a count of one, when it loses its last user, is not the one another
user still refers to. The users of a number are three finite sets of VIPs, rules
and ids; `LessUser`, `MoreUser` and `SameUsersKeep` say what one user less, one more
or none does to their sizes, so that each action has to show only which users it
changes. `BatchInv` is what makes batches work: the rest of the batch is without
duplicates, `cur_reals` lies between the VIP's reals and those together with the
reals updated so far, and an address still to come is new if it was new at the
start. `ClearInv` and `QuicInv` say the same of the two other loops.

`RingServesVip` is inductive by itself: `getEndpoints` keeps the old ring only if no
weight changed (`UnchangedServing`), and otherwise the last update of a real decides
(`LastUpdate`). What a new ring holds is taken from `Rings`, which TLC checks of the
two loops (`MakesRing`) and no theorem states. `RealsAgree` is inductive for any caller,
the table of source rules (`LpmAgrees`) for a careful one; `VipMapAgrees` needs
`OneSpelling` next to it, as two VIPs with one key would overwrite and delete each
other's entry. `NoStrayEntries` follows from `NoDangling`: a number that is read is one
in use. `QuicRouteCurrent` needs

    RouteInv == ToUpdateInv /\ ServerIdsInv

because `server_id_map` is written at the end of a batch: in between `to_update`
holds the number. That a bound id keeps its number is taken from the refinement
of `RealIds` (`NumberStays`).

The two theorems about the data path put these together. A packet sees a number only:
`RingReachesReals` follows its way from `ch_ring` through `reals` with `RingServesVip`,
`NoDangling` and `RealsAgree`, outside a call that is changing that VIP and unless a
write to `reals` failed; `UsersKeepReals` needs `NoDangling` on both sides of the step,
because what keeps a number from moving is that it is never freed while it has a user.

**Other tables** (`LbTablesProofs`) - `IndInv == CallType /\ KeyInv /\ DecapAgrees /\
DstInv /\ HeaderInv`, one part per group of tables. The parts hold in the middle of a
call too, where the second of two maps is still to be written: `DstInv` and `HeaderInv`
then follow `call`. `NoteElsewhere` and `NoteFailure` are what the others need of the
record of failed kernel calls.

**Lifecycle** (`LifecycleProofs`) - `IndInv` is `Types`, `CallType`, `LoaderInv` (which
load's map a program is bound to and when a name is shared), `LoadedInv` (what the
flags say of the program that is loaded), `RecircInv`, `AttachInv`, `LruInv` and, for a
careful caller, `CarefulInv`, each by the place of the call in progress (`call.pc`), as
an exception may come at any of them. The hard case of `OneMapPerName` is a reload that
fails half-way through sharing: `LoaderInv` says that a shared name always stands for
the map user space has under it (`sharedMaps_[n] = maps_[n]`), so that a name shared by
a failed reload changes nothing for the program that stays. The same fact gives
`TablesStay`: a load overwrites entries of `maps_`, but meets a known name only where
that is shared, and then binds it to the map that is there. Maps of
`knownDuplicateMaps_` are excepted, as in `OneMapPerName`.

**Capture** (`MonitorProofs`) - `IndInv` is `TypeOK`, `QueueInv` (who waits behind a
full queue), `LimitInv` (a limit is passed by no packet in progress), `RoomInv` (room
kept in a buffer for the record in progress), `CaptureInv` (with a failed write in
the place of what it left out) and, with `OnePipeEach`,
`PipeInv`: of all records in all pipes only the one the writer thread is in may be
half-written (`HalfIn`). `CaptureInv` holds between `resetWriters` and the restart that
is queued behind it because such a message is in the queue (`Restarting`).
`ShutdownComesLast` is the order the destructor relies on: the owner queues nothing
after it and handlers of the event base queue packets only. `ShutdownNears` counts four
for each message in front and the steps left of the one in hand (`Stage`).

**Event pipe** (`EventPipeProofs`) - what lies ahead of the cursor, in `readBuffer_` and
in the pipe, is one stream of whole records (`StreamInv`). `Framed` says of each unit
where its whole record lies, so that no induction over the stream is needed: a write
appends a record (`AppendRecord`), a complete record is the first one (`FirstRecord`,
`DropFirst`), reads and the retreat leave the stream alone (`SameStream`). `MsgInv` and
`ClientInv` relate its first record to the last one the clients got.

**Monitoring service** (`SubscriptionsProofs`) - `IndInv == TypeOK /\ CidInv /\ EventInv
/\ (~CancelAnytime => MapsInv)`. `CidInv` makes ids unique while `curr_cid_` is read and
written in two steps; `MapsInv` says for each place of each thread which of the maps
have its client, which is what `MapsAgree` and `NoEventAfterCancel` are when no thread
is inside.

**TPR** (`TprRouterProofs`) - `IndInv` joins the places of the two threads (`PollerLife`,
`TimerThread`, `CallerPlace`) with what they have done so far (`RouterLife`,
`Descriptor`) and the three properties. `TimerStopped` holds because the timer's thread
is outside `timeoutExpired` when the cancellation runs.

**Connection tables** (`ConnTablesProofs`) - `IndInv == TablesInv /\ CallInv /\
PendingInv /\ AheadInv /\ NothingMissed`. `InOrder` says that a table lists its buckets
in order and no key twice; the helpers that insert and delete keep it. `AheadInv` says
that a walk has passed by nothing that is `pending`: no such entry comes before the key
the walk holds (`NotAfter`). Packets cannot break it, as a new or moved entry goes to
the head of its bucket and the others keep their order; if the key in hand is gone, the
walk begins again at the first key and meets all that is pending once more. `StepsLeft`
is `2 * kLruMaxLookups` for each table still to come, less what is done of this one. A
list that has its entries jumps to the fallback table, which must be one still to come:
`FallbackIsLast`.

Proving was also a test of the models. `throw` in `Lifecycle` had a `CASE` whose guards
overlap; which arm it takes then is not determined, and a proof cannot choose: it is
now an `IF` in the order of the code. An analysis without forwarding cores visits no
table and is not a walk at all. Some assumptions above were not written down
before a proof asked for them. The type invariant of `Subscriptions` is proved
(`TypeCorrect`) and not run: the two properties of its run say more.

### Only model-checked

* `MakesRing`, on small arguments: it is about recursive definitions.
* All liveness: `CallsReturn`, `ShutdownEnds`, `RecordsArrive`, `WalksEnd`,
  `ShutdownReturns`. They need `ENABLED`, which is out of the prover's reach. For
  `WalksEnd` and `ShutdownEnds` the safety half is proved (`CallsNearEnd`;
  `ShutdownIsLast` and `ShutdownNearsEnd`): a measure that falls with every step of the
  one process and that no other can raise. What TLC alone shows is that the process is
  never stuck before its end.
* `lb_dup_del` is a counterexample and needs no proof.

## 6. Findings

`lb_dup_del` - a real named twice in one DEL batch loses two counts; its number
is freed while another VIP has it on its ring (`lib/VsoshlbLb.cpp:1208`).

Observed while modelling, without a run of their own. The modules contain the
behaviour; where a property would fail because of it, the property says so.

Forwarding tables:

* A new real named twice in one ADD batch is counted twice for one VIP, because
  only the branch for known reals adds to `cur_reals`; its number is never freed.
* Adding a source rule again leaks the count of the old destination.
* Overriding a QUIC binding with an empty pool keeps the binding but not its
  count; the id later leads to another address (`lib/VsoshlbLb.cpp:1737`;
  `QuicRouteCurrent` fails with the liberty `remapQuic` and one number).
* `changeHashFunctionForVip` with Maglev may put drained reals (weight 0) back on
  the ring until the next batch that changes something (`rehashDrained`).
* A VIP without a serving real keeps its old ring, deleted reals included
  (`lib/Vip.cpp:31`).
* Two spellings of one IPv6 address are two VIPs in `vips_` and one entry in `vip_map`:
  the later one overwrites it, deleting either removes it for both, and no call fails
  (`lib/VsoshlbLbStructs.h:182`, `lib/VsoshlbLb.cpp:2791`; `KernelAgrees` fails with the
  liberty `aliasVip`).
* `getRealsForVip` (`lib/VsoshlbLb.cpp:1286`) on a VIP that still has a number given
  back - after a duplicate in a DEL batch - leaves the empty address in `numToReals_` and,
  with number 0, in `reals_`; a later release of such a number wraps its count.
* `revalidateServerIds` accepts any pair of id and address and writes it to
  `server_id_map` whatever `quicMapping_` says (`lib/VsoshlbLb.cpp:3040`;
  `QuicRouteCurrent` fails with `revalidateAny`).
* A real whose weight is small beside the others', or that comes late in the order of
  the hashes, may get no place on a full ring (`lib/MaglevHash.cpp:37`).

Capture and monitoring:

* A write to a capture file that fails is logged and nothing else
  (`lib/FileWriter.cpp:15`): a header or record is missing or cut, later ones follow,
  and `packetAmount_` counts the packet. `CaptureWellFormed` and
  `AmountMatchesCapture` say `"lost"` where this may be.
* `resetWriters` says "Writers should have been stopped"; the stop before it is
  only queued. `CaptureWellFormed` and `PipeFramed` hold nevertheless, because
  the restart that follows rewinds the writers.
* The destructor's shutdown message is lost when the queue is full, and `join`
  then waits for ever; `ShutdownEnds` is stated for a message that was queued.
* A pipe writer uses a null pipe before a destination is set and when it is
  taken away during a record (`lib/PipeWriter.cpp:22`, step `nullPipeCrash`).
* A stream that ends during `onClientSubscribed` leaves a client that nobody
  removes (`lib/MonitoringServiceCore.cpp:191`; `NoEventAfterCancel` fails with
  `CancelAnytime`).
* The test of the client limit and the insertion are not one step: two requests
  may exceed it (`lib/MonitoringServiceCore.cpp:100`).

Healthcheck, decap and address tables:

* Healthcheck keys are distinct by spelling; two spellings of one address share a
  kernel entry, and deleting one removes it for both. A key with a bad address
  takes a number and throws.
* `addInlineDecapDst` and `delInlineDecapDst` answer TRUE when the kernel refuses.
* `addSrcIpForPcktEncap` ends at the first map: without direct healthchecking it
  cannot set the source of GUE packets. A reload puts the configured addresses
  back in one of the two maps.
* The tunnel program redirects to an `ifindex` that the text never assigns, and
  `per_hckey_stats` is never incremented.

Lifecycle and loader:

* A load that got past the prototypes of the connection tables cannot be
  repeated: `setInnerMapPrototype` refuses the name for ever. Before it throws it has
  put new tables into `lruMapsFd_` (`lib/VsoshlbLb.cpp:477`), which no map of maps holds:
  the administration calls then walk tables no packet uses.
* After a reload before the first attach (`reloadFirst`) the healthcheck filter
  is never attached; a second attach (`attachAgain`) adds a second filter.
* `installFeature` whose attach throws has loaded the new program; a retry says
  TRUE at once and attaches nothing.
* A program with a flow-debug or global table that comes by reload gets no inner
  map for any core.
* Without `useRootMap` the roll-back and the destructor delete an entry through a
  descriptor that was never assigned.
* `core > kMaxForwardingCores` (line 457) accepts one core number too many.

Connection tables:

* For a wildcard VIP whose flags keep the destination port, `purgeVipLru`,
  `listLru`, `deleteLru` and `searchLru` compare with port 0 and find nothing.
  For VIPs that drop the client's port or address from the key, `deleteLru` and
  `searchLru` look for a key that does not exist (`KeepsPort`, `DropsClient`).
* `analyzeLru` leaves the fallback table out; `searchLru` keeps the error of the
  last table only, ENOENT included.

TCP packet router:

* An `init` that fails after the attach leaves the program attached and a router
  whose `shutdown` does nothing; a second `init` fails, because the skeleton is
  open. When the map of statistics has no descriptor `init` shuts down and
  reports success.
* `v6Id_` is not initialised; `setServerIdV6` with that very value writes nothing.
  After a failed write a retry with the same id says TRUE and writes nothing.
* The poller closes the map's descriptor and the skeleton closes the same number
  again; a timeout that passed its test of `shutdown_` uses it in between.
* A crash leaves the program on the cgroup (a TODO in `init` says so).

## 7. Not modelled, and the plan

Not modelled for good: kernel and libbpf I/O (Netlink, most of the adapters,
perf-buffer polling), the simulator, statistics getters, address formatting,
vendored and generated headers, tests. The configuration of sections, filters
and rate limits in the repository's README has no source. Of the 153 044 lines
counted as implementation, 134 379 are `tpr/bpf/vmlinux.h`, a generated copy of
the kernel's types.

Not modelled because the text does not say what the code does (section 2):

* the packet pipeline of `balancer.bpf.c` beyond the keys of the connection
  tables: the assignments of the real, the protocol and the ring position are
  missing, so a packet's destination is not determined;
* the decapsulation programs: the protocol is never assigned and the bounds
  tests have lost their conditions;
* the exchange of server ids in `tpr/bpf`: the assignment of the received id
  and a condition of the passive handler are missing;
* Maglev and MaglevV2 beyond their loops: the permutation and the position are
  missing, so which place an endpoint gets, and how few places move when a real
  comes or goes, cannot be told.

Left out although the text says it: a capture file that cannot be opened again
(`folly::File` throws in `FileWriter::restart` and ends the writer thread's loop); the
look-up of the fallback map by name failing, which is only logged and leaves that table
out of a walk; the administration calls after a second load (section 6).

What is left for proofs: the safety halves of `RecordsArrive` (a read shortens the
stream in front of a record) and of `ShutdownReturns`, and what a caller with some of
the liberties still has, one liberty at a time.
