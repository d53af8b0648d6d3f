--------------------------- MODULE LifecycleProofs ---------------------------
(* Theorems about Lifecycle and the loader below it, for every set of files and
   maps and any number of loads and processes.                                *)
EXTENDS Lifecycle, TLAPS

(* The inductive invariant *)

Instance == [gen : Nat, path : Path \cup {"none"}, maps : [MapName -> Nat]]
Instances == {progs_[p] : p \in ProgName} \cup {xdp, subprograms} \cup hcFilters

\* An instance of this process is bound to the maps that user space knows.
Fits(i) ==
  /\ i \in Instance
  /\ i.gen <= loads
  /\ i.gen > born => \A n \in MapName \ knownDuplicateMaps_ :
                       i.maps[n] # 0 => i.maps[n] = maps_[n]

\* A loaded program has the maps of its file, and user space knows all of them.
LoadedFrom(p) ==
  /\ progs_[p].gen > born
  /\ progs_[p].path \in Path /\ ObjProg[progs_[p].path] = p
  /\ currentMaps_[p] = ObjMaps[progs_[p].path]
  /\ \A n \in MapName : progs_[p].maps[n] # 0 <=> n \in ObjMaps[progs_[p].path]
  /\ \A n \in ObjMaps[progs_[p].path] : maps_[n] # 0

LoaderInv ==
  /\ loads \in Nat /\ born \in Nat /\ born <= loads
  /\ progs_ \in [ProgName -> Instance]
  /\ maps_ \in [MapName -> Nat] /\ sharedMaps_ \in [MapName -> Nat]
  /\ DOMAIN currentMaps_ = ProgName
  /\ \A p \in ProgName : progs_[p] = NoProg \/ LoadedFrom(p)
  /\ \A n \in MapName \ knownDuplicateMaps_ : sharedMaps_[n] # 0 => sharedMaps_[n] = maps_[n]
  /\ "lru_mapping" \notin innerMapsProto_ =>
       /\ \A n \in MapName : maps_[n] = 0
       /\ \A p \in ProgName : progs_[p] = NoProg
  /\ \A i \in Instances : Fits(i)

LoadPc == {"initLrus", "loadBalancer", "loadHc", "sanity", "gue", "recirculation",
           "ctl", "attachLrus"}
ReloadPc == {"reload", "sanity", "gue", "recirculation", "introspection"}
AttachPc == {"attach", "attachHc"}

\* Where each kind of call can be
CallType ==
  \/ call \in {Idle, Closed}
  \/ /\ call \in [job : {"load", "reload", "install", "remove", "attach"},
                  pc : LoadPc \cup ReloadPc \cup AttachPc, path : BalancerPath,
                  feature : Feature \cup {"none"}, original : BalancerPath,
                  reverting : BOOLEAN]
     /\ \/ call.job = "load" /\ call.pc \in LoadPc
        \/ call.job = "reload" /\ call.pc \in ReloadPc
        \/ call.job = "attach" /\ call.pc \in AttachPc
        \/ call.job \in {"install", "remove"} /\ call.pc \in ReloadPc \cup AttachPc
     /\ call.job = "install" => call.feature \in Feature

Types ==
  /\ config_ \in Config
  /\ balancerProgPath \in BalancerPath
  /\ features_ \subseteq Feature
  /\ progsLoaded_ \in BOOLEAN /\ progsAttached_ \in BOOLEAN /\ progsReloaded_ \in BOOLEAN
  /\ introspectionStarted_ \in BOOLEAN /\ stale \in BOOLEAN /\ leftBehind \in BOOLEAN
  /\ DOMAIN inner = PerCoreMap
  /\ answer \in Feature \cup {"none"}

\* A load that has passed initLrus and has not set progsLoaded_
Loading == call.job = "load" /\ call.pc \notin {"initLrus", "attachLrus"}

\* The features of the loaded balancer, and what initialSanityChecking has found
Discovered == {f \in Feature : isMapInProg(Balancer, FeatureMap[f])}
Sane ==
  /\ progs_[Balancer] # NoProg
  /\ config_.enableHc => progs_[Healthchecker] # NoProg /\ maps_["hc_reals_map"] # 0
  /\ maps_["lru_mapping"] # 0

\* A load gets past initLrus once in the life of a process, so that progs_,
\* progsLoaded_ and the monitor's pipe are set once; only reloads follow.
LoadedInv ==
  /\ progs_[Balancer] # NoProg => progs_[Balancer].path = balancerProgPath
  /\ call.job = "load" => call.path = balancerProgPath
  /\ Loading => "lru_mapping" \in innerMapsProto_ /\ ~progsLoaded_ /\ ~introspectionStarted_
  /\ call.pc \in {"loadHc", "sanity"} =>
       progs_[Balancer] # NoProg /\ progs_[Balancer].path = call.path
  /\ progsLoaded_ \/ call.pc \in {"gue", "recirculation", "ctl", "introspection"} => Sane
  /\ (progsLoaded_ /\ call.pc # "sanity")
       \/ call.pc \in {"gue", "recirculation", "ctl", "introspection"} => features_ = Discovered
  /\ introspectionStarted_ => /\ "lru_mapping" \in innerMapsProto_
                              /\ monitorPipe = maps_["event_pipe"] /\ monitorPipe # 0
  /\ answer # "none" => call = Idle /\ answer \in features_

\* Recirculation is current but while a reload is between the new program and
\* its entry in subprograms, or threw there.
RecircInv ==
  /\ "inlineDecap" \in features_
  /\ \/ progsLoaded_ /\ "reload" \notin threw /\ call.pc \notin {"sanity", "gue", "recirculation"}
     \/ call.pc \in {"ctl", "introspection"}
  => subprograms = progs_[Balancer]

\* What hangs on the interfaces
AttachInv ==
  /\ config_.mode = "noRootMap" => xdp = NoProg
  /\ ~config_.enableHc => hcFilters = {}
  /\ progsAttached_ \/ call.pc = "attachHc" \/ xdp.gen > born => progsLoaded_
  /\ call.pc = "attachHc" /\ config_.mode # "noRootMap" => xdp = progs_[Balancer]
  /\ ~progsAttached_ /\ ~leftBehind =>
       hcFilters = {} /\ (call.pc # "attachHc" => xdp = NoProg)
  /\ call = Closed => ~progsAttached_
  /\ call.pc = "attachLrus" => ~progsAttached_ /\ ~(xdp.gen > born)

\* The balancer of a load that got past the sanity check brings lru_mapping.
LruInv ==
  call.job = "load" =>
    /\ call.pc = "loadBalancer" => maps_["lru_mapping"] = 0
    /\ call.pc \in {"loadHc", "sanity"} /\ maps_["lru_mapping"] # 0 =>
         "lru_mapping" \in ObjMaps[call.path]
    /\ call.pc \in {"gue", "recirculation", "ctl", "attachLrus"} =>
         "lru_mapping" \in ObjMaps[call.path]

\* What a careful caller adds: reloads come after an attach, or after a load that
\* threw, which is never followed by a first attach.
CarefulInv ==
  /\ call.job \in {"reload", "install", "remove"} \/ progsReloaded_
       => progsAttached_ \/ "load" \in threw
  /\ call.job \in {"install", "remove"} => progsAttached_
  /\ call.job \in {"reload", "install", "remove"} /\ call.pc # "reload" => stale
  /\ call.pc \in AttachPc => (progsAttached_ => stale) /\ (progsAttached_ \/ "load" \notin threw)
  /\ progsAttached_ /\ config_.enableHc => progs_[Healthchecker] \in hcFilters
  /\ progsAttached_ /\ ~stale /\ config_.mode # "noRootMap" => xdp = progs_[Balancer]
  /\ progsLoaded_ /\ call.pc # "attachLrus" /\ "load" \notin threw => inner["lru_mapping"] = Core
  /\ progsAttached_ \/ call.pc = "attachHc" \/ xdp.gen > born => inner["lru_mapping"] = Core

IndInv ==
  /\ Types /\ CallType
  /\ LoaderInv /\ LoadedInv /\ RecircInv /\ AttachInv /\ LruInv
  /\ Liberties = {} => CarefulInv
-----------------------------------------------------------------------------
LEMMA Names ==
  /\ ProgName = {Balancer, Healthchecker} /\ Balancer # Healthchecker
  /\ HcPath \in Path /\ ObjProg[HcPath] = Healthchecker /\ HcPath \notin BalancerPath
  /\ "lru_mapping" \notin ObjMaps[HcPath]
  /\ BalancerPath \subseteq Path /\ \A p \in BalancerPath : ObjProg[p] = Balancer
  /\ {"lru_mapping", "hc_reals_map", "event_pipe"} \subseteq MapName
  /\ \A f \in Feature : FeatureMap[f] \in MapName
  /\ "introspection" \in Feature /\ FeatureMap["introspection"] = "event_pipe"
  /\ \A p \in Path : ObjMaps[p] \subseteq MapName /\ ObjProg[p] \in ProgName
<1>1. Balancer # Healthchecker
  BY DEF Balancer, Healthchecker
<1>2. FeatureMap["introspection"] = "event_pipe" /\ "introspection" \in Feature
  BY DEF FeatureMap, Feature
<1>3. {"lru_mapping", "hc_reals_map"} \subseteq MapName /\ \A f \in Feature : FeatureMap[f] \in MapName
  BY LifecycleAssumption DEF PerCoreMap
<1>4. "event_pipe" \in MapName
  BY <1>2, <1>3
<1> QED BY <1>1, <1>2, <1>3, <1>4, LifecycleAssumption, LoaderAssumption
        DEF ProgName, BalancerPath

LEMMA NoProgInstance == NoProg \in Instance /\ NoProg.gen = 0 /\ \A n \in MapName : NoProg.maps[n] = 0
BY DEF NoProg, Instance
-----------------------------------------------------------------------------
(* The loader *)

\* The effect of loading a file, shared by loads and reloads
Loaded(path) ==
  LET p == ObjProg[path] IN
  /\ loads' = loads + 1
  /\ progs_'[p] # NoProg /\ progs_'[p].path = path
  /\ currentMaps_'[p] = ObjMaps[path]
  /\ \A q \in ProgName : q # p => progs_'[q] = progs_[q] /\ currentMaps_'[q] = currentMaps_[q]
  /\ \A n \in MapName : IF n \in ObjMaps[path] THEN maps_'[n] # 0 ELSE maps_'[n] = maps_[n]

(* An object bound to the maps that user space knows, or to new ones where it
   knows none, leaves every program bound to the maps user space knows.       *)
LEMMA ObjectLoad ==
  ASSUME LoaderInv, NEW path \in Path, NEW bound \in [MapName -> Nat], NEW override \in BOOLEAN,
         bpf_object__load(path, bound, override),
         UNCHANGED <<born, xdp, subprograms, hcFilters, innerMapsProto_>>,
         "lru_mapping" \in innerMapsProto_,
         \A n \in MapName : bound[n] # 0,
         \A n \in ObjMaps[path] \ knownDuplicateMaps_ : maps_[n] # 0 => bound[n] = maps_[n],
         sharedMaps_' \in [MapName -> Nat],
         \A n \in MapName \ knownDuplicateMaps_ :
           sharedMaps_'[n] # 0 => maps_[n] # 0 /\ sharedMaps_'[n] = maps_[n]
  PROVE  LoaderInv' /\ Loaded(path)
<1> USE Names, LoaderAssumption
<1> DEFINE p == ObjProg[path]
<1>0. PICK new :
        new = [gen |-> loads + 1, path |-> path,
               maps |-> [n \in MapName |-> IF n \in ObjMaps[path] THEN bound[n] ELSE 0]]
  OBVIOUS
<1>1. /\ new \in Instance /\ new.gen = loads + 1 /\ new.path = path
      /\ \A n \in MapName : new.maps[n] = IF n \in ObjMaps[path] THEN bound[n] ELSE 0
  BY <1>0 DEF Instance, LoaderInv
<1>2. /\ progs_' = [progs_ EXCEPT ![p] = new] /\ loads' = loads + 1
      /\ currentMaps_' = [currentMaps_ EXCEPT ![p] = ObjMaps[path]]
  BY <1>0 DEF bpf_object__load
<1>3. /\ maps_' \in [MapName -> Nat]
      /\ \A n \in MapName : maps_'[n] = IF n \in ObjMaps[path] /\ (override \/ maps_[n] = 0)
                                        THEN bound[n] ELSE maps_[n]
  BY DEF bpf_object__load, LoaderInv
<1>4. /\ p \in ProgName /\ progs_' \in [ProgName -> Instance] /\ progs_'[p] = new
      /\ DOMAIN currentMaps_' = ProgName /\ currentMaps_'[p] = ObjMaps[path]
      /\ \A q \in ProgName : q # p => progs_'[q] = progs_[q] /\ currentMaps_'[q] = currentMaps_[q]
  BY <1>1, <1>2 DEF LoaderInv
<1>5. new # NoProg
  BY <1>1, NoProgInstance DEF LoaderInv
<1>6. Loaded(path)
  BY <1>1, <1>2, <1>3, <1>4, <1>5 DEF Loaded
<1>7. /\ \A n \in MapName : maps_[n] # 0 => maps_'[n] # 0
      /\ \A n \in MapName \ knownDuplicateMaps_ : maps_[n] # 0 => maps_'[n] = maps_[n]
      /\ \A n \in ObjMaps[path] \ knownDuplicateMaps_ : maps_'[n] = bound[n]
  BY <1>3
<1>8. \A q \in ProgName : progs_'[q] = NoProg \/ LoadedFrom(q)'
  <2>1. LoadedFrom(p)'
    BY <1>1, <1>3, <1>4 DEF LoadedFrom, LoaderInv
  <2>2. ASSUME NEW q \in ProgName, q # p, progs_'[q] # NoProg
        PROVE  LoadedFrom(q)'
    <3>1. LoadedFrom(q) /\ progs_'[q] = progs_[q] /\ currentMaps_'[q] = currentMaps_[q]
      BY <1>4, <2>2 DEF LoaderInv
    <3> QED BY <1>7, <3>1 DEF LoadedFrom
  <2> QED BY <2>1, <2>2
<1>9. \A i \in Instances' : Fits(i)'
  <2>1. Instances' \subseteq Instances \cup {new}
    BY <1>4 DEF Instances
  <2>2. Fits(new)'
    BY <1>1, <1>2, <1>7 DEF Fits, LoaderInv
  <2>3. ASSUME NEW i \in Instances PROVE Fits(i)'
    BY <1>2, <1>7 DEF Fits, LoaderInv, Instance
  <2> QED BY <2>1, <2>2, <2>3
<1>10. \A n \in MapName \ knownDuplicateMaps_ : sharedMaps_'[n] # 0 => sharedMaps_'[n] = maps_'[n]
  BY <1>7
<1> QED BY <1>2, <1>3, <1>4, <1>6, <1>8, <1>9, <1>10 DEF LoaderInv

LEMMA LoadStep ==
  ASSUME LoaderInv, NEW path \in Path, loadBpfObject(path, TRUE),
         UNCHANGED <<born, xdp, subprograms, hcFilters>>, "lru_mapping" \in innerMapsProto_
  PROVE  LoaderInv' /\ Loaded(path) /\ progs_[ObjProg[path]] = NoProg
<1> USE LoaderAssumption
<1> DEFINE bound == [n \in MapName |-> IF sharedMaps_[n] # 0 THEN sharedMaps_[n] ELSE loads + 1]
<1>1. /\ ~LoadCollides(path) /\ bpf_object__load(path, bound, TRUE)
      /\ UNCHANGED <<sharedMaps_, innerMapsProto_>>
  BY DEF loadBpfObject
<1>2. bound \in [MapName -> Nat] /\ \A n \in MapName : bound[n] # 0
  BY DEF LoaderInv
<1>3. \A n \in ObjMaps[path] \ knownDuplicateMaps_ : maps_[n] # 0 => bound[n] = maps_[n]
  BY <1>1 DEF LoadCollides, LoaderInv
<1>4. \A n \in MapName \ knownDuplicateMaps_ :
        sharedMaps_'[n] # 0 => maps_[n] # 0 /\ sharedMaps_'[n] = maps_[n]
  BY <1>1 DEF LoaderInv
<1>5. sharedMaps_' \in [MapName -> Nat]
  BY <1>1 DEF LoaderInv
<1> HIDE DEF bound
<1> QED BY <1>1, <1>2, <1>3, <1>4, <1>5, ObjectLoad DEF LoadCollides

LEMMA ReloadStep ==
  ASSUME LoaderInv, NEW path \in Path, reloadBpfObject(path, TRUE),
         UNCHANGED <<born, xdp, subprograms, hcFilters>>
  PROVE  /\ LoaderInv' /\ Loaded(path) /\ progs_[ObjProg[path]] # NoProg
         /\ UNCHANGED innerMapsProto_
         /\ \A n \in MapName : maps_[n] # 0 => maps_'[n] = maps_[n]
<1> USE LoaderAssumption
<1> DEFINE reused == {n \in ObjMaps[path] : sharedMaps_[n] = 0 /\ maps_[n] # 0}
<1> DEFINE shared == [n \in MapName |-> IF n \in reused THEN maps_[n] ELSE sharedMaps_[n]]
<1> DEFINE bound == [n \in MapName |-> IF shared[n] # 0 THEN shared[n] ELSE loads + 1]
<1>1. /\ progs_[ObjProg[path]] # NoProg /\ sharedMaps_' = shared
      /\ bpf_object__load(path, bound, FALSE)
      /\ UNCHANGED innerMapsProto_
  BY DEF reloadBpfObject
<1>2. shared \in [MapName -> Nat]
  BY DEF LoaderInv
<1>3. bound \in [MapName -> Nat] /\ \A n \in MapName : bound[n] # 0
  BY <1>2 DEF LoaderInv
<1>4. \A n \in MapName \ knownDuplicateMaps_ :
        shared[n] # 0 => maps_[n] # 0 /\ shared[n] = maps_[n]
  BY DEF LoaderInv
<1>5. \A n \in ObjMaps[path] \ knownDuplicateMaps_ : maps_[n] # 0 => bound[n] = maps_[n]
  BY DEF LoaderInv
<1>6. "lru_mapping" \in innerMapsProto_
  BY <1>1, Names DEF LoaderInv
<1>7. \A n \in MapName : maps_[n] # 0 => maps_'[n] = maps_[n]
  BY <1>1 DEF bpf_object__load, LoaderInv
<1> HIDE DEF bound, shared
<1> QED BY <1>1, <1>2, <1>3, <1>4, <1>5, <1>6, <1>7, ObjectLoad

(* A reload that fails may have made some maps shared, of those known by name. *)
LEMMA ReloadFails ==
  ASSUME LoaderInv, NEW path \in Path, reloadBpfObject(path, FALSE),
         UNCHANGED <<born, xdp, subprograms, hcFilters>>
  PROVE  /\ LoaderInv'
         /\ UNCHANGED <<progs_, maps_, innerMapsProto_, currentMaps_, bpfObjects_, loads>>
<1> USE LoaderAssumption
<1>1. UNCHANGED <<progs_, maps_, innerMapsProto_, currentMaps_, bpfObjects_, loads>>
  BY DEF reloadBpfObject, loaderVars
<1>2. /\ sharedMaps_' \in [MapName -> Nat]
      /\ \A n \in MapName : sharedMaps_'[n] \in {sharedMaps_[n], maps_[n]}
  BY DEF reloadBpfObject, loaderVars, LoaderInv
<1> QED BY <1>1, <1>2 DEF LoaderInv, LoadedFrom, Instances, Fits

(* Steps that load nothing: what hangs on the interfaces was loaded before. *)
LEMMA LoaderFrame ==
  ASSUME LoaderInv, Instances' \subseteq Instances \cup {NoProg},
         UNCHANGED <<progs_, maps_, sharedMaps_, currentMaps_, loads, born>>,
         innerMapsProto_ \subseteq innerMapsProto_'
  PROVE  LoaderInv'
<1>1. \A p \in ProgName : LoadedFrom(p) => LoadedFrom(p)'
  BY DEF LoadedFrom
<1>2. \A i \in Instances : Fits(i) => Fits(i)'
  BY DEF Fits
<1>3. Fits(NoProg)'
  BY NoProgInstance DEF Fits, LoaderInv
<1> QED BY <1>1, <1>2, <1>3 DEF LoaderInv
-----------------------------------------------------------------------------
(* The steps of the calls *)

USE DEF Idle, Closed, goto, return, LoadPc, ReloadPc, AttachPc,
        loaderVars, lbVars, attachVars, recircVars, procVars

(* Where an exception leaves threw *)
LEMMA Throws ==
  ASSUME throw
  PROVE  /\ call' = Idle /\ UNCHANGED answer
         /\ call.job = "load" => threw' = threw \cup {"load"}
         /\ call.job # "load" /\ call.pc \in {"sanity", "gue", "recirculation"} =>
              threw' = threw \cup {"reload"}
         /\ call.job # "load" /\ call.pc \notin {"sanity", "gue", "recirculation"} =>
              threw' = threw
BY DEF throw

(* A call that begins changes nothing but the call in progress and the answer. *)
LEMMA CallBegins ==
  ASSUME IndInv,
         \/ loadBpfProgs
         \/ \E p \in BalancerPath : reloadBalancerProg(p)
         \/ \E f \in Wanted, p \in BalancerPath, job \in {"install", "remove"} :
              changeFeature(job, f, p)
         \/ attachBpfProgs
         \/ Start
  PROVE  IndInv'
<1> USE LifecycleAssumption DEF IndInv, NewCall
<1>1. UNCHANGED <<loaderVars, lbVars, attachVars, recircVars, config_, born, stale, threw, leftBehind>>
  BY DEF loadBpfProgs, reloadBalancerProg, changeFeature, attachBpfProgs, Start
<1>2. LoaderInv'
  BY <1>1, LoaderFrame DEF Instances
<1>3. ASSUME NEW f \in Wanted, NEW p \in BalancerPath, NEW job \in {"install", "remove"},
             changeFeature(job, f, p)
      PROVE  IndInv'
  <2>1. CASE UNCHANGED call /\ call = Idle /\ answer' \in features_ \cup {"none"}
    <3>1. Types' /\ CallType' /\ LoadedInv' /\ RecircInv' /\ AttachInv' /\ LruInv'
      BY <1>1, <2>1 DEF Types, CallType, LoadedInv, Discovered, isMapInProg, Sane, Loading,
                        RecircInv, AttachInv, LruInv
    <3>2. CarefulInv => CarefulInv'
      BY <1>1, <2>1 DEF CarefulInv
    <3> QED BY <1>2, <3>1, <3>2
  <2>2. CASE /\ call' = NewCall(job, "reload", p, f) /\ answer' = "none"
             /\ call = Idle /\ MayChange
    <3>1. Types' /\ CallType'
      BY <1>1, <2>2 DEF Types, CallType
    <3>2. LoadedInv' /\ RecircInv' /\ AttachInv' /\ LruInv'
      BY <1>1, <2>2 DEF LoadedInv, Discovered, isMapInProg, Sane, Loading,
                        RecircInv, AttachInv, LruInv
    <3>3. Liberties = {} => CarefulInv'
      BY <1>1, <2>2 DEF CarefulInv, MayChange
    <3> QED BY <1>2, <3>1, <3>2, <3>3
  <2> QED BY <1>3, <2>1, <2>2 DEF changeFeature
<1>4. CASE loadBpfProgs
  <2>1. Types' /\ CallType'
    BY <1>1, <1>4 DEF loadBpfProgs, Types, CallType
  <2>2. LoadedInv' /\ RecircInv' /\ AttachInv' /\ LruInv'
    BY <1>1, <1>4 DEF loadBpfProgs, LoadedInv, Discovered, isMapInProg, Sane, Loading,
                      RecircInv, AttachInv, LruInv
  <2>3. CarefulInv => CarefulInv'
    BY <1>1, <1>4 DEF loadBpfProgs, CarefulInv
  <2> QED BY <1>2, <2>1, <2>2, <2>3
<1>5. ASSUME NEW p \in BalancerPath, reloadBalancerProg(p)
      PROVE  IndInv'
  <2>1. Types' /\ CallType'
    BY <1>1, <1>5 DEF reloadBalancerProg, Types, CallType
  <2>2. LoadedInv' /\ RecircInv' /\ AttachInv' /\ LruInv'
    BY <1>1, <1>5 DEF reloadBalancerProg, LoadedInv, Discovered, isMapInProg, Sane, Loading,
                      RecircInv, AttachInv, LruInv
  <2>3. Liberties = {} => CarefulInv'
    BY <1>1, <1>5 DEF reloadBalancerProg, MayReload, CarefulInv
  <2> QED BY <1>2, <2>1, <2>2, <2>3
<1>6. CASE attachBpfProgs
  <2>1. Types' /\ CallType'
    BY <1>1, <1>6 DEF attachBpfProgs, Types, CallType
  <2>2. LoadedInv' /\ RecircInv' /\ AttachInv' /\ LruInv'
    BY <1>1, <1>6 DEF attachBpfProgs, LoadedInv, Discovered, isMapInProg, Sane, Loading,
                      RecircInv, AttachInv, LruInv
  <2>3. Liberties = {} => CarefulInv'
    BY <1>1, <1>6 DEF attachBpfProgs, CarefulInv
  <2> QED BY <1>2, <2>1, <2>2, <2>3
<1>7. CASE Start
  <2>1. Types' /\ CallType' /\ LoadedInv' /\ RecircInv' /\ AttachInv' /\ LruInv'
    BY <1>1, <1>7 DEF Start, Types, CallType, LoadedInv, Discovered, isMapInProg, Sane,
                      Loading, RecircInv, AttachInv, LruInv
  <2>2. CarefulInv => CarefulInv'
    BY <1>1, <1>7 DEF Start, CarefulInv
  <2> QED BY <1>2, <2>1, <2>2
<1> QED BY <1>3, <1>4, <1>5, <1>6, <1>7

(* The end of a process: nothing of it is left but what hangs on the interfaces,
   and none of that counts as its successor's.                                *)
LEMMA ProcessEnds ==
  ASSUME IndInv, processEnds, xdp' \in {xdp, NoProg}, hcFilters' \subseteq hcFilters,
         leftBehind' \in BOOLEAN, ~leftBehind' => xdp' = NoProg /\ hcFilters' = {}
  PROVE  IndInv'
<1> USE Names, NoProgInstance DEF IndInv
<1>1. /\ born' = loads /\ loads' = loads /\ loads \in Nat
      /\ Instances' \subseteq Instances \cup {NoProg}
  BY DEF processEnds, Instances, LoaderInv
<1>2. \A i \in Instances' : i \in Instance /\ i.gen <= loads
  BY <1>1 DEF LoaderInv, Fits
<1>3. LoaderInv'
  <2>1. \A i \in Instances' : Fits(i)'
    BY <1>1, <1>2 DEF Fits, Instance
  <2>2. progs_' \in [ProgName -> Instance] /\ \A p \in ProgName : progs_'[p] = NoProg
    BY DEF processEnds
  <2> QED BY <1>1, <2>1, <2>2 DEF LoaderInv, processEnds
<1>4. ~(xdp'.gen > born')
  BY <1>1, <1>2 DEF Instances, Instance
<1>5. Types' /\ CallType'
  BY DEF processEnds, Types, CallType, Config
<1>6. LoadedInv' /\ RecircInv' /\ LruInv'
  BY DEF processEnds, LoadedInv, Loading, RecircInv, LruInv
<1>7. AttachInv'
  BY <1>4 DEF processEnds, AttachInv
<1>8. CarefulInv'
  BY <1>4 DEF processEnds, CarefulInv
<1> QED BY <1>3, <1>5, <1>6, <1>7, <1>8

LEMMA EndStep == ASSUME IndInv, destroy \/ Crash PROVE IndInv'
<1>1. processEnds /\ xdp' \in {xdp, NoProg} /\ hcFilters' \subseteq hcFilters
  BY DEF destroy, Crash, detachMain
<1>2. leftBehind' \in BOOLEAN /\ (~leftBehind' => xdp' = NoProg /\ hcFilters' = {})
  <2>1. CASE Crash
    BY <2>1 DEF Crash, IndInv, Types
  <2>2. CASE destroy /\ progsAttached_ /\ config_.cleanupOnShutdown
    BY <2>2 DEF destroy, detachMain, IndInv, Types, Config, AttachInv, DetachOutcomes
  <2>3. CASE destroy /\ ~(progsAttached_ /\ config_.cleanupOnShutdown)
    BY <2>3 DEF destroy, IndInv, Types, AttachInv
  <2> QED BY <2>1, <2>2, <2>3
<1> QED BY <1>1, <1>2, ProcessEnds

(* loadBpfProgs up to its programs.  Past initLrus nothing was loaded before. *)
LEMMA InitLrusStep == ASSUME IndInv, initLrus PROVE IndInv'
<1> USE DEF IndInv
<1>1. /\ UNCHANGED <<progs_, maps_, sharedMaps_, currentMaps_, bpfObjects_, loads, lbVars,
                     attachVars, recircVars, procVars, stale, leftBehind, answer>>
      /\ innerMapsProto_ \subseteq innerMapsProto_'
      /\ call.pc = "initLrus" /\ call.job = "load"
      /\ \/ /\ "lru_mapping" \notin innerMapsProto_ /\ "lru_mapping" \in innerMapsProto_'
            /\ call' = [call EXCEPT !.pc = "loadBalancer"] /\ UNCHANGED threw
         \/ throw
  BY DEF initLrus, setInnerMapPrototype, Throws, throw, CallType, PerCoreMap
<1>2. LoaderInv'
  BY <1>1, LoaderFrame DEF Instances
<1>3. CASE throw
  <2>1. call' = Idle /\ threw' = threw \cup {"load"}
    BY <1>1, <1>3, Throws
  <2>2. Types' /\ CallType' /\ AttachInv' /\ LruInv'
    BY <1>1, <2>1 DEF Types, CallType, AttachInv, LruInv
  <2>3. LoadedInv' /\ RecircInv'
    BY <1>1, <2>1 DEF LoadedInv, Loading, Sane, Discovered, isMapInProg, RecircInv
  <2>4. CarefulInv => CarefulInv'
    BY <1>1, <2>1 DEF CarefulInv
  <2> QED BY <1>2, <2>2, <2>3, <2>4
<1>4. CASE /\ "lru_mapping" \notin innerMapsProto_ /\ "lru_mapping" \in innerMapsProto_'
           /\ call' = [call EXCEPT !.pc = "loadBalancer"] /\ UNCHANGED threw
  <2>1. progs_[Balancer] = NoProg /\ maps_["lru_mapping"] = 0
    BY <1>4, Names DEF LoaderInv
  <2>2. call' \in [job : {"load"}, pc : {"loadBalancer"}, path : BalancerPath,
                   feature : Feature \cup {"none"}, original : BalancerPath, reverting : BOOLEAN]
          /\ call'.path = call.path
    BY <1>1, <1>4 DEF CallType
  <2>3. Types' /\ CallType' /\ AttachInv' /\ LruInv'
    BY <1>1, <2>1, <2>2 DEF Types, CallType, AttachInv, LruInv
  <2>4. ~progsLoaded_ /\ ~introspectionStarted_ /\ "lru_mapping" \in innerMapsProto_'
    BY <1>4, <2>1 DEF LoadedInv, Sane
  <2>5. LoadedInv' /\ RecircInv'
    BY <1>1, <2>1, <2>2, <2>4 DEF LoadedInv, Loading, Sane, Discovered, isMapInProg,
                                  RecircInv, CallType
  <2>6. CarefulInv => CarefulInv'
    BY <1>1, <1>4, <2>2, <2>4 DEF CarefulInv
  <2> QED BY <1>2, <2>3, <2>5, <2>6
<1> QED BY <1>1, <1>3, <1>4

(* The two files are loaded once in the life of a process. *)
LEMMA LoadFileStep == ASSUME IndInv, loadBalancer \/ loadHc PROVE IndInv'
<1> USE Names DEF IndInv
<1> DEFINE path == IF call.pc = "loadBalancer" THEN call.path ELSE HcPath
<1>1. /\ UNCHANGED <<lbVars, attachVars, recircVars, procVars, stale, leftBehind>>
      /\ call.job = "load" /\ call.pc \in {"loadBalancer", "loadHc"}
      /\ path \in Path /\ call.path \in BalancerPath
      /\ ObjProg[path] = IF call.pc = "loadBalancer" THEN Balancer ELSE Healthchecker
  BY DEF loadBalancer, loadHc, CallType
<1>2. \/ loadBpfObject(path, FALSE) /\ throw
      \/ /\ loadBpfObject(path, TRUE) /\ UNCHANGED <<threw, answer>>
         /\ call' = [call EXCEPT !.pc = IF call.pc = "loadBalancer" /\ config_.enableHc
                                        THEN "loadHc" ELSE "sanity"]
  BY DEF loadBalancer, loadHc
<1>3. CASE loadBpfObject(path, FALSE) /\ throw
  <2>1. UNCHANGED loaderVars /\ call' = Idle /\ threw' = threw \cup {"load"} /\ UNCHANGED answer
    BY <1>1, <1>3, Throws DEF loadBpfObject
  <2>2. LoaderInv'
    BY <1>1, <2>1, LoaderFrame DEF Instances
  <2>3. Types' /\ CallType' /\ AttachInv' /\ LruInv'
    BY <1>1, <2>1 DEF Types, CallType, AttachInv, LruInv
  <2>4. LoadedInv' /\ RecircInv'
    BY <1>1, <2>1 DEF LoadedInv, Loading, Sane, Discovered, isMapInProg, RecircInv
  <2>5. CarefulInv => CarefulInv'
    BY <1>1, <2>1 DEF CarefulInv
  <2> QED BY <2>2, <2>3, <2>4, <2>5
<1>4. CASE /\ loadBpfObject(path, TRUE) /\ UNCHANGED <<threw, answer>>
           /\ call' = [call EXCEPT !.pc = IF call.pc = "loadBalancer" /\ config_.enableHc
                                          THEN "loadHc" ELSE "sanity"]
  <2>1. Loading /\ "lru_mapping" \in innerMapsProto_ /\ ~progsLoaded_ /\ ~introspectionStarted_
    BY <1>1 DEF LoadedInv, Loading
  <2>2. LoaderInv' /\ Loaded(path) /\ progs_[ObjProg[path]] = NoProg
    <3> HIDE DEF path
    <3> QED BY <1>1, <1>4, <2>1, LoadStep
  <2>3. UNCHANGED <<innerMapsProto_, sharedMaps_>>
    BY <1>4 DEF loadBpfObject
  <2>4. /\ call' \in [job : {"load"}, pc : {"loadHc", "sanity"}, path : BalancerPath,
                      feature : Feature \cup {"none"}, original : BalancerPath,
                      reverting : BOOLEAN]
        /\ call'.path = call.path
    BY <1>1, <1>4 DEF CallType
  <2>5. Types' /\ CallType'
    BY <1>1, <1>4, <2>4 DEF Types, CallType
  <2>6. progs_'[Balancer] # NoProg /\ progs_'[Balancer].path = call.path
          /\ call.path = balancerProgPath
    BY <1>1, <2>2 DEF Loaded, LoadedInv
  <2>7. LoadedInv' /\ RecircInv'
    BY <1>1, <1>4, <2>1, <2>3, <2>4, <2>6 DEF LoadedInv, Loading, RecircInv
  <2>8. AttachInv'
    BY <1>1, <2>1, <2>4 DEF AttachInv
  <2>9. LruInv'
    BY <1>1, <2>2, <2>4 DEF Loaded, LruInv
  <2>10. CarefulInv => CarefulInv'
    BY <1>1, <1>4, <2>1, <2>4 DEF CarefulInv, AttachInv
  <2> QED BY <2>2, <2>5, <2>7, <2>8, <2>9, <2>10
<1> QED BY <1>2, <1>3, <1>4

(* The steps that a load and a reload share.  Whatever a reload has replaced,
   the maps that the sanity check wants are known by name already.            *)
LEMMA SanityStep == ASSUME IndInv, sanity PROVE IndInv'
<1> USE DEF IndInv
<1>1. /\ UNCHANGED <<loaderVars, progsLoaded_, progsReloaded_, introspectionStarted_,
                     monitorPipe, balancerProgPath, attachVars, recircVars, procVars,
                     stale, leftBehind, answer>>
      /\ call.pc = "sanity"
  BY DEF sanity, throw
<1>2. LoaderInv'
  BY <1>1, LoaderFrame DEF Instances
<1>3. progs_[Balancer] # NoProg /\ progs_[Balancer].path = call.path /\ call.path \in BalancerPath
  BY <1>1 DEF LoadedInv, CallType
<1>4. CASE SanityOk /\ featureDiscovering /\ goto("gue")
  <2>1. Sane /\ features_' = Discovered /\ UNCHANGED threw
    BY <1>4 DEF SanityOk, Sane, featureDiscovering, Discovered
  <2>2. call' = [call EXCEPT !.pc = "gue"]
    BY <1>4
  <2>3. Types' /\ CallType'
    BY <1>1, <2>1, <2>2 DEF Types, CallType, Discovered
  <2>4. LoadedInv' /\ RecircInv'
    BY <1>1, <1>3, <2>1, <2>2 DEF LoadedInv, Loading, Sane, Discovered, isMapInProg,
                                  RecircInv, CallType
  <2>5. AttachInv' /\ LruInv'
    BY <1>1, <2>1, <2>2 DEF AttachInv, LruInv, CallType, Sane
  <2>6. CarefulInv => CarefulInv'
    BY <1>1, <2>1, <2>2 DEF CarefulInv, CallType
  <2> QED BY <1>2, <2>3, <2>4, <2>5, <2>6
<1>5. CASE ~SanityOk /\ throw /\ UNCHANGED features_
  <2>1. call' = Idle
    BY <1>5, Throws
  <2>2. ~progsLoaded_
    <3>1. LoadedFrom(Balancer)
      BY <1>3, Names DEF LoaderInv
    <3>2. \A n \in PerCoreMap \cap ObjMaps[call.path] : maps_[n] # 0
      BY <1>3, <3>1 DEF LoadedFrom
    <3>3. Sane => SanityOk
      BY <3>2 DEF Sane, SanityOk
    <3> QED BY <1>5, <3>3 DEF LoadedInv
  <2>3. threw' \in {threw \cup {"load"}, threw \cup {"reload"}}
          /\ (call.job = "load" => "load" \in threw')
    BY <1>1, <1>5, Throws
  <2>4. Types' /\ CallType' /\ AttachInv' /\ LruInv'
    BY <1>1, <1>5, <2>1 DEF Types, CallType, AttachInv, LruInv
  <2>5. LoadedInv' /\ RecircInv'
    BY <1>1, <1>5, <2>1, <2>2 DEF LoadedInv, Loading, Sane, Discovered, isMapInProg, RecircInv
  <2>6. CarefulInv => CarefulInv'
    BY <1>1, <2>1, <2>2, <2>3 DEF CarefulInv, AttachInv
  <2> QED BY <1>2, <2>4, <2>5, <2>6
<1> QED BY <1>4, <1>5 DEF sanity

LEMMA RecirculationStep == ASSUME IndInv, setupGue \/ enableRecirculation PROVE IndInv'
<1> USE DEF IndInv
<1>1. /\ UNCHANGED <<loaderVars, lbVars, attachVars, inner, procVars, stale, leftBehind, answer>>
      /\ call.pc \in {"gue", "recirculation"}
      /\ subprograms' \in {subprograms, progs_[Balancer]}
  BY DEF setupGue, enableRecirculation, throw
<1>2. LoaderInv'
  BY <1>1, Names, LoaderFrame DEF Instances
<1>3. CASE throw /\ UNCHANGED subprograms
  <2>1. call' = Idle
          /\ threw' = IF call.job = "load" THEN threw \cup {"load"} ELSE threw \cup {"reload"}
    BY <1>1, <1>3, Throws
  <2>2. call.job = "load" => ~progsLoaded_
    BY <1>1 DEF LoadedInv, Loading
  <2>3. Types' /\ CallType' /\ AttachInv' /\ LruInv'
    BY <1>1, <2>1 DEF Types, CallType, AttachInv, LruInv
  <2>4. LoadedInv' /\ RecircInv'
    BY <1>1, <1>3, <2>1, <2>2 DEF LoadedInv, Loading, Sane, Discovered, isMapInProg, RecircInv
  <2>5. CarefulInv => CarefulInv'
    BY <1>1, <2>1, <2>2 DEF CarefulInv
  <2> QED BY <1>2, <2>3, <2>4, <2>5
<1>4. CASE /\ UNCHANGED threw
           /\ \/ call.pc = "gue" /\ call' = [call EXCEPT !.pc = "recirculation"]
                 /\ UNCHANGED subprograms
              \/ /\ call.pc = "recirculation"
                 /\ call' = [call EXCEPT !.pc = IF call.job = "load" THEN "ctl"
                                                ELSE "introspection"]
                 /\ "inlineDecap" \in features_ => subprograms' = progs_[Balancer]
  <2>1. Types' /\ CallType'
    BY <1>1, <1>4 DEF Types, CallType
  <2>2. LoadedInv' /\ RecircInv'
    BY <1>1, <1>4 DEF LoadedInv, Loading, Sane, Discovered, isMapInProg, RecircInv, CallType
  <2>3. AttachInv' /\ LruInv'
    BY <1>1, <1>4 DEF AttachInv, LruInv, CallType
  <2>4. CarefulInv => CarefulInv'
    BY <1>1, <1>4 DEF CarefulInv, CallType
  <2> QED BY <1>2, <2>1, <2>2, <2>3, <2>4
<1> QED BY <1>3, <1>4 DEF setupGue, enableRecirculation

(* startIntrospectionRoutines finds the event pipe of a balancer that has one. *)
LEMMA IntrospectionStarts ==
  ASSUME LoaderInv, LoadedInv, startIntrospectionRoutines, call.pc \in {"ctl", "introspection"}
  PROVE  /\ introspectionStarted_' \in {introspectionStarted_, TRUE}
         /\ introspectionStarted_' => /\ "lru_mapping" \in innerMapsProto_
                                      /\ monitorPipe' = maps_["event_pipe"] /\ monitorPipe' # 0
<1> USE Names
<1>1. CASE "introspection" \in features_ /\ ~introspectionStarted_
  <2>1. progs_[Balancer] # NoProg /\ features_ = Discovered
    BY DEF LoadedInv, Sane
  <2>2. LoadedFrom(Balancer) /\ "lru_mapping" \in innerMapsProto_
    BY <2>1 DEF LoaderInv
  <2>3. "event_pipe" \in currentMaps_[Balancer]
    BY <1>1, <2>1 DEF Discovered, isMapInProg
  <2>4. maps_["event_pipe"] # 0
    BY <2>2, <2>3 DEF LoadedFrom
  <2> QED BY <1>1, <2>2, <2>4 DEF startIntrospectionRoutines
<1>2. CASE ~("introspection" \in features_ /\ ~introspectionStarted_)
  BY <1>2 DEF startIntrospectionRoutines, LoadedInv
<1> QED BY <1>1, <1>2

LEMMA FinishLoadStep == ASSUME IndInv, finishLoad PROVE IndInv'
<1> USE DEF IndInv
<1>1. /\ UNCHANGED <<loaderVars, features_, progsReloaded_, balancerProgPath, attachVars,
                     recircVars, procVars, stale, leftBehind, answer>>
      /\ call.pc = "ctl" /\ call.job = "load"
  BY DEF finishLoad, throw, CallType
<1>2. LoaderInv'
  BY <1>1, LoaderFrame DEF Instances
<1>3. ~progsLoaded_ /\ ~progsAttached_ /\ ~(xdp.gen > born)
  BY <1>1 DEF LoadedInv, Loading, AttachInv
<1>4. CASE progsLoaded_' = TRUE /\ startIntrospectionRoutines /\ goto("attachLrus")
  <2>1. /\ introspectionStarted_' \in {introspectionStarted_, TRUE}
        /\ introspectionStarted_' => /\ "lru_mapping" \in innerMapsProto_
                                     /\ monitorPipe' = maps_["event_pipe"] /\ monitorPipe' # 0
    BY <1>1, <1>4, IntrospectionStarts
  <2>2. call' = [call EXCEPT !.pc = "attachLrus"] /\ UNCHANGED threw /\ progsLoaded_' = TRUE
    BY <1>4
  <2>3. Types' /\ CallType'
    <3>1. Types'
      BY <1>1, <2>1, <2>2 DEF Types
    <3>2. CallType'
      BY <1>1, <2>2 DEF CallType
    <3> QED BY <3>1, <3>2
  <2>4. LoadedInv' /\ RecircInv'
    BY <1>1, <2>1, <2>2 DEF LoadedInv, Loading, Sane, Discovered, isMapInProg, RecircInv, CallType
  <2>5. AttachInv' /\ LruInv'
    BY <1>1, <1>3, <2>2 DEF AttachInv, LruInv, CallType
  <2>6. CarefulInv => CarefulInv'
    BY <1>1, <1>3, <2>2 DEF CarefulInv, CallType
  <2> QED BY <1>2, <2>3, <2>4, <2>5, <2>6
<1>5. CASE throw /\ UNCHANGED <<progsLoaded_, introspectionStarted_, monitorPipe>>
  <2>1. call' = Idle /\ threw' = threw \cup {"load"}
    BY <1>1, <1>5, Throws
  <2>2. Types' /\ CallType' /\ AttachInv' /\ LruInv'
    BY <1>1, <1>5, <2>1 DEF Types, CallType, AttachInv, LruInv
  <2>3. LoadedInv' /\ RecircInv'
    BY <1>1, <1>3, <1>5, <2>1 DEF LoadedInv, Loading, Sane, Discovered, isMapInProg, RecircInv
  <2>4. CarefulInv => CarefulInv'
    BY <1>1, <1>3, <1>5, <2>1 DEF CarefulInv
  <2> QED BY <1>2, <2>2, <2>3, <2>4
<1> QED BY <1>4, <1>5 DEF finishLoad

LEMMA AttachLrusStep == ASSUME IndInv, attachLrus PROVE IndInv'
<1> USE DEF IndInv
<1>1. /\ UNCHANGED <<loaderVars, lbVars, attachVars, subprograms, procVars, stale, leftBehind,
                     answer>>
      /\ call.pc = "attachLrus" /\ call.job = "load"
  <2>1. call.job = "load"
    BY DEF attachLrus, CallType
  <2>2. UNCHANGED answer
    BY Throws DEF attachLrus
  <2> QED BY <2>1, <2>2 DEF attachLrus
<1>0. call' = Idle /\ DOMAIN inner' = PerCoreMap
  <2>1. call' = Idle
    BY Throws DEF attachLrus
  <2>2. DOMAIN inner' = PerCoreMap
    BY DEF attachLrus
  <2> QED BY <2>1, <2>2
<1>2. \/ inner'["lru_mapping"] = Core /\ UNCHANGED threw
      \/ threw' = threw \cup {"load"}
  <2> DEFINE mine == PerCoreMap \cap ObjMaps[call.path]
  <2>1. "lru_mapping" \in PerCoreMap /\ "lru_mapping" \in mine
    BY <1>1 DEF LruInv, PerCoreMap
  <2>2. CASE throw
    BY <1>1, <2>2, Throws
  <2>3. CASE inner' = [n \in PerCoreMap |-> IF n \in mine THEN Core ELSE inner[n]] /\ return
    BY <2>1, <2>3
  <2> QED BY <2>2, <2>3 DEF attachLrus
<1>3. LoaderInv'
  BY <1>1, LoaderFrame DEF Instances
<1>4. ~progsAttached_ /\ ~(xdp.gen > born)
  BY <1>1 DEF AttachInv
<1>5. Types' /\ CallType' /\ AttachInv' /\ LruInv'
  BY <1>0, <1>1 DEF Types, CallType, AttachInv, LruInv
<1>6. LoadedInv' /\ RecircInv'
  BY <1>0, <1>1, <1>2 DEF LoadedInv, Loading, Sane, Discovered, isMapInProg, RecircInv
<1>7. CarefulInv => CarefulInv'
  BY <1>0, <1>1, <1>2, <1>4 DEF CarefulInv
<1> QED BY <1>3, <1>5, <1>6, <1>7

(* Reloads.  A new program works on the maps of the old one, so that nothing the
   monitor reads or the sanity check wants is replaced.                        *)
LEMMA ReloadCallStep == ASSUME IndInv, reload PROVE IndInv'
<1> USE Names DEF IndInv
<1>1. /\ UNCHANGED <<features_, progsLoaded_, progsReloaded_, introspectionStarted_,
                     monitorPipe, attachVars, recircVars, procVars, leftBehind>>
      /\ call.pc = "reload"
  BY DEF reload
<1>2. /\ call.job \in {"reload", "install", "remove"}
      /\ call \in [job : {"reload", "install", "remove"}, pc : {"reload"}, path : BalancerPath,
                   feature : Feature \cup {"none"}, original : BalancerPath,
                   reverting : BOOLEAN]
      /\ call.job = "install" => call.feature \in Feature
  BY <1>1 DEF CallType
<1>3. call.path \in Path /\ ObjProg[call.path] = Balancer /\ answer = "none"
  BY <1>1, <1>2 DEF LoadedInv
<1>4. CASE /\ reloadBpfObject(call.path, TRUE) /\ balancerProgPath' = call.path
           /\ stale' = TRUE /\ goto("sanity")
  <2> DEFINE path == call.path
  <2>1. /\ LoaderInv' /\ Loaded(path) /\ progs_[ObjProg[path]] # NoProg
        /\ UNCHANGED innerMapsProto_
        /\ \A n \in MapName : maps_[n] # 0 => maps_'[n] = maps_[n]
    <3> HIDE DEF path
    <3> QED BY <1>1, <1>3, <1>4, ReloadStep DEF path
  <2>2. /\ progs_'[Balancer] # NoProg /\ progs_'[Balancer].path = call.path
        /\ progs_'[Healthchecker] = progs_[Healthchecker]
    BY <1>3, <2>1 DEF Loaded
  <2>3. /\ call' \in [job : {"reload", "install", "remove"}, pc : {"sanity"},
                      path : BalancerPath, feature : Feature \cup {"none"},
                      original : BalancerPath, reverting : BOOLEAN]
        /\ call'.path = call.path /\ call'.job = call.job /\ call'.feature = call.feature
        /\ UNCHANGED <<answer, threw>>
    BY <1>2, <1>4
  <2>4. Types'
    BY <1>1, <1>2, <1>4, <2>3 DEF Types
  <2>5. CallType'
    BY <1>2, <2>3 DEF CallType
  <2>6. LoadedInv'
    <3>1. Sane => Sane'
      BY <1>1, <2>1, <2>2 DEF Sane
    <3>2. introspectionStarted_ => monitorPipe = maps_'["event_pipe"] /\ monitorPipe # 0
      BY <2>1 DEF LoadedInv
    <3> QED BY <1>1, <1>3, <1>4, <2>1, <2>2, <2>3, <3>1, <3>2 DEF LoadedInv, Loading
  <2>7. RecircInv' /\ AttachInv' /\ LruInv'
    BY <1>1, <2>3 DEF RecircInv, AttachInv, LruInv
  <2>8. CarefulInv => CarefulInv'
    BY <1>1, <1>2, <1>4, <2>2, <2>3 DEF CarefulInv
  <2> QED BY <2>1, <2>4, <2>5, <2>6, <2>7, <2>8
<1>5. ASSUME /\ reloadBpfObject(call.path, FALSE) /\ UNCHANGED <<balancerProgPath, answer, threw>>
             /\ stale' = stale
             /\ \/ call' = Idle
                \/ call' = [call EXCEPT !.path = call.original, !.reverting = TRUE]
      PROVE  IndInv'
  <2>1. /\ LoaderInv'
        /\ UNCHANGED <<progs_, maps_, innerMapsProto_, currentMaps_, bpfObjects_, loads>>
    BY <1>1, <1>3, <1>5, ReloadFails
  <2>2. \/ call' = Idle
        \/ /\ call' \in [job : {"reload", "install", "remove"}, pc : {"reload"},
                         path : BalancerPath, feature : Feature \cup {"none"},
                         original : BalancerPath, reverting : BOOLEAN]
           /\ call'.job = call.job /\ call'.feature = call.feature
    BY <1>2, <1>5
  <2>3. Types'
    BY <1>1, <1>5 DEF Types
  <2>4. CallType'
    BY <1>2, <2>2 DEF CallType
  <2>5. LoadedInv' /\ RecircInv'
    BY <1>1, <1>2, <1>3, <1>5, <2>1, <2>2 DEF LoadedInv, Loading, Sane, Discovered, isMapInProg,
                                              RecircInv
  <2>6. AttachInv' /\ LruInv'
    BY <1>1, <1>2, <2>1, <2>2 DEF AttachInv, LruInv
  <2>7. CarefulInv => CarefulInv'
    BY <1>1, <1>2, <1>5, <2>1, <2>2 DEF CarefulInv
  <2> QED BY <2>1, <2>3, <2>4, <2>5, <2>6, <2>7
<1> QED
  <2>1. PICK ok \in BOOLEAN :
          /\ reloadBpfObject(call.path, ok)
          /\ balancerProgPath' = IF ok THEN call.path ELSE balancerProgPath
          /\ stale' = (stale \/ ok)
          /\ \/ ok /\ goto("sanity")
             \/ /\ ~ok /\ UNCHANGED <<answer, threw>>
                /\ \/ call' = Idle
                   \/ call' = [call EXCEPT !.path = call.original, !.reverting = TRUE]
    BY DEF reload
  <2>2. CASE ok = TRUE
    BY <1>4, <2>1, <2>2 DEF Types
  <2>3. CASE ok = FALSE
    BY <1>5, <2>1, <2>3 DEF Types
  <2> QED BY <2>2, <2>3

LEMMA FinishReloadStep == ASSUME IndInv, finishReload PROVE IndInv'
<1> USE DEF IndInv
<1>1. /\ UNCHANGED <<loaderVars, features_, progsLoaded_, balancerProgPath, attachVars,
                     recircVars, procVars, stale, leftBehind, answer>>
      /\ call.pc = "introspection" /\ progsReloaded_' = TRUE /\ threw' = threw \ {"reload"}
  BY DEF finishReload
<1>2. /\ call.job \in {"reload", "install", "remove"}
      /\ call.job = "install" => call.feature \in Feature
      /\ call' = Idle \/ (call.job # "reload" /\ call' = [call EXCEPT !.pc = "attach"])
  BY <1>1 DEF finishReload, CallType
<1>3. /\ introspectionStarted_' \in {introspectionStarted_, TRUE}
      /\ introspectionStarted_' => /\ "lru_mapping" \in innerMapsProto_
                                   /\ monitorPipe' = maps_["event_pipe"] /\ monitorPipe' # 0
  BY <1>1, IntrospectionStarts DEF finishReload
<1>4. LoaderInv'
  BY <1>1, LoaderFrame DEF Instances
<1>5. \/ call' = Idle
      \/ /\ call.job # "reload" /\ call'.job = call.job /\ call'.feature = call.feature
         /\ call' \in [job : {"install", "remove"}, pc : {"attach"}, path : BalancerPath,
                       feature : Feature \cup {"none"}, original : BalancerPath,
                       reverting : BOOLEAN]
  BY <1>1, <1>2 DEF CallType
<1>6. Types'
  BY <1>1, <1>3 DEF Types
<1>7. CallType'
  BY <1>2, <1>5 DEF CallType
<1>8. LoadedInv'
  BY <1>1, <1>3, <1>5 DEF LoadedInv, Loading, Sane, Discovered, isMapInProg
<1>9. RecircInv' /\ AttachInv' /\ LruInv'
  BY <1>1, <1>5 DEF RecircInv, AttachInv, LruInv
<1>10. CarefulInv => CarefulInv'
  BY <1>1, <1>2, <1>5 DEF CarefulInv
<1> QED BY <1>4, <1>6, <1>7, <1>8, <1>9, <1>10

(* Attaching.  Where the caller is careful, a first attach never follows a load
   that threw, and a later one follows a reload.                              *)
LEMMA AttachMainStep == ASSUME IndInv, attachMain PROVE IndInv'
<1> USE Names DEF IndInv
<1>1. /\ UNCHANGED <<loaderVars, lbVars, progsAttached_, hcFilters, recircVars, procVars,
                     stale, leftBehind, answer, threw>>
      /\ call.pc = "attach" /\ call.job \in {"attach", "install", "remove"}
  <2>1. call.pc = "attach" /\ call.job \in {"attach", "install", "remove"}
    BY DEF attachMain, CallType
  <2>2. UNCHANGED <<answer, threw>>
    BY <2>1, Throws DEF attachMain
  <2> QED BY <2>1, <2>2 DEF attachMain
<1>2. \/ call' = Idle /\ UNCHANGED xdp
      \/ /\ call' = [call EXCEPT !.pc = "attachHc"] /\ progsLoaded_
         /\ xdp' = IF config_.mode = "noRootMap" THEN xdp ELSE progs_[Balancer]
  BY <1>1, Throws DEF attachMain
<1>3. LoaderInv'
  BY <1>1, <1>2, LoaderFrame DEF Instances
<1>4. \/ call' = Idle
      \/ /\ call'.job = call.job /\ call'.feature = call.feature
         /\ call' \in [job : {"attach", "install", "remove"}, pc : {"attachHc"},
                       path : BalancerPath, feature : Feature \cup {"none"},
                       original : BalancerPath, reverting : BOOLEAN]
  BY <1>1, <1>2 DEF CallType
<1>5. Types'
  BY <1>1 DEF Types
<1>6. CallType'
  BY <1>1, <1>4 DEF CallType
<1>7. LoadedInv' /\ RecircInv'
  BY <1>1, <1>4 DEF LoadedInv, Loading, Sane, Discovered, isMapInProg, RecircInv
<1>8. AttachInv' /\ LruInv'
  BY <1>1, <1>2, <1>4 DEF AttachInv, LruInv
<1>9. CarefulInv => CarefulInv'
  BY <1>1, <1>2, <1>4 DEF CarefulInv
<1> QED BY <1>3, <1>5, <1>6, <1>7, <1>8, <1>9

LEMMA AttachHcFailsStep == ASSUME IndInv, attachHcFails PROVE IndInv'
<1> USE DEF IndInv
<1>1. /\ UNCHANGED <<loaderVars, lbVars, progsAttached_, rootMapFd_, hcFilters, recircVars,
                     procVars, stale, answer, threw>>
      /\ call.pc = "attachHc" /\ call.job \in {"attach", "install", "remove"} /\ call' = Idle
  <2>1. call.pc = "attachHc" /\ call.job \in {"attach", "install", "remove"}
    BY DEF attachHcFails, CallType
  <2>2. UNCHANGED <<answer, threw>> /\ call' = Idle
    BY <2>1, Throws DEF attachHcFails
  <2> QED BY <2>1, <2>2 DEF attachHcFails
<1>2. /\ xdp' \in {xdp, NoProg} /\ leftBehind' \in BOOLEAN
      /\ config_.mode = "noRootMap" => xdp' = xdp
      /\ ~leftBehind' => ~leftBehind /\ (config_.mode # "noRootMap" => xdp' = NoProg)
  BY DEF attachHcFails, detachMain, DetachOutcomes
<1>3. LoaderInv'
  BY <1>1, <1>2, LoaderFrame DEF Instances
<1>4. Types' /\ CallType'
  BY <1>1, <1>2 DEF Types, CallType
<1>5. LoadedInv' /\ RecircInv' /\ LruInv'
  BY <1>1 DEF LoadedInv, Loading, Sane, Discovered, isMapInProg, RecircInv, LruInv
<1>6. ~(NoProg.gen > born')
  BY <1>1, NoProgInstance DEF LoaderInv
<1>7. AttachInv'
  BY <1>1, <1>2, <1>6 DEF AttachInv
<1>8. CarefulInv => CarefulInv'
  BY <1>1, <1>2, <1>6 DEF CarefulInv
<1> QED BY <1>3, <1>4, <1>5, <1>7, <1>8

LEMMA AttachHcStep == ASSUME IndInv, attachHc PROVE IndInv'
<1> USE Names DEF IndInv
<1>1. /\ UNCHANGED <<loaderVars, lbVars, rootMapFd_, xdp, recircVars, procVars, leftBehind, threw>>
      /\ call.pc = "attachHc" /\ call' = Idle /\ progsAttached_' = TRUE /\ stale' = FALSE
      /\ hcFilters' = IF config_.enableHc /\ ~progsReloaded_
                      THEN hcFilters \cup {progs_[Healthchecker]} ELSE hcFilters
      /\ answer' = "none" \/ answer' \in features_
  BY DEF attachHc
<1>2. progsLoaded_
  BY <1>1 DEF AttachInv
<1>3. LoaderInv'
  BY <1>1, LoaderFrame DEF Instances
<1>4. Types' /\ CallType'
  BY <1>1 DEF Types, CallType
<1>5. LoadedInv' /\ RecircInv' /\ LruInv'
  BY <1>1 DEF LoadedInv, Loading, Sane, Discovered, isMapInProg, RecircInv, LruInv
<1>6. AttachInv'
  BY <1>1, <1>2 DEF AttachInv
<1>7. CarefulInv => CarefulInv'
  BY <1>1, <1>2 DEF CarefulInv, AttachInv
<1> QED BY <1>3, <1>4, <1>5, <1>6, <1>7
-----------------------------------------------------------------------------
LEMMA InitStep == Init => IndInv
<1> SUFFICES ASSUME Init PROVE IndInv
  OBVIOUS
<1> USE Names, NoProgInstance DEF Init
<1>1. LoaderInv
  <2>1. Instances \subseteq {NoProg}
    BY DEF LoaderInit, Instances
  <2>2. Fits(NoProg)
    BY DEF LoaderInit, Fits
  <2>3. \A p \in ProgName : progs_[p] = NoProg
    BY DEF LoaderInit
  <2> QED BY <2>1, <2>2, <2>3 DEF LoaderInit, LoaderInv
<1>2. Types /\ CallType
  BY DEF Types, CallType, Config
<1>3. LoadedInv /\ RecircInv /\ LruInv
  BY DEF LoaderInit, LoadedInv, Loading, RecircInv, LruInv
<1>4. AttachInv /\ CarefulInv
  BY DEF AttachInv, CarefulInv
<1> QED BY <1>1, <1>2, <1>3, <1>4 DEF IndInv

LEMMA StutterStep == ASSUME IndInv, UNCHANGED vars PROVE IndInv'
<1> USE DEF IndInv, vars
<1>1. LoaderInv'
  BY LoaderFrame DEF Instances
<1>2. Types' /\ CallType' /\ LoadedInv' /\ RecircInv' /\ AttachInv' /\ LruInv'
  BY DEF Types, CallType, LoadedInv, Loading, Sane, Discovered, isMapInProg, RecircInv,
         AttachInv, LruInv
<1>3. CarefulInv => CarefulInv'
  BY DEF CarefulInv
<1> QED BY <1>1, <1>2, <1>3

(* The invariant all the theorems rest on holds in every reachable state: every
   load, reload, revert, exception, attach and crash of loadBpfProgs,
   reloadBalancerProg, changeFeature and attachBpfProgs keeps it.             *)
THEOREM Inductive == Spec => []IndInv
<1>1. Init => IndInv
  BY InitStep
<1>2. IndInv /\ [Next]_vars => IndInv'
  <2> SUFFICES ASSUME IndInv, [Next]_vars PROVE IndInv'
    OBVIOUS
  <2>1. CASE loadBpfProgs \/ attachBpfProgs \/ Start
    BY <2>1, CallBegins
  <2>2. CASE \E p \in BalancerPath : reloadBalancerProg(p)
    BY <2>2, CallBegins
  <2>3. CASE \E f \in Wanted, p \in BalancerPath, job \in {"install", "remove"} :
               changeFeature(job, f, p)
    BY <2>3, CallBegins
  <2>4. CASE initLrus
    BY <2>4, InitLrusStep
  <2>5. CASE loadBalancer \/ loadHc
    BY <2>5, LoadFileStep
  <2>6. CASE sanity
    BY <2>6, SanityStep
  <2>7. CASE setupGue \/ enableRecirculation
    BY <2>7, RecirculationStep
  <2>8. CASE finishLoad
    BY <2>8, FinishLoadStep
  <2>9. CASE attachLrus
    BY <2>9, AttachLrusStep
  <2>10. CASE reload
    BY <2>10, ReloadCallStep
  <2>11. CASE finishReload
    BY <2>11, FinishReloadStep
  <2>12. CASE attachMain
    BY <2>12, AttachMainStep
  <2>13. CASE attachHc
    BY <2>13, AttachHcStep
  <2>14. CASE attachHcFails
    BY <2>14, AttachHcFailsStep
  <2>15. CASE destroy \/ Crash
    BY <2>15, EndStep
  <2>16. CASE Done \/ UNCHANGED vars
    BY <2>16, StutterStep DEF Done
  <2> QED BY <2>1, <2>2, <2>3, <2>4, <2>5, <2>6, <2>7, <2>8, <2>9, <2>10, <2>11, <2>12,
             <2>13, <2>14, <2>15, <2>16 DEF Next
<1> QED BY <1>1, <1>2, PTL DEF Spec
-----------------------------------------------------------------------------
(* Reloads lose no table: whichever loads, reloads, failed reloads and reverts
   came before, every live program works on the kernel maps that maps_ names,
   and the monitor reads the event pipe that the loaded balancer writes.      *)
THEOREM ReloadsKeepTables == Spec => []OneMapPerName
<1>1. IndInv => OneMapPerName
  <2> SUFFICES ASSUME IndInv PROVE OneMapPerName
    OBVIOUS
  <2>1. ASSUME NEW i \in LivePrograms, NEW n \in MapName \ knownDuplicateMaps_, i.maps[n] # 0
        PROVE  i.maps[n] = maps_[n]
    <3>1. i \in Instances /\ i.gen > born
      BY DEF LivePrograms, Instances
    <3> QED BY <2>1, <3>1 DEF IndInv, LoaderInv, Fits
  <2>2. introspectionStarted_ => monitorPipe = maps_["event_pipe"] /\ monitorPipe # 0
    BY DEF IndInv, LoadedInv
  <2> QED BY <2>1, <2>2 DEF OneMapPerName
<1> QED BY <1>1, Inductive, PTL

(* features_ and balancerProgPath describe the program that is loaded now: what
   featureDiscovering found at the last sanity check is what the instance in
   progs_ is bound to, however the reload, the revert or the exception ended. *)
THEOREM FeaturesDescribeProgram == Spec => []FeaturesTrue
<1>1. IndInv => FeaturesTrue
  <2> SUFFICES ASSUME IndInv, progsLoaded_, call.pc # "sanity"
               PROVE  /\ features_ = {f \in Feature : progs_[Balancer].maps[FeatureMap[f]] # 0}
                      /\ balancerProgPath = progs_[Balancer].path
    BY DEF FeaturesTrue
  <2>1. progs_[Balancer] # NoProg /\ features_ = Discovered /\ balancerProgPath = progs_[Balancer].path
    BY DEF IndInv, LoadedInv, Sane
  <2>2. LoadedFrom(Balancer)
    BY <2>1, Names DEF IndInv, LoaderInv
  <2>3. \A f \in Feature : FeatureMap[f] \in currentMaps_[Balancer]
                             <=> progs_[Balancer].maps[FeatureMap[f]] # 0
    BY <2>2, Names DEF LoadedFrom
  <2> QED BY <2>1, <2>3 DEF Discovered, isMapInProg
<1> QED BY <1>1, Inductive, PTL

(* Between calls a decapsulated packet recirculates into the loaded balancer,
   unless a reload threw between the new program and enableRecirculation.     *)
THEOREM RecirculatesIntoLoaded == Spec => []RecirculationCurrent
<1>1. IndInv => RecirculationCurrent
  BY DEF IndInv, RecircInv, RecirculationCurrent
<1> QED BY <1>1, Inductive, PTL

(* An attach that threw, and the destructor, leave nothing on an interface,
   unless the kernel refused a detach, a process died or clean-up is off.     *)
THEOREM CleanInterfaces == Spec => []NothingLeftBehind
<1>1. IndInv => NothingLeftBehind
  BY DEF IndInv, AttachInv, NothingLeftBehind
<1> QED BY <1>1, Inductive, PTL

(* A caller who reloads only what was attached (or after a load that threw),
   attaches again only after a reload and never after a load that threw, finds
   on the interface, when attachBpfProgs, installFeature or removeFeature has
   returned and nothing was reloaded since, the program that is loaded.       *)
THEOREM AttachedProgramIsLoaded == Liberties = {} => (Spec => []AttachedIsLoaded)
<1> SUFFICES ASSUME Liberties = {} PROVE Spec => []AttachedIsLoaded
  OBVIOUS
<1>1. IndInv => AttachedIsLoaded
  <2> SUFFICES ASSUME IndInv, call = Idle, progsAttached_, ~stale
               PROVE  /\ config_.mode # "noRootMap" =>
                           /\ xdp = progs_[Balancer]
                           /\ answer # "none" => xdp.maps[FeatureMap[answer]] # 0
                      /\ config_.enableHc => progs_[Healthchecker] \in hcFilters
    BY DEF AttachedIsLoaded
  <2>1. CarefulInv /\ progsLoaded_
    BY DEF IndInv, AttachInv
  <2>2. progs_[Balancer] # NoProg /\ features_ = Discovered /\ (answer # "none" => answer \in features_)
    BY <2>1 DEF IndInv, LoadedInv, Sane
  <2>3. LoadedFrom(Balancer)
    BY <2>2, Names DEF IndInv, LoaderInv
  <2>4. answer # "none" => progs_[Balancer].maps[FeatureMap[answer]] # 0
    BY <2>2, <2>3, Names DEF Discovered, isMapInProg, LoadedFrom
  <2> QED BY <2>1, <2>4 DEF CarefulInv
<1> QED BY <1>1, Inductive, PTL

(* For the same caller, a balancer of this process on the interface has the
   connection table of every forwarding core: attachLrus was complete before
   any attach, and reloads keep the map of maps it filled.                    *)
THEOREM TablesBeforeTraffic == Liberties = {} => (Spec => []LrusBeforeTraffic)
<1> SUFFICES ASSUME Liberties = {} PROVE Spec => []LrusBeforeTraffic
  OBVIOUS
<1>1. IndInv => LrusBeforeTraffic
  BY DEF IndInv, CarefulInv, LrusBeforeTraffic
<1> QED BY <1>1, Inductive, PTL
-----------------------------------------------------------------------------
(* While a process lives, no call moves a table: once user space knows a kernel
   map by a name it keeps that map under that name, whatever loads, reloads,
   reverts and exceptions follow, and so does the table of shared maps. (The
   maps of knownDuplicateMaps_ are excepted in maps_, where the second program
   to bring one replaces it.)                                                 *)
TablesStay ==
  call' # Closed =>
    /\ \A n \in MapName \ knownDuplicateMaps_ : maps_[n] # 0 => maps_'[n] = maps_[n]
    /\ \A n \in MapName : sharedMaps_[n] # 0 => sharedMaps_'[n] = sharedMaps_[n]

LEMMA LoadKeepsTables ==
  ASSUME LoaderInv, NEW path \in Path, NEW ok \in BOOLEAN, loadBpfObject(path, ok)
  PROVE  TablesStay
<1> USE LoaderAssumption
<1> DEFINE bound == [n \in MapName |-> IF sharedMaps_[n] # 0 THEN sharedMaps_[n] ELSE loads + 1]
<1>1. CASE UNCHANGED loaderVars
  BY <1>1 DEF TablesStay
<1>2. CASE /\ ~LoadCollides(path) /\ bpf_object__load(path, bound, TRUE)
           /\ UNCHANGED <<sharedMaps_, innerMapsProto_>>
  <2>1. ASSUME NEW n \in MapName \ knownDuplicateMaps_, maps_[n] # 0
        PROVE  maps_'[n] = maps_[n]
    <3>1. CASE n \notin ObjMaps[path]
      BY <1>2, <2>1, <3>1 DEF bpf_object__load
    <3>2. CASE n \in ObjMaps[path]
      <4>1. sharedMaps_[n] # 0 /\ sharedMaps_[n] = maps_[n]
        BY <1>2, <2>1, <3>2 DEF LoadCollides, LoaderInv
      <4> QED BY <1>2, <3>2, <4>1 DEF bpf_object__load
    <3> QED BY <3>1, <3>2
  <2> QED BY <1>2, <2>1 DEF TablesStay
<1> QED BY <1>1, <1>2 DEF loadBpfObject

LEMMA ReloadKeepsTables ==
  ASSUME LoaderInv, NEW path \in Path, NEW ok \in BOOLEAN, reloadBpfObject(path, ok)
  PROVE  TablesStay
<1> USE LoaderAssumption
<1>1. \A n \in MapName : sharedMaps_[n] # 0 => sharedMaps_'[n] = sharedMaps_[n]
  BY DEF reloadBpfObject, LoaderInv
<1>2. \A n \in MapName : maps_[n] # 0 => maps_'[n] = maps_[n]
  BY DEF reloadBpfObject, bpf_object__load, LoaderInv
<1> QED BY <1>1, <1>2 DEF TablesStay

(* No step of loadBpfProgs, reloadBalancerProg or a change of features, the
   ones that fail or revert included, exchanges a kernel map that user space
   writes for another: the forwarding tables outlive every reload.            *)
THEOREM TablesStayInPlace == Spec => [][TablesStay]_vars
<1>1. IndInv /\ [Next]_vars => [TablesStay]_vars
  <2> SUFFICES ASSUME IndInv, Next PROVE TablesStay
    BY DEF vars, TablesStay
  <2>1. LoaderInv /\ CallType
    BY DEF IndInv
  <2>2. HcPath \in Path /\ BalancerPath \subseteq Path
    BY Names
  <2>3. CASE loadBalancer
    <3>1. call.path \in Path
      BY <2>1, <2>2, <2>3 DEF loadBalancer, CallType
    <3> QED BY <2>1, <2>3, <3>1, LoadKeepsTables DEF loadBalancer
  <2>4. CASE loadHc
    BY <2>1, <2>2, <2>4, LoadKeepsTables DEF loadHc
  <2>5. CASE reload
    <3>1. call.path \in Path
      BY <2>1, <2>2, <2>5 DEF reload, CallType
    <3> QED BY <2>1, <2>5, <3>1, ReloadKeepsTables DEF reload
  <2>6. CASE destroy \/ Crash
    BY <2>6 DEF destroy, Crash, processEnds, TablesStay
  <2>7. ASSUME UNCHANGED <<maps_, sharedMaps_>> PROVE TablesStay
    BY <2>7 DEF TablesStay
  <2>8. CASE initLrus
    BY <2>7, <2>8 DEF initLrus, setInnerMapPrototype
  <2>9. CASE \/ loadBpfProgs \/ sanity \/ setupGue \/ enableRecirculation \/ finishLoad
             \/ attachLrus \/ finishReload \/ attachBpfProgs \/ attachMain \/ attachHc
             \/ attachHcFails \/ Start \/ Done
    BY <2>7, <2>9 DEF loadBpfProgs, sanity, setupGue, enableRecirculation, finishLoad, attachLrus,
       finishReload, attachBpfProgs, attachMain, attachHc, attachHcFails, Start, Done, vars
  <2>10. CASE \/ \E p \in BalancerPath : reloadBalancerProg(p)
              \/ \E f \in Wanted, p \in BalancerPath, job \in {"install", "remove"} :
                   changeFeature(job, f, p)
    BY <2>7, <2>10 DEF reloadBalancerProg, changeFeature
  <2> QED BY <2>3, <2>4, <2>5, <2>6, <2>8, <2>9, <2>10 DEF Next
<1> QED BY <1>1, Inductive, PTL DEF Spec
=============================================================================
