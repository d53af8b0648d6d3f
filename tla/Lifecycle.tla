------------------------------ MODULE Lifecycle ------------------------------
(***************************************************************************)
(* Loading, reloading, attaching and detaching the programs: loadBpfProgs, *)
(* reloadBalancerProg, attachBpfProgs, installFeature, removeFeature and   *)
(* the destructor of class VsoshlbLb (src/vsoshlb/lib/VsoshlbLb.cpp), over *)
(* the loader of BpfLoader.                                                *)
(*                                                                         *)
(* One call runs at a time, step by step (call.pc): every step that asks   *)
(* the kernel for something may fail, and most failures throw out of the   *)
(* call and leave what was done before.  The process may also die at any   *)
(* step and start again; what hangs on the interfaces survives it.         *)
(***************************************************************************)
EXTENDS BpfLoader

CONSTANTS
  HcPath,        \* config_.healthcheckingProgPath
  Core,          \* forwardingCores_
  Wanted,        \* features the caller installs and removes
  Liberties,     \* what this caller does that a careful one does not
  MaxStarts      \* bound: processes started one after the other

Balancer == "balancer_ingress"
Healthchecker == "healthcheck_encap"
BalancerPath == {p \in Path : ObjProg[p] = Balancer}

\* The map whose presence tells that a program has a feature
FeatureMap ==
  [srcRouting |-> "lpm_src_v4", inlineDecap |-> "decap_dst",
   introspection |-> "event_pipe", gueEncap |-> "pckt_srcs",
   flowDebug |-> "flow_debug_maps"]
Feature == DOMAIN FeatureMap
FeaturesOf(maps) == {f \in Feature : FeatureMap[f] \in maps}

\* Maps of maps, one inner map per forwarding core
PerCoreMap == {"lru_mapping", "flow_debug_maps", "global_lru_maps"}

\* reloadFirst: reload before the first attach; attachAgain: attach with no
\* reload since the last attach; attachAfterThrow: attach after a load threw
Liberty == {"reloadFirst", "attachAgain", "attachAfterThrow"}

ASSUME LifecycleAssumption ==
  /\ HcPath \in Path /\ ObjProg[HcPath] = Healthchecker
  /\ {ObjProg[p] : p \in Path} = {Balancer, Healthchecker}
  /\ {FeatureMap[f] : f \in Feature} \cup PerCoreMap \cup {"hc_reals_map"} \subseteq MapName
  /\ "lru_mapping" \notin ObjMaps[HcPath]
  /\ Wanted \subseteq Feature /\ Liberties \subseteq Liberty
  /\ MaxStarts \in Nat \ {0}

VARIABLES
  config_,                                \* what every start of the process is given
  balancerProgPath,                       \* config_.balancerProgPath, which reloads change
  features_, progsLoaded_, progsAttached_, progsReloaded_,
  introspectionStarted_, monitorPipe,     \* the map the monitor reads
  rootMapFd_,
  xdp,            \* the balancer on the main interface, or in the root array
  hcFilters,      \* healthcheck filters on the egress of the other interface
  subprograms,    \* the program recirculated packets are handed to
  inner,          \* cores whose inner map is in a map of maps
  call,           \* the call in progress
  answer,         \* history: the feature the last call, an installFeature, said TRUE for
  started,        \* processes so far
  born,           \* loads of earlier processes
  stale,          \* history: a program was reloaded after the last complete attach
  threw,          \* history: loadBpfProgs threw; a reload threw after the program
                  \* was replaced and none has succeeded since
  leftBehind      \* history: something may hang on an interface that no destructor
                  \* removes: a process died, a detach failed, cleanup is off

lbVars == <<features_, progsLoaded_, progsReloaded_, introspectionStarted_,
            monitorPipe, balancerProgPath>>
attachVars == <<progsAttached_, rootMapFd_, xdp, hcFilters>>
recircVars == <<subprograms, inner>>
procVars == <<config_, started, born>>
vars == <<loaderVars, lbVars, attachVars, recircVars, procVars, call, answer,
          stale, threw, leftBehind>>
-----------------------------------------------------------------------------
(* Configuration and calls *)

Config == [mode : {"standalone", "rootMap", "noRootMap"}, enableHc : BOOLEAN,
           cleanupOnShutdown : BOOLEAN, path : BalancerPath]

Idle == [job |-> "none", pc |-> "idle"]
NewCall(job, pc, path, feature) ==
  [job |-> job, pc |-> pc, path |-> path, feature |-> feature,
   original |-> balancerProgPath, reverting |-> FALSE]
Closed == [job |-> "none", pc |-> "closed"]

goto(pc) == call' = [call EXCEPT !.pc = pc] /\ UNCHANGED <<answer, threw>>
return == call' = Idle /\ UNCHANGED <<answer, threw>>
throw ==
  /\ call' = Idle
  /\ threw' = IF call.job = "load" THEN threw \cup {"load"}
              ELSE IF call.pc \in {"sanity", "gue", "recirculation"}
              THEN threw \cup {"reload"} ELSE threw
  /\ UNCHANGED answer

Init ==
  /\ LoaderInit
  /\ config_ \in Config /\ balancerProgPath = config_.path
  /\ features_ = {} /\ progsLoaded_ = FALSE /\ progsAttached_ = FALSE /\ progsReloaded_ = FALSE
  /\ introspectionStarted_ = FALSE /\ monitorPipe = 0 /\ rootMapFd_ = "unset"
  /\ inner = [n \in PerCoreMap |-> {}] /\ subprograms = NoProg
  /\ call = Idle /\ answer = "none" /\ stale = FALSE /\ threw = {}
  /\ xdp = NoProg /\ hcFilters = {}
  /\ started = 1 /\ born = 0 /\ leftBehind = FALSE

\* The process is gone and with it all it knew.  Its maps live on only as long
\* as an attached program holds them, and no later process finds them.
processEnds ==
  /\ progs_' = [p \in ProgName |-> NoProg] /\ bpfObjects_' = {}
  /\ maps_' = [n \in MapName |-> 0] /\ sharedMaps_' = [n \in MapName |-> 0]
  /\ innerMapsProto_' = {} /\ currentMaps_' = [p \in ProgName |-> {}]
  /\ balancerProgPath' = config_.path
  /\ features_' = {} /\ progsLoaded_' = FALSE /\ progsAttached_' = FALSE /\ progsReloaded_' = FALSE
  /\ introspectionStarted_' = FALSE /\ monitorPipe' = 0 /\ rootMapFd_' = "unset"
  /\ inner' = [n \in PerCoreMap |-> {}] /\ subprograms' = NoProg
  /\ call' = Closed /\ answer' = "none" /\ stale' = FALSE /\ threw' = {}
  /\ born' = loads
  /\ UNCHANGED <<config_, started, loads>>

\* The process dies where it stands.
Crash ==
  /\ call # Closed
  /\ processEnds
  /\ leftBehind' = (leftBehind \/ xdp # NoProg \/ hcFilters # {})
  /\ UNCHANGED <<xdp, hcFilters>>

Start ==
  /\ call = Closed /\ started < MaxStarts
  /\ started' = started + 1
  /\ call' = Idle
  /\ UNCHANGED <<loaderVars, lbVars, attachVars, recircVars, config_, born, answer,
                 stale, threw, leftBehind>>
-----------------------------------------------------------------------------
(* loadBpfProgs *)

loadBpfProgs ==
  /\ call = Idle
  /\ call' = NewCall("load", "initLrus", balancerProgPath, "none")
  /\ UNCHANGED <<loaderVars, lbVars, attachVars, recircVars, procVars, stale, threw, leftBehind>>
  /\ answer' = "none"

\* initLrus, initFlowDebugPrototypeMap, initGlobalLruPrototypeMap: a prototype
\* cannot be set twice, so a load that got here once never gets further again.
\* Such a load has by then put new tables into lruMapsFd_, which no map of maps
\* will hold; the administration calls (ConnTables) are those made before it.
initLrus ==
  /\ call.pc = "initLrus"
  /\ LET protos == PerCoreMap \cap (ObjMaps[call.path] \cup {"lru_mapping"})
     IN \/ "lru_mapping" \notin innerMapsProto_ /\ setInnerMapPrototype(protos)
           /\ goto("loadBalancer")
        \/ throw /\ \E S \in SUBSET protos :
             /\ S # {} => "lru_mapping" \in S /\ "lru_mapping" \notin innerMapsProto_
             /\ setInnerMapPrototype(S)
  /\ UNCHANGED <<lbVars, attachVars, recircVars, procVars, stale, leftBehind>>

loadBalancer ==
  /\ call.pc = "loadBalancer"
  /\ \E ok \in BOOLEAN :
       /\ loadBpfObject(call.path, ok)
       /\ IF ok THEN goto(IF config_.enableHc THEN "loadHc" ELSE "sanity") ELSE throw
  /\ UNCHANGED <<lbVars, attachVars, recircVars, procVars, stale, leftBehind>>

loadHc ==
  /\ call.pc = "loadHc"
  /\ \E ok \in BOOLEAN :
       /\ loadBpfObject(HcPath, ok)
       /\ IF ok THEN goto("sanity") ELSE throw
  /\ UNCHANGED <<lbVars, attachVars, recircVars, procVars, stale, leftBehind>>

\* initialSanityChecking looks the maps up by name in maps_, where a reload
\* also finds the ones of the program before; lru_mapping stands for all nine
\* maps that every balancer must have.
SanityOk ==
  /\ progs_[Balancer] # NoProg
  /\ config_.enableHc => progs_[Healthchecker] # NoProg
  /\ \A n \in {"lru_mapping"} \cup (PerCoreMap \cap ObjMaps[call.path])
           \cup (IF config_.enableHc THEN {"hc_reals_map"} ELSE {}) : maps_[n] # 0

\* Mutant: the features of the first load are kept.
MutDiscoverOnce ==
  features_' = IF features_ = {} THEN FeaturesOf(currentMaps_[Balancer]) ELSE features_

featureDiscovering == features_' = {f \in Feature : isMapInProg(Balancer, FeatureMap[f])}

sanity ==
  /\ call.pc = "sanity"
  /\ \/ SanityOk /\ featureDiscovering /\ goto("gue")
     \/ ~SanityOk /\ throw /\ UNCHANGED features_
  /\ UNCHANGED <<loaderVars, progsLoaded_, progsReloaded_, introspectionStarted_,
                 monitorPipe, balancerProgPath, attachVars, recircVars, procVars,
                 stale, leftBehind>>

\* setupGueEnvironment (its writes are in LbTables), then enableRecirculation
setupGue ==
  /\ call.pc = "gue"
  /\ \/ goto("recirculation")
     \/ "gueEncap" \in features_ /\ throw
  /\ UNCHANGED <<loaderVars, lbVars, attachVars, recircVars, procVars, stale, leftBehind>>

\* Mutant: recirculation is set up only when the programs are loaded first.
MutRecirculateOnce ==
  /\ call.pc = "recirculation"
  /\ subprograms' = IF "inlineDecap" \in features_ /\ call.job = "load"
                    THEN progs_[Balancer] ELSE subprograms
  /\ goto(IF call.job = "load" THEN "ctl" ELSE "introspection")
  /\ UNCHANGED <<loaderVars, lbVars, attachVars, inner, procVars, stale, leftBehind>>

enableRecirculation ==
  /\ call.pc = "recirculation"
  /\ \/ /\ subprograms' = IF "inlineDecap" \in features_ THEN progs_[Balancer] ELSE subprograms
        /\ goto(IF call.job = "load" THEN "ctl" ELSE "introspection")
     \/ "inlineDecap" \in features_ /\ throw /\ UNCHANGED subprograms
  /\ UNCHANGED <<loaderVars, lbVars, attachVars, inner, procVars, stale, leftBehind>>

startIntrospectionRoutines ==
  IF "introspection" \in features_ /\ ~introspectionStarted_
  THEN introspectionStarted_' = TRUE /\ monitorPipe' = maps_["event_pipe"]
  ELSE UNCHANGED <<introspectionStarted_, monitorPipe>>

\* ctl_array, hc_ctrl_map and setupHcEnvironment; only then progsLoaded_
finishLoad ==
  /\ call.pc = "ctl"
  /\ \/ progsLoaded_' = TRUE /\ startIntrospectionRoutines /\ goto("attachLrus")
     \/ throw /\ UNCHANGED <<progsLoaded_, introspectionStarted_, monitorPipe>>
  /\ UNCHANGED <<loaderVars, features_, progsReloaded_, balancerProgPath, attachVars,
                 recircVars, procVars, stale, leftBehind>>

\* Mutant: the last core gets no table.
MutAttachLrusButOne ==
  /\ call.pc = "attachLrus"
  /\ \E c \in Core : inner' = [n \in PerCoreMap |-> Core \ {c}]
  /\ return
  /\ UNCHANGED <<loaderVars, lbVars, attachVars, subprograms, procVars, stale, leftBehind>>

\* attachLrus; progsLoaded_ is set already when it throws
attachLrus ==
  /\ call.pc = "attachLrus"
  /\ LET mine == PerCoreMap \cap ObjMaps[call.path]
     IN \/ inner' = [n \in PerCoreMap |-> IF n \in mine THEN Core ELSE inner[n]]
           /\ return
        \/ throw /\ \E S \in SUBSET Core :
             S # Core /\ inner' = [n \in PerCoreMap |-> IF n \in mine THEN S ELSE inner[n]]
  /\ UNCHANGED <<loaderVars, lbVars, attachVars, subprograms, procVars, stale, leftBehind>>
-----------------------------------------------------------------------------
(* reloadBalancerProg; installFeature and removeFeature, which reload, go   *)
(* back to the original program if that fails, and attach                   *)

\* A careful caller may try a reload after a load that threw, never an attach.
MayReload == "reloadFirst" \in Liberties \/ progsAttached_ \/ "load" \in threw
MayChange == "reloadFirst" \in Liberties \/ progsAttached_

reloadBalancerProg(path) ==
  /\ call = Idle /\ MayReload
  /\ call' = NewCall("reload", "reload", path, "none")
  /\ UNCHANGED <<loaderVars, lbVars, attachVars, recircVars, procVars, stale, threw, leftBehind>>
  /\ answer' = "none"

\* Asking for what is there already (or gone already) returns TRUE at once.
changeFeature(job, f, path) ==
  /\ call = Idle /\ MayChange
  /\ IF (f \in features_) = (job = "install")
     THEN answer' = (IF job = "install" THEN f ELSE "none") /\ UNCHANGED call
     ELSE call' = NewCall(job, "reload", path, f) /\ answer' = "none"
  /\ UNCHANGED <<loaderVars, lbVars, attachVars, recircVars, procVars, stale, threw, leftBehind>>

reload ==
  /\ call.pc = "reload"
  /\ \E ok \in BOOLEAN :
       /\ reloadBpfObject(call.path, ok)
       /\ balancerProgPath' = IF ok THEN call.path ELSE balancerProgPath
       /\ stale' = (stale \/ ok)
       /\ \/ ok /\ goto("sanity")
          \/ /\ ~ok /\ call.job # "reload" /\ ~call.reverting
             /\ call' = [call EXCEPT !.path = call.original, !.reverting = TRUE]
             /\ UNCHANGED <<answer, threw>>
          \/ ~ok /\ (call.job = "reload" \/ call.reverting) /\ return
  /\ UNCHANGED <<features_, progsLoaded_, progsReloaded_, introspectionStarted_,
                 monitorPipe, attachVars, recircVars, procVars, leftBehind>>

finishReload ==
  /\ call.pc = "introspection"
  /\ startIntrospectionRoutines
  /\ progsReloaded_' = TRUE
  /\ threw' = threw \ {"reload"}
  /\ call' = IF call.job = "reload" \/ call.reverting THEN Idle ELSE [call EXCEPT !.pc = "attach"]
  /\ UNCHANGED answer
  /\ UNCHANGED <<loaderVars, features_, progsLoaded_, balancerProgPath, attachVars,
                 recircVars, procVars, stale, leftBehind>>
-----------------------------------------------------------------------------
(* attachBpfProgs *)

attachBpfProgs ==
  /\ call = Idle
  /\ "attachAgain" \in Liberties \/ ~progsAttached_ \/ stale
  /\ "attachAfterThrow" \in Liberties \/ "load" \notin threw
  /\ call' = NewCall("attach", "attach", balancerProgPath, "none")
  /\ UNCHANGED <<loaderVars, lbVars, attachVars, recircVars, procVars, stale, threw, leftBehind>>
  /\ answer' = "none"

\* Mutant: a program that is on the interface is not replaced.
MutAttachIfNone ==
  /\ call.pc = "attach"
  /\ \/ ~progsLoaded_ /\ throw /\ UNCHANGED <<xdp, rootMapFd_>>
     \/ /\ progsLoaded_
        /\ xdp' = IF xdp = NoProg /\ config_.mode # "noRootMap" THEN progs_[Balancer] ELSE xdp
        /\ goto("attachHc") /\ UNCHANGED rootMapFd_
  /\ UNCHANGED <<loaderVars, lbVars, progsAttached_, hcFilters, recircVars, procVars,
                 stale, leftBehind>>

\* The balancer goes to the interface, replacing what is there, or into its
\* slot of the root array; without useRootMap somebody else puts it there.
attachMain ==
  /\ call.pc = "attach"
  /\ \/ ~progsLoaded_ /\ throw /\ UNCHANGED <<xdp, rootMapFd_>>
     \/ /\ progsLoaded_ /\ config_.mode # "noRootMap"
        /\ \/ xdp' = progs_[Balancer] /\ goto("attachHc")
              /\ rootMapFd_' = IF config_.mode = "rootMap" THEN "open" ELSE rootMapFd_
           \/ throw /\ UNCHANGED xdp
              /\ rootMapFd_' \in IF config_.mode = "rootMap" THEN {"open", "bad"} ELSE {rootMapFd_}
     \/ progsLoaded_ /\ config_.mode = "noRootMap" /\ goto("attachHc") /\ UNCHANGED <<xdp, rootMapFd_>>
  /\ UNCHANGED <<loaderVars, lbVars, progsAttached_, hcFilters, recircVars, procVars,
                 stale, leftBehind>>

\* detachXdpProg, or the delete of our slot of the root array.  A descriptor
\* that could not be opened removes nothing; without useRootMap rootMapFd_ was
\* never assigned and the slot is not ours.
DetachOutcomes == IF rootMapFd_ = "bad" THEN {FALSE} ELSE BOOLEAN
detachMain(ok) == xdp' = IF ok /\ config_.mode # "noRootMap" THEN NoProg ELSE xdp

\* Mutant: the balancer is left on the interface.
MutNoRollback ==
  /\ call.pc = "attachHc" /\ config_.enableHc /\ ~progsReloaded_
  /\ throw
  /\ UNCHANGED <<loaderVars, lbVars, attachVars, recircVars, procVars, stale, leftBehind>>

\* The filter cannot be added: the balancer is taken off again.
attachHcFails ==
  /\ call.pc = "attachHc" /\ config_.enableHc /\ ~progsReloaded_
  /\ \E ok \in DetachOutcomes :
       /\ detachMain(ok)
       /\ leftBehind' = (leftBehind \/ ~ok)
  /\ throw
  /\ UNCHANGED <<loaderVars, lbVars, progsAttached_, rootMapFd_, hcFilters, recircVars,
                 procVars, stale>>

\* addTcBpfFilter with handle 0 adds one more filter; after any reload the
\* filter is taken to be there.
attachHc ==
  /\ call.pc = "attachHc"
  /\ hcFilters' = IF config_.enableHc /\ ~progsReloaded_
                  THEN hcFilters \cup {progs_[Healthchecker]} ELSE hcFilters
  /\ progsAttached_' = TRUE
  /\ stale' = FALSE
  /\ answer' = IF call.job = "install" /\ call.feature \in features_ THEN call.feature ELSE "none"
  /\ call' = Idle /\ UNCHANGED threw
  /\ UNCHANGED <<loaderVars, lbVars, rootMapFd_, xdp, recircVars, procVars, leftBehind>>

\* ~VsoshlbLb; the delete at our priority with handle 0 removes every filter
destroy ==
  /\ call = Idle /\ processEnds
  /\ IF progsAttached_ /\ config_.cleanupOnShutdown
     THEN \E okMain \in DetachOutcomes, okHc \in BOOLEAN :
            /\ detachMain(okMain)
            /\ hcFilters' = IF okHc /\ config_.enableHc THEN {} ELSE hcFilters
            /\ leftBehind' = (leftBehind \/ ~okMain \/ ~okHc)
     ELSE /\ leftBehind' = (leftBehind \/ ~config_.cleanupOnShutdown)
          /\ UNCHANGED <<xdp, hcFilters>>

Done == call = Closed /\ UNCHANGED vars
-----------------------------------------------------------------------------
Next ==
  \/ loadBpfProgs \/ initLrus \/ loadBalancer \/ loadHc \/ sanity \/ setupGue
  \/ enableRecirculation \/ finishLoad \/ attachLrus
  \/ \E p \in BalancerPath : reloadBalancerProg(p)
  \/ \E f \in Wanted, p \in BalancerPath, job \in {"install", "remove"} :
       changeFeature(job, f, p)
  \/ reload \/ finishReload
  \/ attachBpfProgs \/ attachMain \/ attachHc \/ attachHcFails
  \/ destroy \/ Crash \/ Start \/ Done

Spec == Init /\ [][Next]_vars
-----------------------------------------------------------------------------
(* Properties *)

\* Programs of this process that can run or be attached next
LivePrograms ==
  {i \in {progs_[p] : p \in ProgName} \cup {xdp, subprograms} \cup hcFilters : i.gen > born}

\* Reloads lose no table: whatever reloads, failed reloads, reverts and loads
\* came before, every program that is loaded, attached or recirculated to works
\* on the kernel maps user space writes under those names, and the monitor
\* reads the event pipe they write.  (Maps of knownDuplicateMaps_ are excepted:
\* the healthchecker's copy replaces the balancer's in maps_.)
OneMapPerName ==
  /\ \A i \in LivePrograms, n \in MapName \ knownDuplicateMaps_ :
       i.maps[n] # 0 => i.maps[n] = maps_[n]
  /\ introspectionStarted_ => monitorPipe = maps_["event_pipe"] /\ monitorPipe # 0

\* Once programs are loaded, features_ and balancerProgPath describe the program
\* that is loaded now, after every way a reload, a revert or an exception ends:
\* the calls that are refused for a missing feature, and the path a revert goes
\* back to, depend on it.
FeaturesTrue ==
  progsLoaded_ /\ call.pc \notin {"sanity"} =>
    /\ features_ = {f \in Feature : progs_[Balancer].maps[FeatureMap[f]] # 0}
    /\ balancerProgPath = progs_[Balancer].path

\* When attachBpfProgs, installFeature or removeFeature has returned and nothing
\* was reloaded since, the program on the interface is the one that is loaded
\* and the healthcheck filter of this process is in place; if installFeature has
\* answered TRUE the program on the interface has the feature.  (Where the loaded
\* program is not attached the answer is about the loaded one, and a second try
\* after a failed attach says TRUE at once.)
AttachedIsLoaded ==
  call = Idle /\ progsAttached_ /\ ~stale =>
    /\ config_.mode # "noRootMap" =>
         xdp = progs_[Balancer] /\ (answer # "none" => xdp.maps[FeatureMap[answer]] # 0)
    /\ config_.enableHc => progs_[Healthchecker] \in hcFilters

\* Nothing is left on an interface by an attach that threw (no balancer runs
\* without its healthchecker) or by the destructor, however the calls before it
\* ended, unless a detach was refused too, a process died, or clean-up is off.
NothingLeftBehind ==
  (call = Closed \/ (call = Idle /\ ~progsAttached_)) /\ ~leftBehind
    => xdp = NoProg /\ hcFilters = {}

\* Between calls a decapsulated packet recirculates into the loaded balancer,
\* never into one replaced by a reload, unless a reload threw half-way.
RecirculationCurrent ==
  call = Idle /\ progsLoaded_ /\ "reload" \notin threw /\ "inlineDecap" \in features_
    => subprograms = progs_[Balancer]

\* A balancer of this process on the interface has the connection table of
\* every forwarding core, through reloads too.
LrusBeforeTraffic ==
  xdp.gen > born => inner["lru_mapping"] = Core
=============================================================================
