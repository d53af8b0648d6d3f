------------------------------ MODULE BpfLoader ------------------------------
(***************************************************************************)
(* The BPF program loader (src/vsoshlb/lib/BpfLoader.cpp): programs and    *)
(* maps by name, and which kernel map a program loaded later works on.     *)
(*                                                                         *)
(* A file is its set of maps and its one program.  A kernel map is known   *)
(* by its name and by the number of the load that created it; 0 is "no     *)
(* map".  A program instance is the record of a load: its number, the file *)
(* and, for each map name, the kernel map the program is bound to.  File   *)
(* descriptors of one kernel map are not told apart.                       *)
(***************************************************************************)
EXTENDS Integers, FiniteSets

CONSTANTS
  Path,               \* files
  MapName,            \* names of maps
  ObjMaps,            \* [Path -> SUBSET MapName]: the maps of a file
  ObjProg,            \* [Path -> program names]: the program of a file
  knownDuplicateMaps_,\* maps that two files may both bring
  LongName,           \* names longer than kMaxSharedMapNameSize
  MaxLoads            \* bound: objects loaded into the kernel

ProgName == {ObjProg[p] : p \in Path}

ASSUME LoaderAssumption ==
  /\ DOMAIN ObjMaps = Path /\ DOMAIN ObjProg = Path
  /\ \A p \in Path : ObjMaps[p] \subseteq MapName
  /\ knownDuplicateMaps_ \subseteq MapName /\ LongName \subseteq MapName
  /\ MaxLoads \in Nat

VARIABLES
  progs_, maps_, sharedMaps_, innerMapsProto_, currentMaps_, bpfObjects_,
  loads               \* objects loaded into the kernel so far

loaderVars == <<progs_, maps_, sharedMaps_, innerMapsProto_, currentMaps_,
                bpfObjects_, loads>>

NoProg == [gen |-> 0, path |-> "none", maps |-> [n \in MapName |-> 0]]

LoaderInit ==
  /\ progs_ = [p \in ProgName |-> NoProg]
  /\ maps_ = [n \in MapName |-> 0]
  /\ sharedMaps_ = [n \in MapName |-> 0]
  /\ innerMapsProto_ = {}
  /\ currentMaps_ = [p \in ProgName |-> {}]
  /\ bpfObjects_ = {}
  /\ loads = 0

isMapInProg(prog, name) == name \in currentMaps_[prog]

\* bpf_object__load, then the program and its maps are entered: bound gives
\* the kernel map of each name of the file, override whether an entry of maps_
\* that exists is replaced.
bpf_object__load(path, bound, override) ==
  /\ loads < MaxLoads
  /\ loads' = loads + 1
  /\ progs_' = [progs_ EXCEPT ![ObjProg[path]] =
                  [gen |-> loads + 1, path |-> path,
                   maps |-> [n \in MapName |-> IF n \in ObjMaps[path] THEN bound[n] ELSE 0]]]
  /\ maps_' = [n \in MapName |->
                 IF n \in ObjMaps[path] /\ (override \/ maps_[n] = 0)
                 THEN bound[n] ELSE maps_[n]]
  /\ currentMaps_' = [currentMaps_ EXCEPT ![ObjProg[path]] = ObjMaps[path]]
  /\ bpfObjects_' = bpfObjects_ \cup {path}

\* loadBpfFile, loadBpfObject: names must be new; shared maps are reused,
\* all others are created.  A failure changes nothing.
LoadCollides(path) ==
  \/ path \in bpfObjects_
  \/ progs_[ObjProg[path]] # NoProg
  \/ \E n \in ObjMaps[path] \ knownDuplicateMaps_ : sharedMaps_[n] = 0 /\ maps_[n] # 0

loadBpfObject(path, ok) ==
  \/ ~ok /\ UNCHANGED loaderVars
  \/ /\ ok /\ ~LoadCollides(path)
     /\ bpf_object__load(path,
          [n \in MapName |-> IF sharedMaps_[n] # 0 THEN sharedMaps_[n] ELSE loads + 1], TRUE)
     /\ UNCHANGED <<sharedMaps_, innerMapsProto_>>

\* Mutant: a map that exists is created anew unless it was shared explicitly.
MutReloadFreshMaps(path, ok) ==
  \/ ~ok /\ UNCHANGED loaderVars
  \/ /\ ok /\ progs_[ObjProg[path]] # NoProg
     /\ bpf_object__load(path,
          [n \in MapName |-> IF sharedMaps_[n] # 0 THEN sharedMaps_[n] ELSE loads + 1], FALSE)
     /\ UNCHANGED <<sharedMaps_, innerMapsProto_>>

\* reloadBpfFromFile, reloadBpfObject: the program must be loaded already;
\* every map known by name is made shared and reused.  The maps are visited in
\* the order of the file and the first failure ends the call, with any number
\* of them made shared by then.
reloadBpfObject(path, ok) ==
  LET reused == {n \in ObjMaps[path] : sharedMaps_[n] = 0 /\ maps_[n] # 0}
      share(S) == [n \in MapName |-> IF n \in S THEN maps_[n] ELSE sharedMaps_[n]]
  IN
  \/ /\ ~ok /\ progs_[ObjProg[path]] = NoProg
     /\ UNCHANGED loaderVars
  \/ /\ ~ok /\ progs_[ObjProg[path]] # NoProg
     /\ \E S \in SUBSET (reused \ LongName) : sharedMaps_' = share(S)
     /\ UNCHANGED <<progs_, maps_, innerMapsProto_, currentMaps_, bpfObjects_, loads>>
  \/ /\ ok /\ progs_[ObjProg[path]] # NoProg /\ reused \cap LongName = {}
     /\ sharedMaps_' = share(reused)
     /\ bpf_object__load(path,
          [n \in MapName |-> IF share(reused)[n] # 0 THEN share(reused)[n] ELSE loads + 1],
          FALSE)
     /\ UNCHANGED innerMapsProto_

\* setInnerMapPrototype; the caller throws when it returns an error
setInnerMapPrototype(names) ==
  /\ innerMapsProto_' = innerMapsProto_ \cup names
  /\ UNCHANGED <<progs_, maps_, sharedMaps_, currentMaps_, bpfObjects_, loads>>
=============================================================================
