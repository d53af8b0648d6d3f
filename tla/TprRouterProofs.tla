--------------------------- MODULE TprRouterProofs ---------------------------
(* Theorems about TprRouter, for every kMaxServerId. *)
EXTENDS TprRouter, TLAPS

(* The inductive invariant *)

Poller == [made : BOOLEAN, shutdown_ : BOOLEAN, armed : BOOLEAN]
Types ==
  /\ isInitialized_ \in BOOLEAN /\ attached \in BOOLEAN /\ leftAttached \in BOOLEAN
  /\ updateFailed \in BOOLEAN /\ excused \in BOOLEAN
  /\ skel_ \in {"closed", "open", "loaded", "mapless", "gone"}
  /\ statsPoller_ \in Poller
  /\ evb \in {"idle", "update", "lookup", "schedule"}
  /\ pc \in {"idle", "close", "cancel", "detach", "destroy"}
  /\ caller \in [onEvb : BOOLEAN, destroying : BOOLEAN]
  /\ fd \in {"free", "other", "stats"}

\* A poller exists from a successful init on and is shut down before the router
\* stops counting as initialised, so the destructor never meets a running one.
PollerLife ==
  /\ ~statsPoller_.made => ~statsPoller_.shutdown_ /\ ~statsPoller_.armed /\ evb = "idle"
  /\ statsPoller_.made => skel_ \in {"loaded", "gone"}
  /\ statsPoller_.made /\ ~statsPoller_.shutdown_ => isInitialized_ /\ pc = "idle"
  /\ pc \in {"close", "cancel"} => statsPoller_.shutdown_

\* The timer is armed or running, not both; and it does not run while its thread
\* is inside shutdown() or the destructor.
TimerThread ==
  /\ evb # "idle" => ~statsPoller_.armed
  /\ evb # "idle" => evbFree

\* What each stage of a shutdown finds
CallerPlace ==
  /\ pc \in {"close", "cancel", "detach"} => isInitialized_
  /\ pc = "destroy" /\ ~excused => ~isInitialized_
  /\ skel_ = "gone" => pc = "idle" /\ ~attached
  /\ pc = "idle" => caller = NoCall

\* The router's state against its skeleton
RouterLife ==
  /\ isInitialized_ => skel_ \in {"loaded", "mapless"}
  /\ skel_ = "closed" => ~updateFailed /\ ~attached
  /\ ~updateFailed => told \in {-1, v6Id_}

\* statsMapFd_ denotes the map from its loading until the poller closes it.
Descriptor ==
  /\ skel_ = "loaded" /\ ~statsPoller_.shutdown_ => fd = "stats"
  /\ pc = "close" => fd = "stats"
  /\ fd = "stats" => skel_ = "loaded"

IndInv ==
  /\ Types
  /\ PollerLife
  /\ TimerThread
  /\ CallerPlace
  /\ RouterLife
  /\ Descriptor
  /\ TimerStopped
  /\ NothingAttachedBehind
  /\ IdPublished
-----------------------------------------------------------------------------
USE DEF Types, Poller, PollerLife, TimerThread, CallerPlace, RouterLife, Descriptor,
        TimerStopped, NothingAttachedBehind, IdPublished, evbFree,
        NoPoller, NoCall, SERVER, CLIENT,
        router, kernel, threads, history

(* A new router starts over; the process's other descriptors are not the map's. *)
LEMMA OutsideStep ==
  ASSUME IndInv, TcpPktRouter \/ crash \/ otherOpen \/ otherClose
  PROVE  IndInv'
<1> USE DEF IndInv
<1>1. CASE TcpPktRouter
  BY <1>1 DEF TcpPktRouter, constructed
<1>2. CASE crash
  BY <1>2 DEF crash, constructed
<1>3. CASE otherOpen
  BY <1>3 DEF otherOpen
<1>4. CASE otherClose
  BY <1>4 DEF otherClose
<1> QED BY <1>1, <1>2, <1>3, <1>4

(* However far init gets, what it leaves is a router without a poller, or an
   initialised one whose program answers with the id that was set before.    *)
LEMMA InitStep ==
  ASSUME IndInv,
         \/ \E b \in BOOLEAN : initFailsEarly(b) \/ initShutsDown(b)
         \/ initFailsAttached
         \/ \E p \in {NoPoller} \cup [made : {TRUE}, shutdown_ : {FALSE}, armed : BOOLEAN] :
              initDone(p)
  PROVE  IndInv'
<1> USE DEF IndInv, canInit, updateServerInfo
<1>1. ASSUME NEW b \in BOOLEAN, initFailsEarly(b)
      PROVE  IndInv'
  BY <1>1 DEF initFailsEarly
<1>2. ASSUME NEW b \in BOOLEAN, initShutsDown(b)
      PROVE  IndInv'
  BY <1>2 DEF initShutsDown
<1>3. CASE initFailsAttached
  BY <1>3 DEF initFailsAttached
<1>4. ASSUME NEW p \in {NoPoller} \cup [made : {TRUE}, shutdown_ : {FALSE}, armed : BOOLEAN],
             initDone(p)
      PROVE  IndInv'
  BY <1>4 DEF initDone
<1> QED BY <1>1, <1>2, <1>3, <1>4

(* Confirming an id, or failing to write it, keeps what is published true. *)
LEMMA CallStep ==
  ASSUME IndInv,
         collectTPRStats \/ \E id \in Id, ok \in BOOLEAN : setServerIdV6(id, ok)
  PROVE  IndInv'
<1> USE DEF IndInv
<1>1. CASE collectTPRStats
  BY <1>1 DEF collectTPRStats
<1>2. ASSUME NEW id \in Id, NEW ok \in BOOLEAN, setServerIdV6(id, ok)
      PROVE  IndInv'
  BY <1>2 DEF setServerIdV6
<1> QED BY <1>1, <1>2

(* The steps of a timeout, on the thread of the event base *)
LEMMA TimerStep == ASSUME IndInv, Timer PROVE IndInv'
<1> USE DEF IndInv
<1>1. CASE timeoutExpired
  BY <1>1 DEF timeoutExpired
<1>2. CASE updateStatsPeriodically
  BY <1>2 DEF updateStatsPeriodically
<1>3. CASE lookupStats
  BY <1>3 DEF lookupStats
<1>4. CASE scheduleTimeout
  BY <1>4, ZenonT(60) DEF scheduleTimeout
<1> QED BY <1>1, <1>2, <1>3, <1>4 DEF Timer

(* The call of shutdown() or of the destructor: a poller that still runs is
   told to stop, one that is shut down already is not shut down again.       *)
LEMMA ShutdownStep ==
  ASSUME IndInv, NEW onEvb \in BOOLEAN, NEW destroying \in BOOLEAN,
         shutdown(onEvb, destroying)
  PROVE  IndInv'
<1> USE DEF IndInv
<1>1. CASE ~isInitialized_
  BY <1>1 DEF shutdown
<1>2. CASE isInitialized_ /\ statsPoller_.made /\ ~statsPoller_.shutdown_
  <2>1. /\ statsPoller_' = [statsPoller_ EXCEPT !.shutdown_ = TRUE] /\ pc' = "close"
        /\ caller' = [onEvb |-> onEvb, destroying |-> destroying]
        /\ onEvb => evb = "idle"
        /\ UNCHANGED <<router, kernel, evb, fd, history>>
    BY <1>2 DEF shutdown
  <2>2. Types'
    BY <2>1
  <2>3. PollerLife' /\ TimerStopped'
    BY <1>2, <2>1
  <2>4. TimerThread'
    BY <2>1
  <2>5. Descriptor'
    BY <1>2, <2>1 DEF shutdown
  <2>6. CallerPlace' /\ RouterLife' /\ NothingAttachedBehind' /\ IdPublished'
    BY <1>2, <2>1 DEF shutdown
  <2> QED BY <2>2, <2>3, <2>4, <2>5, <2>6
<1>3. CASE isInitialized_ /\ ~(statsPoller_.made /\ ~statsPoller_.shutdown_)
  BY <1>3 DEF shutdown
<1> QED BY <1>1, <1>2, <1>3

(* The rest of a shutdown: the map is closed first and the timer cancelled
   next, between two events of the loop; a detach that fails leaves the router
   initialised, to be shut down again.                                       *)
LEMMA StoppingStep == ASSUME IndInv, Stopping PROVE IndInv'
<1> USE DEF IndInv
<1>1. CASE closeStatsMap
  BY <1>1 DEF closeStatsMap, closes
<1>2. CASE cancelTimeout
  BY <1>2 DEF cancelTimeout
<1>3. ASSUME NEW ok \in BOOLEAN, detachCgroupProg(ok)
      PROVE  IndInv'
  BY <1>3 DEF detachCgroupProg
<1>4. CASE destroyMembers
  BY <1>4 DEF destroyMembers, closes
<1> QED BY <1>1, <1>2, <1>3, <1>4 DEF Stopping

(* IndInv holds in every state of every behaviour. *)
THEOREM Inductive == Spec => []IndInv
<1>1. Init => IndInv
  <2> SUFFICES ASSUME Init PROVE IndInv
    OBVIOUS
  <2>1. Types
    BY DEF Init
  <2>2. PollerLife /\ TimerThread /\ CallerPlace /\ RouterLife /\ Descriptor
    BY DEF Init
  <2>3. TimerStopped /\ NothingAttachedBehind /\ IdPublished
    BY DEF Init
  <2> QED BY <2>1, <2>2, <2>3 DEF IndInv
<1>2. IndInv /\ [Next]_vars => IndInv'
  <2> SUFFICES ASSUME IndInv, [Next]_vars PROVE IndInv'
    OBVIOUS
  <2>1. CASE UNCHANGED vars
    BY <2>1 DEF vars, IndInv
  <2>2. CASE Next
    <3> USE <2>2
    <3> QED BY OutsideStep, InitStep, CallStep, TimerStep, ShutdownStep, StoppingStep
            DEF Next
  <2> QED BY <2>1, <2>2
<1> QED BY <1>1, <1>2, PTL DEF Spec
-----------------------------------------------------------------------------
(* Once TPRStatsPoller::shutdown has returned, its timer is neither armed nor
   running, whichever thread called it and wherever the timeout was: the
   cancellation runs between two events of the loop, and a timeout that comes
   later finds shutdown_ set.                                                *)
THEOREM TimerNeverOutlivesPoller == Spec => []TimerStopped
<1>1. IndInv => TimerStopped
  BY DEF IndInv
<1> QED BY <1>1, Inductive, PTL

(* No failed step, retry or destructor of TcpPktRouter leaves a program on the
   cgroup that nobody can detach, but for the excepted failures.             *)
THEOREM ProgramIsDetachable == Spec => []NothingAttachedBehind
<1>1. IndInv => NothingAttachedBehind
  BY DEF IndInv
<1> QED BY <1>1, Inductive, PTL

(* The map server_infos holds the id the router holds and has confirmed last. *)
THEOREM PublishedIdIsConfirmed == Spec => []IdPublished
<1>1. IndInv => IdPublished
  BY DEF IndInv
<1> QED BY <1>1, Inductive, PTL

(* No step uses a descriptor number of somebody else in a way that
   OwnDescriptors does not list; the poller closes its number once.          *)
THEOREM ForeignDescriptorUses == Spec => OwnDescriptors
<1> DEFINE Allowed ==
      \/ foreign' = "timeoutExpired" /\ pc = "cancel" /\ ~caller.onEvb
      \/ foreign' = "collectTPRStats" /\ statsPoller_.shutdown_
      \/ foreign' = "destroy" /\ statsPoller_.shutdown_
<1>1. ASSUME IndInv, [Next]_vars PROVE [foreign' # "none" => Allowed]_vars
  <2> SUFFICES ASSUME Next, foreign' # "none" PROVE Allowed
    BY <1>1
  <2> USE <1>1 DEF IndInv
  <2>1. CASE collectTPRStats
    BY <2>1 DEF collectTPRStats, uses
  <2>2. CASE lookupStats
    BY <2>2 DEF lookupStats, uses
  <2>3. CASE closeStatsMap
    BY <2>3 DEF closeStatsMap, closes
  <2>4. CASE destroyMembers
    BY <2>4 DEF destroyMembers, closes, quiet
  <2>5. CASE quiet
    BY <2>5 DEF quiet
  <2> QED BY <2>1, <2>2, <2>3, <2>4, <2>5
          DEF Next, Timer, Stopping, TcpPktRouter, crash, constructed, otherOpen, otherClose,
              canInit, initFailsEarly, initFailsAttached, initDone, initShutsDown,
              setServerIdV6, timeoutExpired, updateStatsPeriodically, scheduleTimeout,
              shutdown, cancelTimeout, detachCgroupProg
<1> QED BY <1>1, Inductive, PTL DEF Spec, OwnDescriptors
=============================================================================
