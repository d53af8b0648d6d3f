----------------------------- MODULE TprRouter ------------------------------
(***************************************************************************)
(* The user-space side of the TCP packet router: class TcpPktRouter        *)
(* (src/vsoshlb/tpr/TcpPktRouter.cpp) with its BpfSkeleton and its         *)
(* TPRStatsPoller (src/vsoshlb/tpr/TPRStatsPoller.cpp), a timer on the     *)
(* event base of the thread that called init.                              *)
(*                                                                         *)
(* One thread at a time calls the router; it need not be the thread of the *)
(* event base.  The rest of the process opens and closes descriptors of    *)
(* its own: one descriptor number is modelled, the one of map tpr_stats.   *)
(***************************************************************************)
EXTENDS Integers

CONSTANT kMaxServerId  \* largest id that fits 24 bits

ASSUME TprAssumption == kMaxServerId \in Nat \ {0}

Id == 0 .. kMaxServerId
SERVER == "server"
CLIENT == "client"

VARIABLES
  mode_,           \* SERVER or CLIENT
  isInitialized_,
  v6Id_,           \* not initialised by the constructor: anything
  skel_,           \* "closed", "open", "loaded" ("mapless" if without tpr_stats), or
                   \* "gone" with the router
  attached,        \* the program is attached to the cgroup
  server_infos,    \* the map's element: the id the program answers with
  statsPoller_,    \* [made, shutdown_, armed]: armed when its timeout is scheduled
  evb,             \* where the event base's thread is in timeoutExpired
  pc,              \* where the caller is in shutdown() or the destructor
  caller,          \* [onEvb, destroying]: the call in progress
  fd,              \* what the descriptor number statsMapFd_ denotes
  leftAttached,    \* a program is attached whose router is gone
  told,            \* history: latest id for which setServerIdV6 answered true, or -1
  updateFailed,    \* history: the latest updateServerInfo failed
  excused,         \* history: init failed once attached, or a detach in the
                   \* destructor failed, or the process crashed
  foreign          \* history: who used, in this step, the number when it was not
                   \* the map's

router == <<mode_, isInitialized_, v6Id_, skel_>>
kernel == <<attached, server_infos, leftAttached>>
threads == <<statsPoller_, evb, pc, caller>>
history == <<told, updateFailed, excused>>
vars == <<router, kernel, threads, fd, history, foreign>>

NoPoller == [made |-> FALSE, shutdown_ |-> FALSE, armed |-> FALSE]
NoCall == [onEvb |-> FALSE, destroying |-> FALSE]

\* The number is used by who; it should denote the map.
uses(who) == foreign' = IF fd = "stats" THEN "none" ELSE who
\* close() of the number by who; nothing happens when it is free
closes(who) ==
  /\ fd' = "free"
  /\ foreign' = IF fd = "other" THEN who ELSE "none"
quiet == foreign' = "none"
-----------------------------------------------------------------------------
(* The constructor; other code of the process; a crash *)

constructed ==
  /\ mode_' \in {SERVER, CLIENT}
  /\ v6Id_' \in 0 .. kMaxServerId + 1
  /\ isInitialized_' = FALSE /\ skel_' = "closed"
  /\ attached' = FALSE /\ server_infos' = 0
  /\ statsPoller_' = NoPoller /\ evb' = "idle" /\ pc' = "idle" /\ caller' = NoCall
  /\ told' = -1 /\ updateFailed' = FALSE
  /\ quiet

TcpPktRouter ==
  /\ skel_ = "gone"
  /\ constructed
  /\ UNCHANGED <<leftAttached, fd, excused>>

\* The process ends, a CHECK that fails included; cgroup attachments outlive it.
crash ==
  /\ skel_ # "gone"
  /\ leftAttached' = (leftAttached \/ attached)
  /\ excused' = TRUE /\ fd' = "free"
  /\ constructed

otherOpen ==
  /\ fd = "free" /\ fd' = "other" /\ quiet
  /\ UNCHANGED <<router, kernel, threads, history>>
otherClose ==
  /\ fd = "other" /\ fd' = "free" /\ quiet
  /\ UNCHANGED <<router, kernel, threads, history>>
-----------------------------------------------------------------------------
(* TcpPktRouter::init, called on the thread of the event base: the timer     *)
(* cannot run before it returns.                                             *)

updateServerInfo(ok) ==
  /\ updateFailed' = ~ok
  /\ server_infos' = IF ~ok THEN server_infos ELSE IF mode_ = SERVER THEN v6Id_ ELSE 0

canInit ==
  /\ pc = "idle" /\ evb = "idle" /\ ~isInitialized_ /\ skel_ = "closed"
  /\ quiet
  /\ UNCHANGED <<mode_, v6Id_, leftAttached, evb, pc, caller, told>>

\* skel_.load fails, or the program has no descriptor, or it cannot be attached.
\* (Where open fails nothing changes; a skeleton that is open makes it fail.)
initFailsEarly(loaded) ==
  /\ canInit
  /\ skel_' = IF loaded THEN "loaded" ELSE "open"
  /\ fd' = IF loaded THEN "stats" ELSE fd
  /\ UNCHANGED <<isInitialized_, attached, server_infos, statsPoller_, updateFailed, excused>>

\* updateServerInfo fails: the program stays attached and shutdown() does nothing.
initFailsAttached ==
  /\ canInit
  /\ skel_' = "loaded" /\ fd' = "stats" /\ attached' = TRUE /\ excused' = TRUE
  /\ updateServerInfo(FALSE)
  /\ UNCHANGED <<isInitialized_, statsPoller_>>

\* poller is what statsPoller_ becomes: none if statistics are not polled; armed
\* unless the number of cpus could not be read.
initDone(poller) ==
  /\ canInit
  /\ skel_' = "loaded" /\ fd' = "stats" /\ attached' = TRUE
  /\ updateServerInfo(TRUE)
  /\ isInitialized_' = TRUE
  /\ statsPoller_' = poller
  /\ UNCHANGED excused

\* The statistics map has no descriptor: init shuts down, and answers with the
\* result of that, though the router is not initialised.
initShutsDown(detached) ==
  /\ canInit
  /\ skel_' = "mapless" /\ UNCHANGED fd
  /\ updateServerInfo(TRUE)
  /\ attached' = ~detached /\ isInitialized_' = ~detached
  /\ UNCHANGED <<statsPoller_, excused>>
-----------------------------------------------------------------------------
(* Other calls *)

\* Mutant: the map is written only if the router is not yet initialised.
MutSetBeforeInit(id, ok) ==
  /\ pc = "idle" /\ skel_ # "gone" /\ mode_ = SERVER
  /\ v6Id_' = id
  /\ told' = id
  /\ UNCHANGED <<server_infos, updateFailed>> /\ ok
  /\ quiet
  /\ UNCHANGED <<mode_, isInitialized_, skel_, attached, leftAttached, threads, fd, excused>>

\* TcpPktRouter::setServerIdV6 for an id that fits; the others are refused.
setServerIdV6(id, ok) ==
  /\ pc = "idle" /\ skel_ # "gone" /\ mode_ = SERVER
  /\ v6Id_' = id
  /\ IF v6Id_ # id /\ isInitialized_
     THEN /\ updateFailed' = ~ok
          /\ server_infos' = IF ok THEN id ELSE server_infos
          /\ told' = IF ok THEN id ELSE told
     ELSE told' = id /\ UNCHANGED <<server_infos, updateFailed>>
  /\ quiet
  /\ UNCHANGED <<mode_, isInitialized_, skel_, attached, leftAttached, threads, fd, excused>>

\* TcpPktRouter::collectTPRStats: the lookup; before it nothing changes.
collectTPRStats ==
  /\ pc = "idle" /\ isInitialized_ /\ statsPoller_.made
  /\ uses("collectTPRStats")
  /\ UNCHANGED <<router, kernel, threads, fd, history>>
-----------------------------------------------------------------------------
(* The timer on the event base's thread *)

evbFree == ~(pc # "idle" /\ caller.onEvb)

\* TPRStatsPoller::timeoutExpired up to its check of shutdown_
timeoutExpired ==
  /\ evb = "idle" /\ evbFree /\ statsPoller_.armed
  /\ statsPoller_' = [statsPoller_ EXCEPT !.armed = FALSE]
  /\ evb' = IF statsPoller_.shutdown_ THEN "idle" ELSE "update"
  /\ quiet
  /\ UNCHANGED <<router, kernel, pc, caller, fd, history>>

\* updateStatsPeriodically up to its check of shutdown_
updateStatsPeriodically ==
  /\ evb = "update"
  /\ evb' = IF statsPoller_.shutdown_ THEN "schedule" ELSE "lookup"
  /\ quiet
  /\ UNCHANGED <<router, kernel, statsPoller_, pc, caller, fd, history>>

\* TPRStatsPoller::collectTPRStats: bpf_map_lookup_elem(statsMapFd_, ...)
lookupStats ==
  /\ evb = "lookup"
  /\ evb' = "schedule"
  /\ uses("timeoutExpired")
  /\ UNCHANGED <<router, kernel, statsPoller_, pc, caller, fd, history>>

\* scheduleTimeout(kTenSecondsInMs), the last statement of timeoutExpired
scheduleTimeout ==
  /\ evb = "schedule"
  /\ evb' = "idle"
  /\ statsPoller_' = [statsPoller_ EXCEPT !.armed = TRUE]
  /\ quiet
  /\ UNCHANGED <<router, kernel, pc, caller, fd, history>>
-----------------------------------------------------------------------------
(* TcpPktRouter::shutdown and the destructor.  On the thread of the event    *)
(* base they run while the timer does not.                                   *)

\* Mutant: TPRStatsPoller::shutdown does not look whether it has run before.
MutShutdownAgain(onEvb, destroying) ==
  /\ pc = "idle" /\ skel_ # "gone"
  /\ onEvb => evb = "idle"
  /\ destroying \/ isInitialized_
  /\ caller' = [onEvb |-> onEvb, destroying |-> destroying]
  /\ IF ~isInitialized_ THEN pc' = "destroy" /\ UNCHANGED statsPoller_
     ELSE IF statsPoller_.made
     THEN pc' = "close" /\ statsPoller_' = [statsPoller_ EXCEPT !.shutdown_ = TRUE]
     ELSE pc' = "detach" /\ UNCHANGED statsPoller_
  /\ quiet
  /\ UNCHANGED <<router, kernel, evb, fd, history>>

\* shutdown() up to shutdown_ = true of the poller; on a router that is not
\* initialised it returns, and the destructor goes on to the members.
shutdown(onEvb, destroying) ==
  /\ pc = "idle" /\ skel_ # "gone"
  /\ onEvb => evb = "idle"
  /\ destroying \/ isInitialized_
  /\ caller' = [onEvb |-> onEvb, destroying |-> destroying]
  /\ IF ~isInitialized_ THEN pc' = "destroy" /\ UNCHANGED statsPoller_
     ELSE IF statsPoller_.made /\ ~statsPoller_.shutdown_
     THEN pc' = "close" /\ statsPoller_' = [statsPoller_ EXCEPT !.shutdown_ = TRUE]
     ELSE pc' = "detach" /\ UNCHANGED statsPoller_
  /\ quiet
  /\ UNCHANGED <<router, kernel, evb, fd, history>>

\* ::close(statsMapFd_)
closeStatsMap ==
  /\ pc = "close"
  /\ pc' = "cancel"
  /\ closes("shutdown")
  /\ UNCHANGED <<router, kernel, statsPoller_, evb, caller, history>>

\* Mutant: the timer is cancelled from the caller's thread, whatever the loop does.
MutCancelHere ==
  /\ pc = "cancel" /\ pc' = "detach"
  /\ statsPoller_' = [statsPoller_ EXCEPT !.armed = FALSE]
  /\ quiet
  /\ UNCHANGED <<router, kernel, evb, caller, fd, history>>

\* Mutant: the caller posts the cancellation to the loop and waits, also when it
\* is the thread of the loop.
MutAlwaysPost ==
  /\ pc = "cancel" /\ evb = "idle" /\ ~caller.onEvb /\ pc' = "detach"
  /\ statsPoller_' = [statsPoller_ EXCEPT !.armed = FALSE]
  /\ quiet
  /\ UNCHANGED <<router, kernel, evb, caller, fd, history>>

\* runImmediatelyOrRunInEventBaseThreadAndWait(cancelTimeout): at once on the
\* thread of the event base, else between two events of its loop
cancelTimeout ==
  /\ pc = "cancel" /\ evb = "idle" /\ pc' = "detach"
  /\ statsPoller_' = [statsPoller_ EXCEPT !.armed = FALSE]
  /\ quiet
  /\ UNCHANGED <<router, kernel, evb, caller, fd, history>>

\* Mutant: the router counts as shut down although the program is still attached.
MutDetachForgets(ok) ==
  /\ pc = "detach" /\ pc' = IF caller.destroying THEN "destroy" ELSE "idle"
  /\ attached' = ~ok /\ isInitialized_' = FALSE
  /\ excused' = (excused \/ (~ok /\ caller.destroying))
  /\ caller' = IF caller.destroying THEN caller ELSE NoCall
  /\ quiet
  /\ UNCHANGED <<mode_, v6Id_, skel_, server_infos, leftAttached, statsPoller_, evb, fd,
                 told, updateFailed>>

\* detachCgroupProg: on failure the router stays initialised, so that shutdown()
\* can be called again; the destructor goes on in any case.
detachCgroupProg(ok) ==
  /\ pc = "detach" /\ pc' = IF caller.destroying THEN "destroy" ELSE "idle"
  /\ attached' = ~ok /\ isInitialized_' = ~ok
  /\ excused' = (excused \/ (~ok /\ caller.destroying))
  /\ caller' = IF caller.destroying THEN caller ELSE NoCall
  /\ quiet
  /\ UNCHANGED <<mode_, v6Id_, skel_, server_infos, leftAttached, statsPoller_, evb, fd,
                 told, updateFailed>>

\* The members, in reverse order of declaration: the skeleton closes the maps'
\* descriptors, the poller's destructor calls its shutdown() once more.
destroyMembers ==
  /\ pc = "destroy" /\ pc' = "idle"
  /\ skel_' = "gone" /\ isInitialized_' = FALSE
  /\ IF skel_ = "loaded" THEN closes("destroy") ELSE quiet /\ UNCHANGED fd
  /\ attached' = FALSE /\ leftAttached' = (leftAttached \/ attached)
  /\ caller' = NoCall
  /\ UNCHANGED <<mode_, v6Id_, server_infos, statsPoller_, evb, history>>
-----------------------------------------------------------------------------
Init ==
  /\ mode_ \in {SERVER, CLIENT}
  /\ v6Id_ \in 0 .. kMaxServerId + 1
  /\ isInitialized_ = FALSE /\ skel_ = "closed"
  /\ attached = FALSE /\ server_infos = 0 /\ leftAttached = FALSE
  /\ statsPoller_ = NoPoller /\ evb = "idle" /\ pc = "idle" /\ caller = NoCall
  /\ fd = "free"
  /\ told = -1 /\ updateFailed = FALSE /\ excused = FALSE /\ foreign = "none"

Timer == timeoutExpired \/ updateStatsPeriodically \/ lookupStats \/ scheduleTimeout
Stopping ==
  closeStatsMap \/ cancelTimeout \/ (\E ok \in BOOLEAN : detachCgroupProg(ok)) \/ destroyMembers

Next ==
  \/ TcpPktRouter \/ crash \/ otherOpen \/ otherClose
  \/ \E b \in BOOLEAN : initFailsEarly(b) \/ initShutsDown(b)
  \/ initFailsAttached
  \/ \E p \in {NoPoller} \cup [made : {TRUE}, shutdown_ : {FALSE}, armed : BOOLEAN] : initDone(p)
  \/ \E id \in Id, ok \in BOOLEAN : setServerIdV6(id, ok)
  \/ collectTPRStats
  \/ \E onEvb, destroying \in BOOLEAN : shutdown(onEvb, destroying)
  \/ Timer
  \/ Stopping

\* Both threads run on: the caller's while it shuts down, the event base's loop
\* whenever something is due.
Spec == Init /\ [][Next]_vars /\ WF_vars(Timer) /\ WF_vars(Stopping)
-----------------------------------------------------------------------------
(* Properties *)

\* The program answers with the id that the router holds and that setServerIdV6
\* last confirmed, whether it was set before init or after, unless writing the
\* map failed: then a retry with the same id is confirmed and nothing is written.
IdPublished ==
  isInitialized_ /\ mode_ = SERVER /\ ~updateFailed
    => server_infos = v6Id_ /\ told \in {-1, v6Id_}

\* A program is attached only while a router that can detach it counts as
\* initialised: no failed step of a shutdown, no retry and no destructor leaves
\* one behind.  Excepted are an init that fails after it attached, a destructor
\* whose detach fails, and a crash.
NothingAttachedBehind ==
  ~excused => ~leftAttached /\ (attached => isInitialized_)

\* A descriptor number that is not the statistics map's is used in three ways only:
\* by a timeout that passed its check of shutdown_ before a shutdown on another
\* thread closed the map; by collectTPRStats after a detach failed; and by the
\* skeleton, which closes the number the poller closed before it.  In particular
\* the poller closes it once, however often shutdown is called.
OwnDescriptors ==
  [][foreign' # "none" =>
       \/ foreign' = "timeoutExpired" /\ pc = "cancel" /\ ~caller.onEvb
       \/ foreign' = "collectTPRStats" /\ statsPoller_.shutdown_
       \/ foreign' = "destroy" /\ statsPoller_.shutdown_]_vars

\* Once the shutdown of the poller has returned its timer is not armed and not
\* running, so that it never runs on a poller that is destroyed, although a
\* timeout that passed its check arms the timer again after shutdown_ was set.
TimerStopped ==
  statsPoller_.shutdown_ /\ pc \notin {"close", "cancel"}
    => ~statsPoller_.armed /\ evb = "idle"

\* shutdown() and the destructor return, on whichever thread they are called.
ShutdownReturns == (pc # "idle") ~> (pc = "idle")
=============================================================================
