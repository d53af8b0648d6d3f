---------------------------- MODULE Subscriptions ----------------------------
(***************************************************************************)
(* MonitoringServiceCore (src/vsoshlb/lib/MonitoringServiceCore.{h,cpp}): *)
(* clients subscribe to events and cancel, each on a thread of the         *)
(* service, while the reader thread sends events and the owner initialises *)
(* the core, changes the limit and tears it down.  subscription_map_,      *)
(* curr_cid_ and every cb_subsmap_ have locks of their own, taken and      *)
(* given back one after the other; client_to_event_ids_ is written under   *)
(* the lock of subscription_map_ and read without it.                      *)
(*                                                                         *)
(* The service around the core (external) asks acceptSubscription, passes  *)
(* the result to onClientSubscribed, and calls onClientCanceled when the   *)
(* stream of the client ends.  EventPipe models what a callback sends.     *)
(***************************************************************************)
EXTENDS Integers, FiniteSets, Functions

CONSTANTS
  Client,          \* requests of clients; a request gets one cid
  Event,           \* getWriterEnabledEvents of the monitor
  Requests,        \* sets of events that clients ask for
  kDefaultClientLimit,
  Limits,          \* limits the owner passes to set_limit
  CancelAnytime,   \* may a stream end before onClientSubscribed returns?
  MaxSends         \* bound: events sent to one client

ASSUME SubscriptionsAssumption ==
  /\ IsFiniteSet(Client) /\ IsFiniteSet(Event)
  /\ Requests \subseteq SUBSET Event   \* one the monitor never writes is like one
                                       \* whose pipe could not be made
  /\ kDefaultClientLimit \in Nat /\ Limits \subseteq Nat
  /\ CancelAnytime \in BOOLEAN
  /\ MaxSends \in Nat

VARIABLES
  owner,
  enabled_events_,       \* also the keys of event_pipe_cbs_
  event_enabled_,        \* callbacks that are enabled
  piped,                 \* events whose pipe the monitor writes to (external)
  client_limit_, curr_cid_,
  subscription_map_,     \* cid -> client
  client_to_event_ids_,  \* cid -> events
  cb_subsmap_,           \* event -> cid -> client
  handler,               \* the thread that serves the request of a client
  canceler,              \* the thread that ends its stream
  sent                   \* client -> events it got

coreVars == <<enabled_events_, event_enabled_, piped>>
vars == <<owner, coreVars, client_limit_, curr_cid_, subscription_map_,
          client_to_event_ids_, cb_subsmap_, handler, canceler, sent>>

Empty == [x \in {} |-> x]
\* insert of the maps: a key that is there keeps its value
Insert(f, k, v) == [x \in DOMAIN f \cup {k} |-> IF x \in DOMAIN f THEN f[x] ELSE v]
Erase(f, k) == Restrict(f, DOMAIN f \ {k})

Init ==
  /\ owner = [at |-> "initialize", todo |-> Event]
  /\ enabled_events_ = {}
  /\ event_enabled_ = {}
  /\ piped = {}
  /\ client_limit_ = kDefaultClientLimit
  /\ curr_cid_ = 0
  /\ subscription_map_ = Empty
  /\ client_to_event_ids_ = Empty
  /\ cb_subsmap_ = [e \in Event |-> Empty]
  /\ handler = [c \in Client |-> [at |-> "none"]]
  /\ canceler = [c \in Client |-> [at |-> "none"]]
  /\ sent = [c \in Client |-> 0]

\* subscription_map_ is write-locked
Inserting == \E c \in Client : handler[c].at = "inserting"
-----------------------------------------------------------------------------
(* The owner *)

\* one turn of the loop of initialize: pipe2 fails, or the event is set up
initializeEvent(e) ==
  /\ owner.at = "initialize"
  /\ e \in owner.todo
  /\ owner' = [owner EXCEPT !.todo = @ \ {e}]
  /\ \/ UNCHANGED coreVars
     \/ /\ event_enabled_' = event_enabled_ \cup {e}
        /\ piped' = piped \cup {e}
        /\ enabled_events_' = enabled_events_ \cup {e}
  /\ UNCHANGED <<client_limit_, curr_cid_, subscription_map_, client_to_event_ids_,
                 cb_subsmap_, handler, canceler, sent>>

initialized ==
  /\ owner.at = "initialize"
  /\ owner.todo = {}
  /\ owner' = [at |-> "serving"]
  /\ UNCHANGED <<coreVars, client_limit_, curr_cid_, subscription_map_,
                 client_to_event_ids_, cb_subsmap_, handler, canceler, sent>>

initialized_ == owner.at # "initialize"

\* set_limit: the size is read under the lock, the limit written after it
set_limit(limit) ==
  /\ owner.at = "serving"
  /\ ~Inserting
  /\ limit >= Cardinality(DOMAIN subscription_map_)
  /\ owner' = [at |-> "limit", limit |-> limit]
  /\ UNCHANGED <<coreVars, client_limit_, curr_cid_, subscription_map_,
                 client_to_event_ids_, cb_subsmap_, handler, canceler, sent>>

writeLimit ==
  /\ owner.at = "limit"
  /\ client_limit_' = owner.limit
  /\ owner' = [at |-> "serving"]
  /\ UNCHANGED <<coreVars, curr_cid_, subscription_map_, client_to_event_ids_,
                 cb_subsmap_, handler, canceler, sent>>

\* tearDown: every callback is disabled, then every pipe taken from the monitor
tearDown ==
  /\ owner.at = "serving"
  /\ owner' = [at |-> "tearDown"]
  /\ UNCHANGED <<coreVars, client_limit_, curr_cid_, subscription_map_,
                 client_to_event_ids_, cb_subsmap_, handler, canceler, sent>>

tearDownEvent(e) ==
  /\ owner.at = "tearDown"
  /\ IF event_enabled_ # {}
     THEN /\ e \in event_enabled_
          /\ event_enabled_' = event_enabled_ \ {e}
          /\ UNCHANGED piped
     ELSE /\ e \in piped
          /\ piped' = piped \ {e}
          /\ UNCHANGED event_enabled_
  /\ UNCHANGED <<owner, enabled_events_, client_limit_, curr_cid_, subscription_map_,
                 client_to_event_ids_, cb_subsmap_, handler, canceler, sent>>
-----------------------------------------------------------------------------
(* The reader thread *)

\* a record of event e is sent under the lock of cb_subsmap_
sendEvent(e) ==
  /\ e \in event_enabled_
  /\ \A c \in Client : sent[c] < MaxSends
  /\ sent' = [c \in Client |->
       IF \E cid \in DOMAIN cb_subsmap_[e] : cb_subsmap_[e][cid] = c
       THEN sent[c] + 1 ELSE sent[c]]
  /\ UNCHANGED <<owner, coreVars, client_limit_, curr_cid_, subscription_map_,
                 client_to_event_ids_, cb_subsmap_, handler, canceler>>
-----------------------------------------------------------------------------
(* The thread that serves a request *)

NoCid(requested) ==
  \/ enabled_events_ = {}
  \/ requested = {}
  \/ Cardinality(DOMAIN subscription_map_) >= client_limit_
  \/ enabled_events_ \cap requested = {}

\* acceptSubscription up to its result without a client id, or up to the events
acceptSubscription(c, requested) ==
  /\ initialized_
  /\ handler[c].at = "none"
  /\ ~Inserting
  /\ handler' = [handler EXCEPT ![c] =
       IF NoCid(requested) THEN [at |-> "rejected"]
       ELSE [at |-> "checked", requested |-> requested,
             events |-> enabled_events_ \cap requested]]
  /\ UNCHANGED <<owner, coreVars, client_limit_, curr_cid_, subscription_map_,
                 client_to_event_ids_, cb_subsmap_, canceler, sent>>

\* Mutant: curr_cid_ is read and not counted up.
MutSameCid(c) ==
  /\ handler[c].at = "checked"
  /\ handler' = [handler EXCEPT ![c] =
       [at |-> "accepted", cid |-> curr_cid_, requested |-> @.requested,
        events |-> @.events]]
  /\ UNCHANGED <<owner, coreVars, client_limit_, curr_cid_, subscription_map_,
                 client_to_event_ids_, cb_subsmap_, canceler, sent>>

assignClientId(c) ==
  /\ handler[c].at = "checked"
  /\ curr_cid_' = curr_cid_ + 1
  /\ handler' = [handler EXCEPT ![c] =
       [at |-> "accepted", cid |-> curr_cid_, requested |-> @.requested,
        events |-> @.events]]
  /\ UNCHANGED <<owner, coreVars, client_limit_, subscription_map_,
                 client_to_event_ids_, cb_subsmap_, canceler, sent>>

\* Mutant: an event without a callback is not noticed.
MutNoLookup(c) ==
  /\ handler[c].at = "accepted"
  /\ \E events \in {handler[c].requested, handler[c].events} :
       handler' = [handler EXCEPT ![c] =
         [at |-> "adding", cid |-> @.cid, events |-> events, todo |-> events]]
  /\ UNCHANGED <<owner, coreVars, client_limit_, curr_cid_, subscription_map_,
                 client_to_event_ids_, cb_subsmap_, canceler, sent>>

\* onClientSubscribed -> addSubscription: the callbacks are looked up first;
\* one that is missing ends the call.  The service passes the events of the
\* result, or the ones the client asked for.
addSubscription(c) ==
  /\ handler[c].at = "accepted"
  /\ \E events \in {handler[c].requested, handler[c].events} :
       handler' = [handler EXCEPT ![c] =
         IF events \subseteq enabled_events_
         THEN [at |-> "adding", cid |-> @.cid, events |-> events, todo |-> events]
         ELSE [at |-> "failed", cid |-> @.cid]]
  /\ UNCHANGED <<owner, coreVars, client_limit_, curr_cid_, subscription_map_,
                 client_to_event_ids_, cb_subsmap_, canceler, sent>>

addClientSubscription(c, e) ==
  /\ handler[c].at = "adding"
  /\ e \in handler[c].todo
  /\ cb_subsmap_' = [cb_subsmap_ EXCEPT ![e] = Insert(@, handler[c].cid, c)]
  /\ handler' = [handler EXCEPT ![c].todo = @ \ {e}]
  /\ UNCHANGED <<owner, coreVars, client_limit_, curr_cid_, subscription_map_,
                 client_to_event_ids_, canceler, sent>>

\* the lock of subscription_map_ is taken for both maps
insertSubscription(c) ==
  /\ handler[c].at = "adding"
  /\ handler[c].todo = {}
  /\ ~Inserting
  /\ subscription_map_' = Insert(subscription_map_, handler[c].cid, c)
  /\ handler' = [handler EXCEPT ![c].at = "inserting"]
  /\ UNCHANGED <<owner, coreVars, client_limit_, curr_cid_, client_to_event_ids_,
                 cb_subsmap_, canceler, sent>>

insertEventIds(c) ==
  /\ handler[c].at = "inserting"
  /\ client_to_event_ids_' =
       Insert(client_to_event_ids_, handler[c].cid, handler[c].events)
  /\ handler' = [handler EXCEPT ![c].at = "subscribed"]
  /\ UNCHANGED <<owner, coreVars, client_limit_, curr_cid_, subscription_map_,
                 cb_subsmap_, canceler, sent>>
-----------------------------------------------------------------------------
(* The thread that ends a stream *)

MayCancel(c) ==
  IF CancelAnytime THEN handler[c].at \in {"accepted", "adding", "inserting", "subscribed"}
                   ELSE handler[c].at = "subscribed"

\* Mutant: a client without associated events is not cleaned up.
MutNoBestEffort(cid) ==
  {IF cid \in DOMAIN client_to_event_ids_ THEN client_to_event_ids_[cid] ELSE {}}
    \cup IF Inserting THEN {{}} ELSE {}

\* what find makes of client_to_event_ids_ without the lock: while another
\* thread inserts, it may miss an entry that is there.  Without an entry,
\* every callback is cleaned up.
EventsToClean(cid) ==
  {IF cid \in DOMAIN client_to_event_ids_ THEN client_to_event_ids_[cid]
                                          ELSE enabled_events_}
    \cup IF Inserting THEN {enabled_events_} ELSE {}

cancelSubscription(c) ==
  /\ MayCancel(c)
  /\ canceler[c].at = "none"
  /\ \E events \in EventsToClean(handler[c].cid) :
       canceler' = [canceler EXCEPT ![c] = [at |-> "removing", todo |-> events]]
  /\ UNCHANGED <<owner, coreVars, client_limit_, curr_cid_, subscription_map_,
                 client_to_event_ids_, cb_subsmap_, handler, sent>>

removeClientSubscription(c, e) ==
  /\ canceler[c].at = "removing"
  /\ e \in canceler[c].todo
  /\ cb_subsmap_' = [cb_subsmap_ EXCEPT ![e] = Erase(@, handler[c].cid)]
  /\ canceler' = [canceler EXCEPT ![c].todo = @ \ {e}]
  /\ UNCHANGED <<owner, coreVars, client_limit_, curr_cid_, subscription_map_,
                 client_to_event_ids_, handler, sent>>

eraseSubscription(c) ==
  /\ canceler[c].at = "removing"
  /\ canceler[c].todo = {}
  /\ ~Inserting
  /\ subscription_map_' = Erase(subscription_map_, handler[c].cid)
  /\ canceler' = [canceler EXCEPT ![c] = [at |-> "done"]]
  /\ UNCHANGED <<owner, coreVars, client_limit_, curr_cid_, client_to_event_ids_,
                 cb_subsmap_, handler, sent>>

OwnerStep ==
  \/ \E e \in Event : initializeEvent(e) \/ tearDownEvent(e)
  \/ initialized
  \/ \E limit \in Limits : set_limit(limit)
  \/ writeLimit
  \/ tearDown

ClientStep(c) ==
  \/ \E requested \in Requests : acceptSubscription(c, requested)
  \/ assignClientId(c)
  \/ addSubscription(c)
  \/ insertSubscription(c)
  \/ insertEventIds(c)
  \/ cancelSubscription(c)
  \/ eraseSubscription(c)
  \/ \E e \in Event : addClientSubscription(c, e) \/ removeClientSubscription(c, e)

Next ==
  \/ OwnerStep
  \/ \E e \in Event : sendEvent(e)
  \/ \E c \in Client : ClientStep(c)

Spec == Init /\ [][Next]_vars
-----------------------------------------------------------------------------
(* Properties *)

PartialFunctions(S, T) == UNION {[D -> T] : D \in SUBSET S}
Cid == 0 .. Cardinality(Client)
HandlerType ==
  [at : {"none", "rejected"}]
    \cup [at : {"checked"}, requested : SUBSET Event, events : SUBSET Event]
    \cup [at : {"accepted"}, cid : Cid, requested : SUBSET Event, events : SUBSET Event]
    \cup [at : {"failed"}, cid : Cid]
    \cup [at : {"adding", "inserting", "subscribed"}, cid : Cid,
          events : SUBSET Event, todo : SUBSET Event]

\* Maps have ids for keys, only callbacks that were set up have clients, and
\* every thread is at a place of its own.
TypeOK ==
  /\ owner.at \in {"initialize", "serving", "limit", "tearDown"}
  /\ event_enabled_ \subseteq enabled_events_ /\ piped \subseteq enabled_events_
  /\ client_limit_ \in Limits \cup {kDefaultClientLimit}
  /\ curr_cid_ \in Cid
  /\ subscription_map_ \in PartialFunctions(Cid, Client)
  /\ client_to_event_ids_ \in PartialFunctions(Cid, SUBSET enabled_events_)
  /\ \A e \in Event : cb_subsmap_[e] \in PartialFunctions(Cid, Client)
  /\ \A e \in Event \ enabled_events_ : cb_subsmap_[e] = Empty
  /\ handler \in [Client -> HandlerType]
  /\ canceler \in [Client -> [at : {"none", "done"}]
                               \cup [at : {"removing"}, todo : SUBSET Event]]
  /\ sent \in [Client -> 0 .. MaxSends]

\* what getSubscriptionMapForEvent returns
getSubscriptionMapForEvent(e) ==
  RestrictDomain(subscription_map_, LAMBDA cid :
    cid \in DOMAIN client_to_event_ids_ /\ e \in client_to_event_ids_[cid])

Quiet ==
  \A c \in Client : /\ handler[c].at \notin {"adding", "inserting"}
                    /\ canceler[c].at # "removing"

\* The maps that are written one after the other agree whenever no call is
\* under way: a callback sends exactly to the clients that
\* getSubscriptionMapForEvent finds for its event, and each of them under its
\* own id; a call that failed left nothing behind ("To avoid partial
\* progress", MonitoringServiceCore.cpp:166).
MapsAgree ==
  Quiet => /\ \A e \in Event : cb_subsmap_[e] = getSubscriptionMapForEvent(e)
           /\ \A cid \in DOMAIN subscription_map_ :
                handler[subscription_map_[cid]].cid = cid
           /\ \A c \in Client : handler[c].at = "subscribed" /\ canceler[c].at = "none" =>
                handler[c].cid \in DOMAIN subscription_map_
                  /\ subscription_map_[handler[c].cid] = c

\* "Remove subscription from all pipe event callbacks"
\* (MonitoringServiceCore.cpp:189): once onClientCanceled has returned, its
\* client gets no event any more.
NoEventAfterCancel ==
  [][\A c \in Client : canceler[c].at = "done" => sent'[c] = sent[c]]_vars
=============================================================================
