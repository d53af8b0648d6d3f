------------------------- MODULE SubscriptionsProofs -------------------------
(* Theorems about Subscriptions: for any number of clients and events, any
   requests and limits, and every interleaving of the threads of the service. *)
EXTENDS Subscriptions, FiniteSetTheorems, TLAPS

(* The inductive invariant *)

WithCid == {c \in Client : handler[c].at \in {"accepted", "failed", "adding", "inserting",
                                              "subscribed"}}

\* A client id is given once, to one request.
CidInv ==
  /\ \A c \in WithCid : handler[c].cid < curr_cid_
  /\ \A c, d \in WithCid : handler[c].cid = handler[d].cid => c = d
  /\ curr_cid_ = Cardinality(WithCid)

\* Threads work on events whose callback exists; these are never taken away.
EventInv ==
  /\ owner.at = "limit" => owner.limit \in Limits
  /\ enabled_events_ \subseteq Event
  /\ DOMAIN cb_subsmap_ = Event
  /\ \A c \in Client :
       /\ handler[c].at \in {"adding", "inserting", "subscribed"} =>
            /\ handler[c].events \subseteq enabled_events_
            /\ handler[c].todo \subseteq handler[c].events
            /\ handler[c].at # "adding" => handler[c].todo = {}
       /\ canceler[c].at = "removing" => canceler[c].todo \subseteq enabled_events_
       /\ canceler[c].at # "none" => c \in WithCid

\* The clients that the callback of e sends to
Receivers(e) ==
  {c \in Client :
     /\ handler[c].at \in {"adding", "inserting", "subscribed"}
     /\ e \in handler[c].events \ handler[c].todo
     /\ canceler[c].at = "none" \/ (canceler[c].at = "removing" /\ e \in canceler[c].todo)}

\* The clients in subscription_map_
Listed ==
  {c \in Client : \/ handler[c].at = "inserting"
                  \/ handler[c].at = "subscribed" /\ canceler[c].at # "done"}

\* The entries of a map cid -> client are those of the clients of S.
EntriesAre(map, S, h) ==
  /\ \A cid \in DOMAIN map : map[cid] \in S /\ h[map[cid]].cid = cid
  /\ \A c \in S : h[c].cid \in DOMAIN map

\* client_to_event_ids_ has the events of the clients that are subscribed, and
\* of those that were.
IdsInv ==
  /\ \A cid \in DOMAIN client_to_event_ids_ : \E c \in Client :
       /\ handler[c].at = "subscribed" /\ handler[c].cid = cid
       /\ client_to_event_ids_[cid] = handler[c].events
  /\ \A c \in Client :
       handler[c].at = "subscribed" => handler[c].cid \in DOMAIN client_to_event_ids_

\* Where a stream ends only after onClientSubscribed, what is in the three maps
\* follows from where the threads of a client are.
MapsInv ==
  /\ \A c \in Client : canceler[c].at # "none" => handler[c].at = "subscribed"
  /\ \A e \in Event : EntriesAre(cb_subsmap_[e], Receivers(e), handler)
  /\ EntriesAre(subscription_map_, Listed, handler)
  /\ IdsInv

IndInv == TypeOK /\ CidInv /\ EventInv /\ (~CancelAnytime => MapsInv)
-----------------------------------------------------------------------------
(* The maps *)

LEMMA PartialFunction ==
  ASSUME NEW S, NEW T, NEW f
  PROVE  f \in PartialFunctions(S, T) <=> f \in [DOMAIN f -> T] /\ DOMAIN f \subseteq S
BY DEF PartialFunctions

LEMMA InsertOne ==
  ASSUME NEW S, NEW T, NEW f \in PartialFunctions(S, T), NEW k \in S, NEW v \in T
  PROVE  /\ Insert(f, k, v) \in PartialFunctions(S, T)
         /\ DOMAIN Insert(f, k, v) = DOMAIN f \cup {k}
         /\ \A x \in DOMAIN f : Insert(f, k, v)[x] = f[x]
         /\ k \notin DOMAIN f => Insert(f, k, v)[k] = v
<1>1. f \in [DOMAIN f -> T] /\ DOMAIN f \subseteq S
  BY PartialFunction
<1>2. Insert(f, k, v) \in [DOMAIN f \cup {k} -> T] /\ DOMAIN f \cup {k} \subseteq S
  BY <1>1 DEF Insert
<1>3. Insert(f, k, v) \in PartialFunctions(S, T)
  BY <1>2 DEF PartialFunctions
<1> QED BY <1>3 DEF Insert

LEMMA EraseOne ==
  ASSUME NEW S, NEW T, NEW f \in PartialFunctions(S, T), NEW k
  PROVE  /\ Erase(f, k) \in PartialFunctions(S, T)
         /\ DOMAIN Erase(f, k) = DOMAIN f \ {k}
         /\ \A x \in DOMAIN f \ {k} : Erase(f, k)[x] = f[x]
<1>1. f \in [DOMAIN f -> T] /\ DOMAIN f \subseteq S
  BY PartialFunction
<1>2. Erase(f, k) \in [DOMAIN f \ {k} -> T] /\ DOMAIN f \ {k} \subseteq S
  BY <1>1 DEF Erase, Restrict
<1>3. Erase(f, k) \in PartialFunctions(S, T)
  BY <1>2 DEF PartialFunctions
<1> QED BY <1>3 DEF Erase, Restrict

(* insert adds the entry of a client and erase removes it, where ids are unique. *)
LEMMA InsertEntry ==
  ASSUME NEW T, NEW map \in PartialFunctions(T, Client), NEW S \in SUBSET Client, NEW h,
         EntriesAre(map, S, h), NEW c \in Client, h[c].cid \in T,
         \A d \in S : h[d].cid = h[c].cid => d = c
  PROVE  EntriesAre(Insert(map, h[c].cid, c), S \cup {c}, h)
<1>1. /\ DOMAIN Insert(map, h[c].cid, c) = DOMAIN map \cup {h[c].cid}
      /\ \A x \in DOMAIN map : Insert(map, h[c].cid, c)[x] = map[x]
      /\ h[c].cid \notin DOMAIN map => Insert(map, h[c].cid, c)[h[c].cid] = c
  BY InsertOne
<1>2. \A x \in DOMAIN map : map[x] \in S /\ h[map[x]].cid = x
  BY DEF EntriesAre
<1>3. h[c].cid \in DOMAIN map => map[h[c].cid] = c
  BY <1>2
<1> QED BY <1>1, <1>2, <1>3 DEF EntriesAre

LEMMA EraseEntry ==
  ASSUME NEW T, NEW map \in PartialFunctions(T, Client), NEW S \in SUBSET Client, NEW h,
         EntriesAre(map, S, h), NEW c \in Client,
         \A d \in S : h[d].cid = h[c].cid => d = c
  PROVE  EntriesAre(Erase(map, h[c].cid), S \ {c}, h)
<1>1. /\ DOMAIN Erase(map, h[c].cid) = DOMAIN map \ {h[c].cid}
      /\ \A x \in DOMAIN map \ {h[c].cid} : Erase(map, h[c].cid)[x] = map[x]
  BY DEF Erase, Restrict
<1>2. \A x \in DOMAIN map : map[x] \in S /\ h[map[x]].cid = x
  BY DEF EntriesAre
<1>3. \A d \in S \ {c} : h[d].cid # h[c].cid
  OBVIOUS
<1> QED BY <1>1, <1>2, <1>3 DEF EntriesAre

LEMMA EntriesKept ==
  ASSUME NEW map, NEW S, NEW h, NEW h2, EntriesAre(map, S, h),
         \A c \in S : h2[c].cid = h[c].cid
  PROVE  EntriesAre(map, S, h2)
BY DEF EntriesAre
-----------------------------------------------------------------------------
(* The steps *)

\* What is said of the handlers of the clients, as one of the conjuncts of TypeOK
LEMMA Types ==
  ASSUME IndInv, NEW c \in Client
  PROVE  /\ handler \in [Client -> HandlerType] /\ handler[c] \in HandlerType
         /\ c \in WithCid => handler[c].cid \in Cid
         /\ handler[c].at \in {"checked", "accepted"} =>
              handler[c].requested \subseteq Event /\ handler[c].events \subseteq Event
         /\ handler[c].at \in {"adding", "inserting", "subscribed"} =>
              handler[c].events \subseteq Event /\ handler[c].todo \subseteq Event
         /\ canceler[c].at = "removing" => canceler[c].todo \subseteq Event
<1>1. handler \in [Client -> HandlerType] /\ handler[c] \in HandlerType
  BY DEF IndInv, TypeOK
<1>2. canceler[c] \in [at : {"none", "done"}] \cup [at : {"removing"}, todo : SUBSET Event]
  BY DEF IndInv, TypeOK
<1>3. canceler[c].at = "removing" => canceler[c].todo \subseteq Event
  BY <1>2
<1> QED BY <1>1, <1>3 DEF HandlerType, WithCid

\* The owner and the reader thread change none of the maps.
LEMMA OwnerKeeps ==
  ASSUME IndInv,
         UNCHANGED <<curr_cid_, subscription_map_, client_to_event_ids_, cb_subsmap_,
                     handler, canceler>>,
         enabled_events_ \subseteq enabled_events_', enabled_events_' \subseteq Event,
         event_enabled_' \subseteq enabled_events_', piped' \subseteq enabled_events_',
         owner'.at \in {"initialize", "serving", "limit", "tearDown"},
         owner'.at = "limit" => owner'.limit \in Limits,
         client_limit_' \in Limits \cup {kDefaultClientLimit},
         sent' \in [Client -> 0 .. MaxSends]
  PROVE  IndInv'
<1> USE DEF IndInv
<1>1. client_to_event_ids_ \in PartialFunctions(Cid, SUBSET enabled_events_')
  BY DEF TypeOK, PartialFunctions
<1>2. TypeOK'
  BY <1>1 DEF TypeOK
<1>3. CidInv' /\ EventInv'
  BY DEF CidInv, EventInv, WithCid
<1>4. MapsInv => MapsInv'
  BY ZenonT(60) DEF MapsInv, IdsInv, Receivers, Listed
<1> QED BY <1>2, <1>3, <1>4

LEMMA OwnerSteps == ASSUME IndInv, OwnerStep \/ \E e \in Event : sendEvent(e) PROVE IndInv'
<1> USE DEF coreVars
<1>1. /\ enabled_events_ \subseteq Event /\ event_enabled_ \subseteq enabled_events_
      /\ piped \subseteq enabled_events_
      /\ client_limit_ \in Limits \cup {kDefaultClientLimit}
      /\ owner.at = "limit" => owner.limit \in Limits
      /\ sent \in [Client -> 0 .. MaxSends]
  BY DEF IndInv, TypeOK, EventInv
<1>2. CASE \E e \in Event : initializeEvent(e)
  BY <1>1, <1>2, OwnerKeeps DEF initializeEvent
<1>3. CASE \E e \in Event : tearDownEvent(e)
  BY <1>1, <1>3, OwnerKeeps DEF tearDownEvent
<1>4. CASE initialized \/ tearDown
  BY <1>1, <1>4, OwnerKeeps DEF initialized, tearDown
<1>5. CASE \E limit \in Limits : set_limit(limit)
  BY <1>1, <1>5, OwnerKeeps DEF set_limit
<1>6. CASE writeLimit
  BY <1>1, <1>6, OwnerKeeps DEF writeLimit
<1>7. CASE \E e \in Event : sendEvent(e)
  <2>1. sent' \in [Client -> 0 .. MaxSends]
    BY <1>1, <1>7, SubscriptionsAssumption DEF sendEvent
  <2> QED BY <1>1, <1>7, <2>1, OwnerKeeps DEF sendEvent, IndInv, TypeOK
<1> QED BY <1>2, <1>3, <1>4, <1>5, <1>6, <1>7 DEF OwnerStep

(* Steps of a handler that touch no map: the client gets no event and is not
   listed, before or after.                                                  *)
LEMMA HandlerKeeps ==
  ASSUME IndInv, NEW c \in Client, NEW r \in HandlerType,
         handler' = [handler EXCEPT ![c] = r],
         UNCHANGED <<owner, coreVars, client_limit_, subscription_map_, client_to_event_ids_,
                     cb_subsmap_, canceler, sent>>,
         handler[c].at \in {"none", "checked", "accepted"},
         \/ r.at \in {"rejected", "checked"} /\ handler[c].at = "none"
         \/ r.at \in {"accepted", "failed"}
         \/ r.at = "adding" /\ r.todo = r.events /\ r.events \subseteq enabled_events_,
         curr_cid_' \in Cid, CidInv'
  PROVE  IndInv'
<1> USE DEF IndInv, coreVars
<1>1. /\ handler' \in [Client -> HandlerType] /\ handler'[c] = r
      /\ \A d \in Client : d # c => handler'[d] = handler[d]
  BY DEF TypeOK
<1>2. TypeOK'
  BY <1>1 DEF TypeOK
<1>3. \A d \in Client : canceler'[d].at # "none" => d \in WithCid'
  BY <1>1 DEF EventInv, WithCid
<1>4. EventInv'
  BY <1>1, <1>3 DEF EventInv
<1>5. ASSUME MapsInv PROVE MapsInv'
  <2>1. c \notin Listed /\ Listed' = Listed
    BY <1>1 DEF Listed
  <2>2. \A e \in Event : c \notin Receivers(e) /\ Receivers(e)' = Receivers(e)
    BY <1>1 DEF Receivers
  <2>3. \A e \in Event : EntriesAre(cb_subsmap_[e], Receivers(e), handler)'
    BY <1>1, <1>5, <2>2, EntriesKept DEF MapsInv, Receivers
  <2>4. EntriesAre(subscription_map_, Listed, handler)'
    BY <1>1, <1>5, <2>1, EntriesKept DEF MapsInv, Listed
  <2>5. \A d \in Client : handler'[d].at = "subscribed" \/ handler[d].at = "subscribed" => d # c
    BY <1>1
  <2>6. IdsInv'
    BY <1>1, <1>5, <2>5 DEF MapsInv, IdsInv
  <2> QED BY <1>1, <1>5, <2>3, <2>4, <2>5, <2>6 DEF MapsInv
<1> QED BY <1>2, <1>4, <1>5

\* No client id is given or taken back.
LEMMA CidsKept ==
  ASSUME CidInv, UNCHANGED curr_cid_, WithCid' = WithCid,
         \A d \in WithCid : handler'[d].cid = handler[d].cid
  PROVE  CidInv'
BY DEF CidInv

LEMMA AcceptStep ==
  ASSUME IndInv, NEW c \in Client, NEW requested \in Requests, acceptSubscription(c, requested)
  PROVE  IndInv'
<1> DEFINE r == IF NoCid(requested) THEN [at |-> "rejected"]
                ELSE [at |-> "checked", requested |-> requested,
                      events |-> enabled_events_ \cap requested]
<1>1. /\ handler' = [handler EXCEPT ![c] = r] /\ handler[c].at = "none"
      /\ UNCHANGED <<owner, coreVars, client_limit_, curr_cid_, subscription_map_,
                     client_to_event_ids_, cb_subsmap_, canceler, sent>>
  BY DEF acceptSubscription
<1>2. r \in HandlerType /\ r.at \in {"rejected", "checked"}
  <2>1. [at |-> "rejected"] \in HandlerType
    BY DEF HandlerType
  <2>2. requested \subseteq Event
    BY SubscriptionsAssumption
  <2>3. [at |-> "checked", requested |-> requested, events |-> enabled_events_ \cap requested]
          \in HandlerType
    BY <2>2 DEF HandlerType
  <2> QED BY <2>1, <2>3
<1> HIDE DEF r
<1>3. WithCid' = WithCid /\ \A d \in WithCid : handler'[d] = handler[d]
  BY <1>1, <1>2 DEF WithCid, IndInv, TypeOK
<1>4. CidInv' /\ curr_cid_' \in Cid
  BY <1>1, <1>3, CidsKept DEF IndInv, TypeOK
<1> QED BY <1>1, <1>2, <1>4, HandlerKeeps

(* The next id is one that nobody has, and there are as many ids as requests. *)
LEMMA AssignStep == ASSUME IndInv, NEW c \in Client, assignClientId(c) PROVE IndInv'
<1> DEFINE r == [at |-> "accepted", cid |-> curr_cid_, requested |-> handler[c].requested,
                 events |-> handler[c].events]
<1>1. /\ handler' = [handler EXCEPT ![c] = r] /\ handler[c].at = "checked"
      /\ curr_cid_' = curr_cid_ + 1
      /\ UNCHANGED <<owner, coreVars, client_limit_, subscription_map_,
                     client_to_event_ids_, cb_subsmap_, canceler, sent>>
  BY Types DEF assignClientId
<1>2. r \in HandlerType /\ r.at = "accepted" /\ r.cid = curr_cid_
  BY <1>1, Types DEF IndInv, TypeOK, HandlerType
<1> HIDE DEF r
<1>3. /\ handler'[c] = r /\ \A d \in Client : d # c => handler'[d] = handler[d]
      /\ c \notin WithCid /\ WithCid' = WithCid \cup {c}
  BY <1>1, <1>2 DEF WithCid, IndInv, TypeOK
<1>4. /\ IsFiniteSet(WithCid) /\ IsFiniteSet(Client)
      /\ Cardinality(WithCid') <= Cardinality(Client)
  BY <1>3, SubscriptionsAssumption, FS_Subset DEF WithCid
<1>5. Cardinality(WithCid') = curr_cid_ + 1
  BY <1>3, <1>4, FS_AddElement DEF IndInv, CidInv
<1>6. Cardinality(Client) \in Nat /\ curr_cid_ \in Nat
  BY <1>4, FS_CardinalityType DEF IndInv, TypeOK, Cid
<1>7. curr_cid_' \in Cid
  BY <1>1, <1>4, <1>5, <1>6 DEF Cid
<1>8. CidInv'
  <2>1. \A d \in WithCid : handler[d].cid \in Nat /\ handler[d].cid < curr_cid_
    BY <1>6, Types DEF IndInv, CidInv, Cid, WithCid
  <2> QED BY <1>1, <1>2, <1>3, <1>5, <1>6, <2>1 DEF IndInv, CidInv
<1> QED BY <1>1, <1>2, <1>7, <1>8, HandlerKeeps

LEMMA AddStep == ASSUME IndInv, NEW c \in Client, addSubscription(c) PROVE IndInv'
<1>1. PICK events \in {handler[c].requested, handler[c].events} :
        handler' = [handler EXCEPT ![c] =
          IF events \subseteq enabled_events_
          THEN [at |-> "adding", cid |-> handler[c].cid, events |-> events, todo |-> events]
          ELSE [at |-> "failed", cid |-> handler[c].cid]]
  BY Types DEF addSubscription
<1> DEFINE r == IF events \subseteq enabled_events_
                THEN [at |-> "adding", cid |-> handler[c].cid, events |-> events, todo |-> events]
                ELSE [at |-> "failed", cid |-> handler[c].cid]
<1>2. /\ handler' = [handler EXCEPT ![c] = r] /\ handler[c].at = "accepted"
      /\ UNCHANGED <<owner, coreVars, client_limit_, curr_cid_, subscription_map_,
                     client_to_event_ids_, cb_subsmap_, canceler, sent>>
  BY <1>1 DEF addSubscription
<1>3. /\ r \in HandlerType /\ r.cid = handler[c].cid
      /\ r.at = "failed"
           \/ (r.at = "adding" /\ r.todo = r.events /\ r.events \subseteq enabled_events_)
  <2>1. events \subseteq Event /\ handler[c].cid \in Cid
    BY <1>2, Types DEF WithCid
  <2>2. [at |-> "adding", cid |-> handler[c].cid, events |-> events, todo |-> events] \in HandlerType
    BY <2>1 DEF HandlerType
  <2>3. [at |-> "failed", cid |-> handler[c].cid] \in HandlerType
    BY <2>1 DEF HandlerType
  <2> QED BY <2>2, <2>3
<1> HIDE DEF r
<1>4. WithCid' = WithCid /\ \A d \in WithCid : handler'[d].cid = handler[d].cid
  BY <1>2, <1>3 DEF WithCid, IndInv, TypeOK
<1>5. CidInv' /\ curr_cid_' \in Cid
  BY <1>2, <1>4, CidsKept DEF IndInv, TypeOK
<1> QED BY <1>2, <1>3, <1>5, HandlerKeeps

(* Two clients do not share an id. *)
LEMMA OwnId ==
  ASSUME CidInv, NEW c \in WithCid
  PROVE  \A d \in WithCid : handler[d].cid = handler[c].cid => d = c
BY DEF CidInv

LEMMA AddClientStep ==
  ASSUME IndInv, NEW c \in Client, NEW e \in Event, addClientSubscription(c, e)
  PROVE  IndInv'
<1> USE DEF IndInv
<1> DEFINE k == handler[c].cid
<1>1. /\ handler[c].at = "adding" /\ e \in handler[c].todo
      /\ cb_subsmap_' = [cb_subsmap_ EXCEPT ![e] = Insert(cb_subsmap_[e], k, c)]
      /\ handler' = [handler EXCEPT ![c] = [handler[c] EXCEPT !.todo = handler[c].todo \ {e}]]
      /\ UNCHANGED <<owner, coreVars, client_limit_, curr_cid_, subscription_map_,
                     client_to_event_ids_, canceler, sent>>
  BY Types DEF addClientSubscription
<1>2. /\ handler' \in [Client -> HandlerType]
      /\ \A d \in Client : d # c => handler'[d] = handler[d]
      /\ handler'[c].at = "adding" /\ handler'[c].cid = k
      /\ handler'[c].events = handler[c].events
      /\ handler'[c].todo = handler[c].todo \ {e}
  <2>1. handler[c] \in [at : {"adding", "inserting", "subscribed"}, cid : Cid,
                        events : SUBSET Event, todo : SUBSET Event]
    BY <1>1, Types DEF HandlerType
  <2>2. [handler[c] EXCEPT !.todo = handler[c].todo \ {e}]
          \in [at : {"adding", "inserting", "subscribed"}, cid : Cid,
               events : SUBSET Event, todo : SUBSET Event]
    BY <2>1
  <2>3. [handler[c] EXCEPT !.todo = handler[c].todo \ {e}] \in HandlerType
    BY <2>2 DEF HandlerType
  <2> QED BY <1>1, <2>1, <2>3, Types
<1>3. c \in WithCid /\ k \in Cid /\ cb_subsmap_[e] \in PartialFunctions(Cid, Client)
  BY <1>1, Types DEF TypeOK, WithCid
<1>4. /\ DOMAIN cb_subsmap_' = Event
      /\ cb_subsmap_'[e] = Insert(cb_subsmap_[e], k, c)
      /\ \A x \in Event : x # e => cb_subsmap_'[x] = cb_subsmap_[x]
  BY <1>1 DEF EventInv
<1>5. TypeOK'
  <2>1. cb_subsmap_'[e] \in PartialFunctions(Cid, Client)
    <3>1. Insert(cb_subsmap_[e], k, c) \in PartialFunctions(Cid, Client)
      BY ONLY <1>3, c \in Client, InsertOne
    <3> QED BY <1>4, <3>1
  <2>2. e \in enabled_events_
    BY <1>1 DEF EventInv
  <2> QED BY <1>1, <1>2, <1>4, <2>1, <2>2 DEF TypeOK, coreVars
<1>6. WithCid' = WithCid /\ \A d \in WithCid : handler'[d].cid = handler[d].cid
  BY <1>1, <1>2 DEF WithCid
<1>7. CidInv'
  BY <1>1, <1>6, CidsKept
<1>8. EventInv'
  BY <1>1, <1>2, <1>4, <1>6 DEF EventInv, coreVars
<1>9. ASSUME MapsInv PROVE MapsInv'
  <2>1. canceler[c].at = "none" /\ Listed' = Listed /\ c \notin Listed
    BY <1>1, <1>2, <1>9 DEF MapsInv, Listed
  <2>2. /\ Receivers(e)' = Receivers(e) \cup {c}
        /\ \A x \in Event : x # e => Receivers(x)' = Receivers(x)
        /\ \A x \in Event : Receivers(x) \subseteq WithCid
    BY <1>1, <1>2, <2>1 DEF Receivers, EventInv, WithCid
  <2>3. EntriesAre(Insert(cb_subsmap_[e], k, c), Receivers(e) \cup {c}, handler)
    <3>1. EntriesAre(cb_subsmap_[e], Receivers(e), handler) /\ Receivers(e) \in SUBSET Client
      BY <1>9 DEF MapsInv, Receivers
    <3>2. \A d \in Receivers(e) : handler[d].cid = handler[c].cid => d = c
      BY <1>3, <2>2, OwnId
    <3> QED BY <1>3, <3>1, <3>2, InsertEntry
  <2>4. \A x \in Event : \A d \in Receivers(x) \cup {c} : handler'[d].cid = handler[d].cid
    BY <1>3, <1>6, <2>2
  <2>5. \A x \in Event : EntriesAre(cb_subsmap_[x], Receivers(x), handler)'
    <3>1. EntriesAre(cb_subsmap_'[e], Receivers(e)', handler')
      <4>1. EntriesAre(Insert(cb_subsmap_[e], k, c), Receivers(e) \cup {c}, handler')
        BY <2>3, <2>4, EntriesKept
      <4> QED BY <1>4, <2>2, <4>1
    <3>2. ASSUME NEW x \in Event, x # e PROVE EntriesAre(cb_subsmap_'[x], Receivers(x)', handler')
      <4>1. EntriesAre(cb_subsmap_[x], Receivers(x), handler')
        BY <1>9, <2>4, EntriesKept DEF MapsInv
      <4> QED BY <1>4, <2>2, <3>2, <4>1
    <3> QED BY <3>1, <3>2
  <2>6. EntriesAre(subscription_map_, Listed, handler)'
    BY <1>1, <1>2, <1>9, <2>1, EntriesKept DEF MapsInv, Listed
  <2>7. IdsInv'
    BY <1>1, <1>2, <1>9 DEF MapsInv, IdsInv
  <2> QED BY <1>1, <1>2, <1>9, <2>1, <2>5, <2>6, <2>7 DEF MapsInv
<1> QED BY <1>5, <1>7, <1>8, <1>9

(* The entry of subscription_map_, then, under the same lock, the one of
   client_to_event_ids_.                                                     *)
LEMMA InsertStep ==
  ASSUME IndInv, NEW c \in Client, insertSubscription(c) \/ insertEventIds(c)
  PROVE  IndInv'
<1> USE DEF IndInv
<1> DEFINE k == handler[c].cid
<1> DEFINE at == IF handler[c].at = "adding" THEN "inserting" ELSE "subscribed"
<1>1. /\ handler[c].at \in {"adding", "inserting"} /\ handler[c].todo = {}
      /\ subscription_map_' = IF handler[c].at = "adding"
                              THEN Insert(subscription_map_, k, c) ELSE subscription_map_
      /\ client_to_event_ids_' = IF handler[c].at = "adding" THEN client_to_event_ids_
                                 ELSE Insert(client_to_event_ids_, k, handler[c].events)
      /\ handler' = [handler EXCEPT ![c] = [handler[c] EXCEPT !.at = at]]
      /\ UNCHANGED <<owner, coreVars, client_limit_, curr_cid_, cb_subsmap_, canceler, sent>>
  BY Types DEF insertSubscription, insertEventIds, EventInv
<1>2. /\ handler' \in [Client -> HandlerType]
      /\ \A d \in Client : d # c => handler'[d] = handler[d]
      /\ handler'[c].at = at /\ handler'[c].cid = k
      /\ handler'[c].events = handler[c].events /\ handler'[c].todo = {}
  <2>1. handler[c] \in [at : {"adding", "inserting", "subscribed"}, cid : Cid,
                        events : SUBSET Event, todo : SUBSET Event]
    BY <1>1, Types DEF HandlerType
  <2>2. [handler[c] EXCEPT !.at = at]
          \in [at : {"adding", "inserting", "subscribed"}, cid : Cid,
               events : SUBSET Event, todo : SUBSET Event]
    BY <2>1
  <2>3. [handler[c] EXCEPT !.at = at] \in HandlerType
    BY <2>2 DEF HandlerType
  <2> QED BY <1>1, <2>1, <2>3, Types
<1>3. /\ c \in WithCid /\ k \in Cid /\ subscription_map_ \in PartialFunctions(Cid, Client)
      /\ client_to_event_ids_ \in PartialFunctions(Cid, SUBSET enabled_events_)
      /\ handler[c].events \in SUBSET enabled_events_
  BY <1>1, Types DEF TypeOK, WithCid, EventInv
<1>4. TypeOK'
  <2>1. subscription_map_' \in PartialFunctions(Cid, Client)
    BY <1>1, <1>3, InsertOne
  <2>2. client_to_event_ids_' \in PartialFunctions(Cid, SUBSET enabled_events_)
    BY <1>1, <1>3, InsertOne
  <2> QED BY <1>1, <1>2, <2>1, <2>2 DEF TypeOK, coreVars
<1>5. WithCid' = WithCid /\ \A d \in WithCid : handler'[d].cid = handler[d].cid
  BY <1>1, <1>2 DEF WithCid
<1>6. CidInv'
  BY <1>1, <1>5, CidsKept
<1>7. EventInv'
  BY <1>1, <1>2, <1>3, <1>5 DEF EventInv, coreVars
<1>8. ASSUME MapsInv PROVE MapsInv'
  <2>1. canceler[c].at = "none" /\ Listed' = Listed \cup {c} /\ Listed \subseteq WithCid
    BY <1>1, <1>2, <1>8 DEF MapsInv, Listed, WithCid
  <2>2. \A x \in Event : Receivers(x)' = Receivers(x) /\ Receivers(x) \subseteq WithCid
    BY <1>1, <1>2 DEF Receivers, WithCid
  <2>3. \A x \in Event : EntriesAre(cb_subsmap_[x], Receivers(x), handler)'
    <3>1. \A x \in Event : \A d \in Receivers(x) : handler'[d].cid = handler[d].cid
      BY <1>5, <2>2
    <3>2. \A x \in Event : EntriesAre(cb_subsmap_[x], Receivers(x), handler')
      BY <1>8, <3>1, EntriesKept DEF MapsInv
    <3> QED BY <1>1, <2>2, <3>2
  <2>4. EntriesAre(subscription_map_, Listed, handler)'
    <3>1. CASE handler[c].at = "adding"
      <4>1. EntriesAre(Insert(subscription_map_, k, c), Listed \cup {c}, handler)
        <5>1. EntriesAre(subscription_map_, Listed, handler) /\ Listed \in SUBSET Client
          BY <1>8 DEF MapsInv, Listed
        <5>2. \A d \in Listed : handler[d].cid = handler[c].cid => d = c
          BY <1>3, <2>1, OwnId
        <5> QED BY <1>3, <5>1, <5>2, InsertEntry
      <4>2. \A d \in Listed \cup {c} : handler'[d].cid = handler[d].cid
        BY <1>3, <1>5, <2>1
      <4>3. EntriesAre(Insert(subscription_map_, k, c), Listed \cup {c}, handler')
        BY <4>1, <4>2, EntriesKept
      <4> QED BY <1>1, <2>1, <3>1, <4>3
    <3>2. CASE handler[c].at = "inserting"
      <4>1. Listed' = Listed
        BY <2>1, <3>2 DEF Listed
      <4>2. \A d \in Listed : handler'[d].cid = handler[d].cid
        BY <1>5, <2>1
      <4>3. EntriesAre(subscription_map_, Listed, handler')
        BY <1>8, <4>2, EntriesKept DEF MapsInv
      <4> QED BY <1>1, <3>2, <4>1, <4>3
    <3> QED BY <1>1, <3>1, <3>2
  <2>5. CASE handler[c].at = "adding"
    <3>1. handler'[c].at = "inserting" /\ UNCHANGED client_to_event_ids_
      BY <1>1, <1>2, <2>5
    <3>2. IdsInv'
      BY <1>2, <1>8, <2>5, <3>1 DEF MapsInv, IdsInv
    <3> QED BY <1>1, <1>2, <1>8, <2>1, <2>3, <2>4, <3>2 DEF MapsInv
  <2>6. CASE handler[c].at = "inserting"
    <3>1. k \notin DOMAIN client_to_event_ids_
      <4>1. \A d \in Client : handler[d].at = "subscribed" => d \in WithCid /\ d # c
        BY <2>6 DEF WithCid
      <4> QED BY <1>3, <1>8, <4>1, OwnId DEF MapsInv, IdsInv
    <3>2. client_to_event_ids_' = Insert(client_to_event_ids_, k, handler[c].events)
            /\ handler'[c].at = "subscribed"
      BY <1>1, <1>2, <2>6
    <3>3. /\ DOMAIN client_to_event_ids_' = DOMAIN client_to_event_ids_ \cup {k}
          /\ \A x \in DOMAIN client_to_event_ids_ :
               client_to_event_ids_'[x] = client_to_event_ids_[x]
          /\ client_to_event_ids_'[k] = handler[c].events
      BY <3>1, <3>2 DEF Insert
    <3>4. \A d \in Client : handler[d].at = "subscribed" => handler'[d] = handler[d]
      BY <1>2, <2>6
    <3>5. IdsInv'
      <4>1. ASSUME NEW x \in DOMAIN client_to_event_ids_
            PROVE  \E d \in Client : /\ handler'[d].at = "subscribed" /\ handler'[d].cid = x
                                     /\ client_to_event_ids_'[x] = handler'[d].events
        BY <1>8, <3>3, <3>4 DEF MapsInv, IdsInv
      <4>2. \E d \in Client : /\ handler'[d].at = "subscribed" /\ handler'[d].cid = k
                              /\ client_to_event_ids_'[k] = handler'[d].events
        BY <1>2, <3>2, <3>3
      <4>3. ASSUME NEW d \in Client, handler'[d].at = "subscribed"
            PROVE  handler'[d].cid \in DOMAIN client_to_event_ids_'
        BY <1>2, <1>8, <3>3, <4>3 DEF MapsInv, IdsInv
      <4> QED BY <3>3, <4>1, <4>2, <4>3 DEF IdsInv
    <3>6. \A d \in Client : canceler'[d].at # "none" => handler'[d].at = "subscribed"
      BY <1>1, <1>8, <3>4 DEF MapsInv
    <3> QED BY <2>3, <2>4, <3>5, <3>6 DEF MapsInv
  <2> QED BY <1>1, <2>5, <2>6
<1> QED BY <1>4, <1>6, <1>7, <1>8

(* The thread that ends a stream.  Whatever the read without the lock finds, it
   cleans up every callback that sends to its client.                        *)
LEMMA CancelStep == ASSUME IndInv, NEW c \in Client, cancelSubscription(c) PROVE IndInv'
<1> USE DEF IndInv
<1>1. /\ MayCancel(c) /\ canceler[c].at = "none"
      /\ UNCHANGED <<owner, coreVars, client_limit_, curr_cid_, subscription_map_,
                     client_to_event_ids_, cb_subsmap_, handler, sent>>
  BY DEF cancelSubscription
<1>2. PICK events \in EventsToClean(handler[c].cid) :
        canceler' = [canceler EXCEPT ![c] = [at |-> "removing", todo |-> events]]
  BY DEF cancelSubscription
<1>3. /\ canceler'[c] = [at |-> "removing", todo |-> events]
      /\ \A d \in Client : d # c => canceler'[d] = canceler[d]
  BY <1>2 DEF TypeOK
<1>4. events \subseteq enabled_events_
  <2>1. \A x \in DOMAIN client_to_event_ids_ : client_to_event_ids_[x] \subseteq enabled_events_
    BY PartialFunction DEF TypeOK
  <2> QED BY <2>1 DEF EventsToClean
<1>5. c \in WithCid /\ WithCid' = WithCid
  BY <1>1 DEF MayCancel, WithCid
<1>6. TypeOK'
  <2>1. events \in SUBSET Event
    BY <1>4 DEF EventInv
  <2>2. canceler' \in [Client -> [at : {"none", "done"}] \cup [at : {"removing"}, todo : SUBSET Event]]
    BY <1>2, <2>1 DEF TypeOK
  <2> QED BY <1>1, <2>2 DEF TypeOK, coreVars
<1>7. CidInv' /\ EventInv'
  BY <1>1, <1>3, <1>4, <1>5 DEF CidInv, EventInv, coreVars
<1>8. ASSUME MapsInv, ~CancelAnytime PROVE MapsInv'
  <2>1. handler[c].at = "subscribed"
    BY <1>1, <1>8 DEF MayCancel
  <2>2. handler[c].events \subseteq events
    <3>1. PICK d \in Client : /\ handler[d].at = "subscribed" /\ handler[d].cid = handler[c].cid
                              /\ client_to_event_ids_[handler[c].cid] = handler[d].events
      BY <1>8, <2>1 DEF MapsInv, IdsInv
    <3>2. d = c
      BY <1>5, <3>1, OwnId DEF WithCid
    <3> QED BY <1>2, <1>8, <2>1, <3>1, <3>2 DEF EventsToClean, EventInv, MapsInv, IdsInv
  <2>3. Listed' = Listed /\ \A e \in Event : Receivers(e)' = Receivers(e)
    BY <1>1, <1>3, <2>1, <2>2 DEF Listed, Receivers
  <2>4. IdsInv' /\ \A d \in Client : canceler'[d].at # "none" => handler'[d].at = "subscribed"
    BY <1>1, <1>3, <1>8, <2>1 DEF MapsInv, IdsInv
  <2> QED BY <1>1, <1>8, <2>3, <2>4 DEF MapsInv
<1> QED BY <1>6, <1>7, <1>8

LEMMA RemoveClientStep ==
  ASSUME IndInv, NEW c \in Client, NEW e \in Event, removeClientSubscription(c, e)
  PROVE  IndInv'
<1> USE DEF IndInv
<1> DEFINE k == handler[c].cid
<1>1. /\ canceler[c].at = "removing" /\ e \in canceler[c].todo
      /\ cb_subsmap_' = [cb_subsmap_ EXCEPT ![e] = Erase(cb_subsmap_[e], k)]
      /\ canceler' = [canceler EXCEPT ![c] = [canceler[c] EXCEPT !.todo = canceler[c].todo \ {e}]]
      /\ UNCHANGED <<owner, coreVars, client_limit_, curr_cid_, subscription_map_,
                     client_to_event_ids_, handler, sent>>
  BY DEF removeClientSubscription, TypeOK
<1>2. /\ canceler' \in [Client -> [at : {"none", "done"}] \cup [at : {"removing"}, todo : SUBSET Event]]
      /\ \A d \in Client : d # c => canceler'[d] = canceler[d]
      /\ canceler'[c].at = "removing" /\ canceler'[c].todo = canceler[c].todo \ {e}
  <2>1. canceler[c] \in [at : {"removing"}, todo : SUBSET Event]
    BY <1>1 DEF TypeOK
  <2>2. [canceler[c] EXCEPT !.todo = canceler[c].todo \ {e}] \in [at : {"removing"}, todo : SUBSET Event]
    BY <2>1
  <2> QED BY <1>1, <2>1, <2>2 DEF TypeOK
<1>3. c \in WithCid /\ WithCid' = WithCid /\ cb_subsmap_[e] \in PartialFunctions(Cid, Client)
  BY <1>1 DEF TypeOK, EventInv, WithCid
<1>4. /\ DOMAIN cb_subsmap_' = Event
      /\ cb_subsmap_'[e] = Erase(cb_subsmap_[e], k)
      /\ \A x \in Event : x # e => cb_subsmap_'[x] = cb_subsmap_[x]
  BY <1>1 DEF EventInv
<1>5. TypeOK'
  <2>1. cb_subsmap_'[e] \in PartialFunctions(Cid, Client)
    <3>1. Erase(cb_subsmap_[e], k) \in PartialFunctions(Cid, Client)
      BY ONLY <1>3, EraseOne
    <3> QED BY <1>4, <3>1
  <2>2. e \in enabled_events_
    BY <1>1 DEF EventInv
  <2> QED BY <1>1, <1>2, <1>4, <2>1, <2>2 DEF TypeOK, coreVars
<1>6. CidInv' /\ EventInv'
  BY <1>1, <1>2, <1>3, <1>4 DEF CidInv, EventInv, coreVars
<1>7. ASSUME MapsInv PROVE MapsInv'
  <2>1. handler[c].at = "subscribed" /\ Listed' = Listed
    BY <1>1, <1>2, <1>7 DEF MapsInv, Listed
  <2>2. /\ Receivers(e)' = Receivers(e) \ {c}
        /\ \A x \in Event : x # e => Receivers(x)' = Receivers(x)
        /\ Receivers(e) \subseteq WithCid /\ Receivers(e) \subseteq Client
    BY <1>1, <1>2 DEF Receivers, WithCid
  <2>3. EntriesAre(Erase(cb_subsmap_[e], k), Receivers(e) \ {c}, handler)
    <3>1. EntriesAre(cb_subsmap_[e], Receivers(e), handler) /\ Receivers(e) \in SUBSET Client
      BY <1>7, <2>2 DEF MapsInv
    <3>2. \A d \in Receivers(e) : handler[d].cid = handler[c].cid => d = c
      BY <1>3, <2>2, OwnId
    <3> QED BY <1>3, <3>1, <3>2, EraseEntry
  <2>4. \A x \in Event : EntriesAre(cb_subsmap_[x], Receivers(x), handler)'
    BY <1>1, <1>4, <1>7, <2>2, <2>3 DEF MapsInv
  <2>5. IdsInv' /\ \A d \in Client : canceler'[d].at # "none" => handler'[d].at = "subscribed"
    BY <1>1, <1>2, <1>7, <2>1 DEF MapsInv, IdsInv
  <2> QED BY <1>1, <1>7, <2>1, <2>4, <2>5 DEF MapsInv
<1> QED BY <1>5, <1>6, <1>7

LEMMA EraseStep == ASSUME IndInv, NEW c \in Client, eraseSubscription(c) PROVE IndInv'
<1> USE DEF IndInv
<1> DEFINE k == handler[c].cid
<1>1. /\ canceler[c].at = "removing" /\ canceler[c].todo = {}
      /\ subscription_map_' = Erase(subscription_map_, k)
      /\ canceler' = [canceler EXCEPT ![c] = [at |-> "done"]]
      /\ UNCHANGED <<owner, coreVars, client_limit_, curr_cid_, client_to_event_ids_,
                     cb_subsmap_, handler, sent>>
  BY DEF eraseSubscription
<1>2. /\ canceler' \in [Client -> [at : {"none", "done"}] \cup [at : {"removing"}, todo : SUBSET Event]]
      /\ \A d \in Client : d # c => canceler'[d] = canceler[d]
      /\ canceler'[c].at = "done"
  BY <1>1 DEF TypeOK
<1>3. c \in WithCid /\ WithCid' = WithCid /\ subscription_map_ \in PartialFunctions(Cid, Client)
  BY <1>1 DEF TypeOK, EventInv, WithCid
<1>4. TypeOK'
  <2>1. Erase(subscription_map_, k) \in PartialFunctions(Cid, Client)
    BY ONLY <1>3, EraseOne
  <2> QED BY <1>1, <1>2, <2>1 DEF TypeOK, coreVars
<1>5. CidInv' /\ EventInv'
  BY <1>1, <1>2, <1>3 DEF CidInv, EventInv, coreVars
<1>6. ASSUME MapsInv PROVE MapsInv'
  <2>1. handler[c].at = "subscribed"
    BY <1>1, <1>6 DEF MapsInv
  <2>2. /\ Listed' = Listed \ {c} /\ Listed \subseteq WithCid /\ Listed \in SUBSET Client
        /\ \A x \in Event : Receivers(x)' = Receivers(x)
    BY <1>1, <1>2, <2>1 DEF Listed, Receivers, WithCid
  <2>3. EntriesAre(subscription_map_, Listed, handler)'
    <3>1. \A d \in Listed : handler[d].cid = handler[c].cid => d = c
      BY <1>3, <2>2, OwnId
    <3>2. EntriesAre(Erase(subscription_map_, k), Listed \ {c}, handler)
      BY <1>3, <1>6, <2>2, <3>1, EraseEntry DEF MapsInv
    <3> QED BY <1>1, <2>2, <3>2
  <2>4. IdsInv' /\ \A d \in Client : canceler'[d].at # "none" => handler'[d].at = "subscribed"
    BY <1>1, <1>2, <1>6, <2>1 DEF MapsInv, IdsInv
  <2> QED BY <1>1, <1>6, <2>2, <2>3, <2>4 DEF MapsInv
<1> QED BY <1>4, <1>5, <1>6
-----------------------------------------------------------------------------
LEMMA InitStep == Init => IndInv
<1> SUFFICES ASSUME Init PROVE IndInv
  OBVIOUS
<1> USE SubscriptionsAssumption DEF Init
<1>1. Cardinality(Client) \in Nat
  BY FS_CardinalityType
<1>2. \A S, T : Empty \in PartialFunctions(S, T)
  BY PartialFunction DEF Empty
<1>3. TypeOK
  <2>1. \A c \in Client : handler[c] \in HandlerType
    BY DEF HandlerType
  <2>2. handler \in [Client -> HandlerType]
    BY <2>1
  <2>3. canceler \in [Client -> [at : {"none", "done"}] \cup [at : {"removing"}, todo : SUBSET Event]]
    OBVIOUS
  <2> QED BY <1>1, <1>2, <2>2, <2>3 DEF TypeOK, Cid
<1>4. WithCid = {}
  BY DEF WithCid
<1>5. CidInv
  BY <1>4, FS_EmptySet DEF CidInv
<1>6. EventInv
  BY DEF EventInv
<1>7. MapsInv
  <2>1. Listed = {} /\ \A e \in Event : Receivers(e) = {}
    BY DEF Listed, Receivers
  <2> QED BY <2>1 DEF MapsInv, IdsInv, EntriesAre, Empty
<1> QED BY <1>3, <1>5, <1>6, <1>7 DEF IndInv

LEMMA StepKeeps == IndInv /\ [Next]_vars => IndInv'
<1> SUFFICES ASSUME IndInv, [Next]_vars PROVE IndInv'
  OBVIOUS
<1>1. CASE OwnerStep \/ \E e \in Event : sendEvent(e)
  BY <1>1, OwnerSteps
<1>2. ASSUME NEW c \in Client, ClientStep(c) PROVE IndInv'
  BY <1>2, AcceptStep, AssignStep, AddStep, AddClientStep, InsertStep, CancelStep,
     RemoveClientStep, EraseStep DEF ClientStep
<1>3. CASE UNCHANGED vars
  BY <1>3 DEF vars, coreVars, IndInv, TypeOK, CidInv, EventInv, MapsInv, IdsInv, Receivers,
              Listed, WithCid
<1> QED BY <1>1, <1>2, <1>3 DEF Next

(* The invariant the theorems rest on: ids are unique and count the requests;
   for streams that end after onClientSubscribed, the three maps are what the
   places of the threads say.                                                *)
THEOREM Inductive == Spec => []IndInv
BY InitStep, StepKeeps, PTL DEF Spec

(* Types of the core's maps and of its threads; no client id is beyond the number
   of requests, for every interleaving of the service's threads, streams that
   end in the middle of onClientSubscribed included.                         *)
THEOREM TypeCorrect == Spec => []TypeOK
<1>1. IndInv => TypeOK
  BY DEF IndInv
<1> QED BY <1>1, Inductive, PTL

(* Where streams end only after onClientSubscribed has returned, the maps that
   addSubscription and cancelSubscription write one after the other agree
   whenever no such call is under way.                                        *)
THEOREM QuietMapsAgree == ~CancelAnytime => (Spec => []MapsAgree)
<1> SUFFICES ASSUME ~CancelAnytime PROVE Spec => []MapsAgree
  OBVIOUS
<1>1. IndInv => MapsAgree
  <2> SUFFICES ASSUME IndInv, Quiet PROVE MapsAgree
    BY DEF MapsAgree
  <2> USE DEF IndInv
  <2>0. MapsInv /\ CidInv
    OBVIOUS
  <2>1. \A cid \in DOMAIN subscription_map_ : handler[subscription_map_[cid]].cid = cid
    BY <2>0 DEF MapsInv, EntriesAre
  <2>2. ASSUME NEW c \in Client, handler[c].at = "subscribed", canceler[c].at = "none"
        PROVE  handler[c].cid \in DOMAIN subscription_map_ /\ subscription_map_[handler[c].cid] = c
    <3>1. c \in Listed /\ c \in WithCid
      BY <2>2 DEF Listed, WithCid
    <3>2. /\ handler[c].cid \in DOMAIN subscription_map_
          /\ subscription_map_[handler[c].cid] \in Listed
          /\ handler[subscription_map_[handler[c].cid]].cid = handler[c].cid
      BY <2>0, <3>1 DEF MapsInv, EntriesAre
    <3>3. Listed \subseteq WithCid
      BY DEF Listed, WithCid
    <3> QED BY <2>0, <3>1, <3>2, <3>3, OwnId
  <2>3. ASSUME NEW e \in Event PROVE cb_subsmap_[e] = getSubscriptionMapForEvent(e)
    <3> DEFINE named == {cid \in DOMAIN subscription_map_ :
                           cid \in DOMAIN client_to_event_ids_ /\ e \in client_to_event_ids_[cid]}
    <3>1. getSubscriptionMapForEvent(e) = [cid \in named |-> subscription_map_[cid]]
      BY DEF getSubscriptionMapForEvent, RestrictDomain, Restrict
    <3>2. \A c \in Client : c \in Receivers(e) <=> c \in Listed /\ e \in handler[c].events
      BY DEF Quiet, Receivers, Listed, EventInv, TypeOK
    <3>3. Listed \subseteq WithCid /\ Receivers(e) \subseteq Listed
            /\ \A c \in Listed : handler[c].at = "subscribed"
      BY <3>2 DEF Listed, WithCid, Receivers, Quiet
    <3>4. \A c \in Listed : /\ handler[c].cid \in DOMAIN client_to_event_ids_
                            /\ client_to_event_ids_[handler[c].cid] = handler[c].events
      <4> SUFFICES ASSUME NEW c \in Listed
                   PROVE  /\ handler[c].cid \in DOMAIN client_to_event_ids_
                          /\ client_to_event_ids_[handler[c].cid] = handler[c].events
        OBVIOUS
      <4>1. c \in Client /\ c \in WithCid /\ handler[c].at = "subscribed"
        BY <3>3 DEF Listed
      <4>2. handler[c].cid \in DOMAIN client_to_event_ids_
        BY <2>0, <4>1 DEF MapsInv, IdsInv
      <4>3. PICK d \in Client : /\ handler[d].at = "subscribed" /\ handler[d].cid = handler[c].cid
                                /\ client_to_event_ids_[handler[c].cid] = handler[d].events
        BY <2>0, <4>2 DEF MapsInv, IdsInv
      <4>4. d = c
        BY <2>0, <4>1, <4>3, OwnId DEF WithCid
      <4> QED BY <4>2, <4>3, <4>4
    <3>5. \A c \in Listed : /\ handler[c].cid \in DOMAIN subscription_map_
                            /\ subscription_map_[handler[c].cid] = c
      BY <2>0, <3>3, OwnId DEF MapsInv, EntriesAre
    <3>6. /\ \A cid \in DOMAIN cb_subsmap_[e] :
               cb_subsmap_[e][cid] \in Receivers(e) /\ handler[cb_subsmap_[e][cid]].cid = cid
          /\ \A c \in Receivers(e) : handler[c].cid \in DOMAIN cb_subsmap_[e]
      BY <2>0 DEF MapsInv, EntriesAre
    <3>7. \A cid \in DOMAIN cb_subsmap_[e] :
            cid \in named /\ cb_subsmap_[e][cid] = subscription_map_[cid]
      <4> SUFFICES ASSUME NEW cid \in DOMAIN cb_subsmap_[e]
                   PROVE  cid \in named /\ cb_subsmap_[e][cid] = subscription_map_[cid]
        OBVIOUS
      <4>1. PICK c \in Receivers(e) : c = cb_subsmap_[e][cid] /\ handler[c].cid = cid
        BY <3>6
      <4>2. c \in Listed /\ c \in Client /\ e \in handler[c].events
        BY <3>2, <3>3 DEF Receivers
      <4> QED BY <3>4, <3>5, <4>1, <4>2
    <3>8. \A cid \in named : cid \in DOMAIN cb_subsmap_[e]
      <4> SUFFICES ASSUME NEW cid \in named PROVE cid \in DOMAIN cb_subsmap_[e]
        OBVIOUS
      <4>1. PICK c \in Listed : c = subscription_map_[cid] /\ handler[c].cid = cid
        BY <2>0 DEF MapsInv, EntriesAre
      <4>2. c \in Client /\ e \in handler[c].events
        BY <3>4, <4>1 DEF Listed
      <4>3. c \in Receivers(e)
        BY <3>2, <4>1, <4>2
      <4> QED BY <3>6, <4>1, <4>3
    <3>9. cb_subsmap_[e] \in [DOMAIN cb_subsmap_[e] -> Client]
      BY PartialFunction DEF TypeOK
    <3> HIDE DEF named
    <3>10. DOMAIN cb_subsmap_[e] = named
      BY <3>7, <3>8
    <3> QED BY <3>1, <3>7, <3>9, <3>10
  <2> QED BY <2>1, <2>2, <2>3 DEF MapsAgree
<1> QED BY <1>1, Inductive, PTL

(* Under the same condition, once onClientCanceled has returned its client gets
   no event any more, although the read of client_to_event_ids_ takes no lock. *)
THEOREM CanceledGetsNothing == ~CancelAnytime => (Spec => NoEventAfterCancel)
<1> SUFFICES ASSUME ~CancelAnytime PROVE Spec => NoEventAfterCancel
  OBVIOUS
<1>1. IndInv /\ [Next]_vars =>
        [\A c \in Client : canceler[c].at = "done" => sent'[c] = sent[c]]_vars
  <2> SUFFICES ASSUME IndInv, Next, NEW c \in Client, canceler[c].at = "done"
               PROVE  sent'[c] = sent[c]
    OBVIOUS
  <2>1. CASE UNCHANGED sent
    BY <2>1
  <2>2. ASSUME NEW e \in Event, sendEvent(e) PROVE sent'[c] = sent[c]
    <3>1. c \notin Receivers(e)
      BY DEF Receivers
    <3>2. \A cid \in DOMAIN cb_subsmap_[e] : cb_subsmap_[e][cid] # c
      BY <3>1 DEF IndInv, MapsInv, EntriesAre
    <3> QED BY <2>2, <3>2 DEF sendEvent, IndInv, TypeOK
  <2>3. OwnerStep => UNCHANGED sent
    BY DEF OwnerStep, initializeEvent, tearDownEvent, initialized, set_limit, writeLimit, tearDown
  <2>4. \A d \in Client : ClientStep(d) => UNCHANGED sent
    BY DEF ClientStep, acceptSubscription, assignClientId, addSubscription,
           addClientSubscription, insertSubscription, insertEventIds, cancelSubscription,
           removeClientSubscription, eraseSubscription
  <2> QED BY <2>1, <2>2, <2>3, <2>4 DEF Next
<1> QED BY <1>1, Inductive, PTL DEF Spec, NoEventAfterCancel
=============================================================================
