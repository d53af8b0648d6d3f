-------------------------------- MODULE Maglev --------------------------------
(***************************************************************************)
(* generateHashRing of MaglevHash and MaglevHashV2 as a function of its    *)
(* arguments, checked against Rings (HashRing) on all small arguments.     *)
(* The endpoints are their weights, in the order of their hashes.  The     *)
(* endpoint's permutation meets every position (the ring size is a prime,  *)
(* 65537 unless configured), so the inner search for a free one always     *)
(* ends; which one it is has no bearing on the loops.                      *)
(***************************************************************************)
EXTENDS HashRing, Sequences

CONSTANTS
  MaxEndpoints,   \* bound: endpoints of a VIP
  MaxWeight,      \* bound: weight of an endpoint
  MaxRingSize     \* bound: ring_size

\* the local variables; ring is the set of endpoints on result so far
Start(endpoints) ==
  [weight |-> endpoints, cum_weight |-> [k \in DOMAIN endpoints |-> 0],
   i |-> 1, j |-> 0, ring |-> {}, runs |-> 0, done |-> FALSE]

max_weight(endpoints) ==
  CHOOSE m \in {endpoints[k] : k \in DOMAIN endpoints} :
    \A k \in DOMAIN endpoints : endpoints[k] <= m

nextEndpoint(s) == IF s.i = Len(s.weight) THEN 1 ELSE s.i + 1

\* Mutant: the ring counts as full one place early.
MutFullEarly(s, ring_size) ==
  [s EXCEPT !.ring = @ \cup {s.i}, !.runs = @ + 1, !.done = s.runs + 2 >= ring_size]

\* result[cur] = endpoints[i].num; a full ring is returned at once
place(s, ring_size) ==
  [s EXCEPT !.ring = @ \cup {s.i}, !.runs = @ + 1, !.done = s.runs + 1 = ring_size]

\* one iteration of the innermost loop, or its end: from the second round on
\* every endpoint has weight 1
maglevStep(s, ring_size) ==
  IF s.j < s.weight[s.i]
  THEN [place(s, ring_size) EXCEPT !.j = @ + 1]
  ELSE [s EXCEPT !.weight[s.i] = 1, !.i = nextEndpoint(s), !.j = 0]

\* one iteration of the inner loop
maglevV2Step(s, ring_size) ==
  LET max == max_weight(s.weight)
      cum == s.cum_weight[s.i] + s.weight[s.i]
      after == IF cum >= max
               THEN [place(s, ring_size) EXCEPT !.cum_weight[s.i] = cum - max]
               ELSE [s EXCEPT !.cum_weight[s.i] = cum]
  IN [after EXCEPT !.i = nextEndpoint(s)]

\* the endless loop, left after at most n iterations
RECURSIVE loop(_, _, _, _)
loop(func, s, ring_size, n) ==
  CASE s.done \/ n = 0 -> s
    [] ~s.done /\ n > 0 /\ func = "Maglev" ->
         loop(func, maglevStep(s, ring_size), ring_size, n - 1)
    [] OTHER -> loop(func, maglevV2Step(s, ring_size), ring_size, n - 1)

\* every round over the endpoints, but Maglev's first, fills a place
Iterations(endpoints, ring_size) == ring_size + (ring_size + 1) * Len(endpoints)

\* a single endpoint takes every place
generateHashRing(func, endpoints, ring_size) ==
  IF Len(endpoints) = 1 THEN [Start(endpoints) EXCEPT !.ring = {1}, !.done = TRUE]
  ELSE loop(func, Start(endpoints), ring_size, Iterations(endpoints, ring_size))

\* on every list of up to MaxEndpoints weights
KeepsPromise ==
  \A func \in {"Maglev", "MaglevV2"}, ring_size \in 1 .. MaxRingSize :
    \A endpoints \in UNION {[1 .. k -> 0 .. MaxWeight] : k \in 1 .. MaxEndpoints} :
      LET result == generateHashRing(func, endpoints, ring_size)
      IN result.done /\ result.ring \in Rings(func, endpoints, ring_size)
=============================================================================
