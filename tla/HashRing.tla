------------------------------- MODULE HashRing -------------------------------
(***************************************************************************)
(* What the users of ConsistentHash::generateHashRing may rely on          *)
(* (src/vsoshlb/lib/MaglevHash.cpp, MaglevHashV2.cpp).  The endpoints are  *)
(* a function w from numbers to weights; a ring is the set of the numbers  *)
(* on it.  Where a number lies on the ring is left out: the text does not  *)
(* say it.  Maglev.tla runs the two loops and checks that they keep this.  *)
(***************************************************************************)
EXTENDS Integers, Functions

Positive(w) == {n \in DOMAIN w : w[n] > 0}

\* the places the endpoints claim
TotalWeight(w) == SumFunction([n \in Positive(w) |-> w[n]])

\* The rings for at least one endpoint.  An endpoint of positive weight may be
\* left out when the places do not suffice for all; one of weight zero may get
\* a place, with MaglevV2 only when there are no others.
Rings(func, w, ring_size) ==
  {ring \in SUBSET DOMAIN w :
     /\ ring # {}
     /\ TotalWeight(w) <= ring_size => Positive(w) \subseteq ring
     /\ func = "MaglevV2" /\ Positive(w) # {} => ring \subseteq Positive(w)}
=============================================================================
