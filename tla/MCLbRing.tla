------------------------------- MODULE MCLbRing -------------------------------
(* The tables together with the hash functions whose rings they rely on *)
EXTENDS MCLbControl, Maglev

\* Whatever reals and weights a VIP comes to have, generateHashRing returns,
\* with a ring of the kind that RingServesVip is derived from: the loops of
\* MaglevHash and MaglevHashV2 fill it for any weights, zeros included, and
\* leave no endpoint out that there is room for.
MakesRing == \A v \in VipKey : HasVip(v) => KeepsPromise
=============================================================================
