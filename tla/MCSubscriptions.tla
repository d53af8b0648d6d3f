--------------------------- MODULE MCSubscriptions ---------------------------
(* Subscriptions for TLC: clients and events are interchangeable *)
EXTENDS Subscriptions, TLC

MCRequests == SUBSET Event
Symmetry == Permutations(Client) \cup Permutations(Event)
=============================================================================
