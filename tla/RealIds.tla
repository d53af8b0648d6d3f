------------------------------- MODULE RealIds -------------------------------
(***************************************************************************)
(* What the control plane promises to the user of realsIdCallback_        *)
(* (VsoshlbLb.cpp, onRealAdded and onRealDeleted) about the numbers of     *)
(* reals: one at a time, a real without a number gets one nobody has, or   *)
(* a real gives its number up; a number never changes hands or values      *)
(* silently.                                                               *)
(***************************************************************************)
CONSTANTS Addr, Num, None

VARIABLE idOf

Init == idOf = [a \in Addr |-> None]

onRealAdded(a, n) ==
  /\ idOf[a] = None
  /\ \A b \in Addr : idOf[b] # n
  /\ idOf' = [idOf EXCEPT ![a] = n]

onRealDeleted(a) ==
  /\ idOf[a] # None
  /\ idOf' = [idOf EXCEPT ![a] = None]

Next == \E a \in Addr : onRealDeleted(a) \/ \E n \in Num : onRealAdded(a, n)

Spec == Init /\ [][Next]_idOf
=============================================================================
