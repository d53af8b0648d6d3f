----------------------------- MODULE MCLbControl -----------------------------
(* LbControl for TLC: the sets whose members are interchangeable, and what  *)
(* addresses the VIPs have                                                  *)
EXTENDS LbControl, TLC

Symmetry == Permutations(Addr) \cup Permutations(VipKey)
              \cup Permutations(QuicId) \cup Permutations(Src)

\* every VIP has an address of its own; all are spellings of one
OwnAddress == [v \in VipKey |-> v]
OneAddress == [v \in VipKey |-> Absent]
=============================================================================
