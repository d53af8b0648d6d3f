----------------------------- MODULE MCLbTables -----------------------------
(* LbTables for TLC: three well-formed healthcheck keys, two of them          *)
(* spellings of one address, and one whose address does not parse             *)
EXTENDS LbTables, TLC

CONSTANTS k1, k1x, k2, bad, d1, d2, a4, a6

MCHcKeyDef == k1 :> d1 @@ k1x :> d1 @@ k2 :> d2 @@ bad :> BadAddress
MCConfigSrc == [f \in Family |-> IF f = "v4" THEN a4 ELSE a6]
MCCallers == {{"keys"}, {"dsts", "mac", "src"}, {"decap", "mac"}}
=============================================================================
