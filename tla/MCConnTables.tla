---------------------------- MODULE MCConnTables ----------------------------
(* ConnTables for TLC: two buckets, so that entries share one and follow one *)
EXTENDS ConnTables

MCBucket == [k \in FlowKey |-> IF k.src = "s1" THEN 0 ELSE 1]

\* Two clients are received by the core with a table of its own; the other core
\* sees one of them.
MCArrivals == ({"c1"} \X Src \X Port) \cup {<<"c2", "s2", "p81">>}

\* Every flag on the wildcard VIP, and one that hides the client on the other
MCConfigs ==
  {[v \in VipPort |-> IF v = Wildcard THEN F ELSE {}] : F \in {{}} \cup {{f} : f \in Flag}}
    \cup {[v \in VipPort |-> IF v = Wildcard THEN {} ELSE {"F_HASH_NO_SRC_PORT"}]}
=============================================================================
