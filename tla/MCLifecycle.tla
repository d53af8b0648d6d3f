---------------------------- MODULE MCLifecycle ----------------------------
(* Lifecycle for TLC: two balancers, each with features the other lacks, and   *)
(* one healthchecker; lru_mapping stands for the maps every balancer has       *)
EXTENDS Lifecycle

MCBase == {"lru_mapping", ".rodata.str1.1"}
MCPath == {"intro", "debug", "hc"}
MCObjMaps ==
  [intro |-> MCBase \cup {"decap_dst", "event_pipe"},
   debug |-> MCBase \cup {"decap_dst", "pckt_srcs", "flow_debug_maps"},
   hc |-> {"hc_reals_map", "hc_pckt_srcs_map", ".rodata.str1.1"}]
MCObjProg == [p \in MCPath |-> IF p = "hc" THEN Healthchecker ELSE Balancer]
MCMapName == UNION {MCObjMaps[p] : p \in MCPath} \cup {"lpm_src_v4", "global_lru_maps"}
MCDuplicates == {".rodata.str1.1"}
MCLongName == {"hc_pckt_srcs_map"}
=============================================================================
