------------------------------ MODULE MCMonitor ------------------------------
(* Monitor for TLC: any of the pipes for any event *)
EXTENDS Monitor

MCPipesOf == [e \in Event |-> Pipe]
=============================================================================
