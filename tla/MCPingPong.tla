----------------------------- MODULE MCPingPong -----------------------------
(* The five rounds and the buffer of twenty of the programs. *)
EXTENDS PingPong
================================================================================
