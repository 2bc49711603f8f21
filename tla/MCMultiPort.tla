---------------------------- MODULE MCMultiPort ----------------------------
(* Two clients at a time, on two ports, and a table of two entries. *)
EXTENDS MultiPort

CONSTANTS a, b
TwoClients == {a, b}
================================================================================
