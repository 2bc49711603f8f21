---------------------------- MODULE MCFileMonitor ----------------------------
(* Two runs, and a file that shows two stamps. *)
EXTENDS FileMonitor

CONSTANTS r1, r2, f, s1, s2

TwoRuns == {r1, r2}
OneFile == {f}
TwoStamps == {s1, s2}
================================================================================
