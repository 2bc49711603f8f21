------------------------------- MODULE MCEnvVar -------------------------------
(* Two changing threads and two values for TLC. *)
EXTENDS EnvVar

CONSTANTS t1, t2

TwoChangers == {t1, t2}
TwoValues == {1, 2}
===============================================================================
