-------------------------- MODULE MCDirectoryDaemon --------------------------
(* Two runs, two files, one of them in a directory inside. *)
EXTENDS DirectoryDaemon

CONSTANTS sub, f, g
Subs == {sub}
Files == {f, g}
Where == [x \in Files |-> IF x = f THEN ROOT ELSE sub]
Times == {1, 2}
Sizes == {1}
================================================================================
