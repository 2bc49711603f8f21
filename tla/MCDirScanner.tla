----------------------------- MODULE MCDirScanner -----------------------------
(* A small tree: in the root a file f, a directory d, a directory u that    *)
(* cannot be read; in d a second link to f, a file g, an entry that cannot  *)
(* be examined.                                                            *)
EXTENDS DirScanner

CONSTANTS root, f, d, u, f2, g, x, none

Tree == {f, d, u, f2, g, x}
TreeParent == [e \in Tree |-> IF e \in {f2, g, x} THEN d ELSE root]
TreeDirs == {d, u}
TreeFile == [e \in Tree |-> IF e = f2 THEN f ELSE e]
TreeBytes == [e \in Tree |-> IF e = f THEN 3 ELSE IF e = g THEN 5 ELSE 1]
TreeInode == [e \in Tree |-> e]
UUnreadable == {u}
XUnstatable == {x}
================================================================================
