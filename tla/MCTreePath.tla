----------------------------- MODULE MCTreePath -----------------------------
(* Small instances of TreePath for TLC.                                      *)
EXTENDS TreePathInv

CONSTANTS d, f, g, b1, b2

(* Top-level names only, and a file in a directory.                          *)
FlatPaths   == {<<n>> : n \in Names}
NestedPaths == {<<d, f>>}

(* d begins g, as in "d" and "d.json".                                       *)
DBeginsG == {<<d, g>>}
DAndG    == {<<d>>, <<g>>}

NoDirs  == {}
File(n, b) == Entry(n, "file", Blob(b))
OneDir     == {{File(f, b1)}, {File(f, b1), File(g, b2)}}
(* And a directory in a directory.                                           *)
Nested     == OneDir \cup {{Dir(f, {File(g, b1)}), File(g, b2)}}
=============================================================================
