--------------------------- MODULE MCUndoManager ---------------------------
(* Small instances of the undo managers for TLC. *)
EXTENDS UndoManager

CONSTANTS n1, n2, v, c

TwoNodes  == {n1, n2}
OneValue  == {v}
OneClient == {c}
OneNode   == {n1}
=============================================================================
