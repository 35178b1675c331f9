--------------------------- MODULE MCThickClient ---------------------------
(* Small instances of a thick client for TLC. *)
EXTENDS ThickClient

CONSTANTS a, b, n

Two == <<a, b>>
ABN == {a, b, n}
=============================================================================
