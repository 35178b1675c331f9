--------------------------- MODULE MCMemoryStore ---------------------------
(* A small instance of the in-memory store for TLC. *)
EXTENDS MemoryStore, TLC

CONSTANTS a, b, d

ThreeCalls == {a, b, d}
Alike == Permutations({a, b, d})
=============================================================================
