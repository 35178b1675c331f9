--------------------------- MODULE MCSqliteStore ---------------------------
(* Small instances of the SQLite store for TLC. *)
EXTENDS SqliteStore, TLC

CONSTANTS a, b, d, s1, s2

TwoCalls   == {a, b}
ThreeCalls == {a, b, d}
TwoStores  == {s1, s2}
Alike == Permutations({a, b, d}) \cup Permutations({s1, s2})
=============================================================================
