---------------------------- MODULE MCFileStore ----------------------------
(* Small instances of the file store for TLC. *)
EXTENDS FileStore, TLC

CONSTANTS a, b, d, s1, s2, s3

TwoCalls    == {a, b}
ThreeCalls  == {a, b, d}
OneStore    == {s1}
TwoStores   == {s1, s2}
ThreeStores == {s1, s2, s3}
Alike == Permutations({a, b, d}) \cup Permutations({s1, s2, s3})
=============================================================================
