----------------------------- MODULE MCSession -----------------------------
(* Small instances of the session for TLC. *)
EXTENDS Session, TLC

CONSTANTS c1, c2, r1, r2

One         == {c1}
Both        == {c1, c2}
OnePartial  == {c2}
TwoRequests == {r1, r2}
OneRequest  == {r1}
None        == {}
AnyRequest == Permutations({r1, r2})
=============================================================================
