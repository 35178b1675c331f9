------------------------------- MODULE MCScope -------------------------------
(* Documents and scopes that TLC checks.                                     *)
EXTENDS Scope

CONSTANTS top, x1, x2, x3

All == Cardinality(Nodes)
In(p, n) == InsertOp(<<n>>, p, None, None)

\* Two children, one with a child that refers to the other.
Split == ApplyAll(JustRoot, <<In(top, x1), In(top, x3), In(x1, x2)>>, x2 :> x3)
\* The same before the other came.
Early == ApplyAll(JustRoot, <<In(top, x1), In(x1, x2)>>, x2 :> x1)
\* A chain; its middle refers to its end.
Deep == ApplyAll(JustRoot, <<In(top, x1), In(x1, x2), In(x2, x3)>>, x1 :> x3)
Trees == {Split, Early, Deep}

Asked == {top :> 0, top :> 1, x1 :> All, x1 :> 0, x3 :> All, x1 :> 0 @@ x3 :> All, x2 :> 0 @@ x3 :> 0}
===============================================================================
