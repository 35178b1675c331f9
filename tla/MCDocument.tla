----------------------------- MODULE MCDocument -----------------------------
(* Documents that TLC checks.                                                *)
EXTENDS Document

CONSTANTS top, x1, x2, x3

\* Two children that refer to each other, or to nothing there is.
Loose == ApplyAll(JustRoot, <<InsertOp(<<x1, x2>>, top, None, None)>>, x1 :> x3 @@ x2 :> x1)
\* A chain.
Deep == ApplyAll(JustRoot, <<InsertOp(<<x1>>, top, None, None), InsertOp(<<x2>>, x1, None, None)>>,
                 x2 :> x1)
\* One child, after another was removed that had a child itself.
Cropped == ApplyAll(JustRoot, <<InsertOp(<<x1, x2>>, top, None, None), InsertOp(<<x3>>, x2, None, None),
                                DeleteOp(x2, x2)>>, x1 :> top)
Loaded == {Loose, Deep, Cropped}
===============================================================================
