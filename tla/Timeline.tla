------------------------------ MODULE Timeline ------------------------------
(* What undo and redo promise whoever edits a document alone: the document *)
(* moves back and forth along the states its steps went through.  past and *)
(* future are stacks: the state one undo, or one redo, leads to is the     *)
(* last.                                                                   *)
EXTENDS Naturals, Sequences

CONSTANT Docs      \* the states a document can be in

VARIABLES past, present, future

Top(s)  == s[Len(s)]
Rest(s) == SubSeq(s, 1, Len(s) - 1)
Newest(s, k) == SubSeq(s, Len(s) - k + 1, Len(s))

Init == past = <<>> /\ present \in Docs /\ future = <<>>

(* A step of its own, or one that joins the step before it; the oldest     *)
(* steps may be given up for it.                                           *)
Edit ==
    /\ present' \in Docs
    /\ future' = <<>>
    /\ \/ \E k \in 0..Len(past) : past' = Append(Newest(past, k), present)
       \/ past # <<>> /\ past' = past

(* A step that turns out to change nothing cannot be redone (undone). *)
Undo ==
    /\ past # <<>>
    /\ present' = Top(past)
    /\ past' = Rest(past)
    /\ \/ future' = Append(future, present)
       \/ future' = future /\ present' = present

Redo ==
    /\ future # <<>>
    /\ present' = Top(future)
    /\ future' = Rest(future)
    /\ \/ past' = Append(past, present)
       \/ past' = past /\ present' = present

(* The history is cut short; what is left of it still holds. *)
Forget ==
    /\ \E k \in 0..Len(past) : past' = Newest(past, k)
    /\ \E k \in 0..Len(future) : future' = Newest(future, k)
    /\ UNCHANGED present

Next == Edit \/ Undo \/ Redo \/ Forget

Spec == Init /\ [][Next]_<<past, present, future>>
=============================================================================
