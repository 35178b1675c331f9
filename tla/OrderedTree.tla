----------------------------- MODULE OrderedTree -----------------------------
(* What a document promises to those who read it and change it: an ordered   *)
(* tree of nodes with a value each. A call removes, adds or moves one run of *)
(* siblings with everything below it, or writes one value, and touches       *)
(* nothing else; a transaction keeps its changes or takes all of them back.  *)
EXTENDS Naturals, FiniteSets, SequencesExt

VARIABLES kids,     \* the children of each node, in order
          val,      \* the value of each node
          saved     \* both, when the open transaction began

vars == <<kids, val, saved>>

Init == saved = <<kids, val>>

(* The nodes of S and everything below them in the tree k.                   *)
Below(k, S) ==
    LET Level[i \in Nat] ==
          IF i = 0 THEN S
          ELSE Level[i - 1] \cup UNION {ToSet(k[n]) : n \in Level[i - 1]}
    IN  Level[Cardinality(DOMAIN k)]

(* A run of siblings: children i to j of p.                                  *)
IsRun(k, p, i, j) == i <= j /\ {i, j} \subseteq DOMAIN k[p]
Cut(s, i, j) == SubSeq(s, 1, i - 1) \o SubSeq(s, j + 1, Len(s))

(* k2 and v2 are k1 and v1 without a run.                                    *)
Lacks(k1, v1, k2, v2) ==
    \E p \in DOMAIN k1 : \E i, j \in DOMAIN k1[p] :
       LET left == DOMAIN k1 \ Below(k1, ToSet(SubSeq(k1[p], i, j))) IN
       /\ IsRun(k1, p, i, j)
       /\ k2 = [n \in left |-> IF n = p THEN Cut(k1[p], i, j) ELSE k1[n]]
       /\ v2 = [n \in left |-> v1[n]]

TakeOut == Lacks(kids, val, kids', val') /\ UNCHANGED saved

PutIn == Lacks(kids', val', kids, val) /\ UNCHANGED saved

Move ==
    /\ \E p, q \in DOMAIN kids : \E i, j \in DOMAIN kids[p] :
          LET run == SubSeq(kids[p], i, j)
              rest == [kids EXCEPT ![p] = Cut(@, i, j)]
          IN  /\ IsRun(kids, p, i, j) /\ q \notin Below(kids, ToSet(run))
              /\ \E at \in 0..Len(rest[q]) :
                    kids' = [rest EXCEPT ![q] = SubSeq(@, 1, at) \o run \o SubSeq(@, at + 1, Len(@))]
    /\ UNCHANGED <<val, saved>>

Write ==
    /\ UNCHANGED <<kids, saved>>
    /\ \E n \in DOMAIN val : val' = [val EXCEPT ![n] = val'[n]]

Close ==
    /\ <<kids', val'>> \in {<<kids, val>>, saved}
    /\ saved' = <<kids', val'>>

Next == Close \/ Write \/ TakeOut \/ PutIn \/ Move

Spec == Init /\ [][Next]_vars
===============================================================================
