---------------------------- MODULE DocumentTree ----------------------------
(* The tree of a document as its node objects hold it: each object points    *)
(* to its parent, to its neighbours and to its first and last child.         *)
(* (atomdoc/_range.py, atomdoc/_doc.py, atomdoc/_node.py)                    *)
(*                                                                           *)
(* Every node has one slot, and one field: an optional reference. A node     *)
(* that is deleted goes on existing as an object, with its pointers and its  *)
(* field, for whoever holds it. An object stands for its id here: somebody   *)
(* always holds a deleted object, so an id never gets a second one.          *)
EXTENDS Naturals, SequencesExt

CONSTANTS Nodes,        \* all nodes there can ever be
          Root,         \* the root of the document
          None          \* no node; the default of the field

ASSUME DocumentTreeAssumption ==
    IsFiniteSet(Nodes) /\ Root \in Nodes /\ None \notin Nodes

Values == Nodes \cup {None}

(* live: the ids in the node map; index: the reverse index, as pairs of a    *)
(* target and a referrer; grave: removed objects that can be revived.        *)
TreeType(t) ==
    /\ DOMAIN t = {"live", "parent", "prev", "next", "first", "last", "val", "index", "grave"}
    /\ t.live \subseteq Nodes /\ t.grave \subseteq Nodes /\ t.index \subseteq Nodes \X Nodes
    /\ \A f \in {t.parent, t.prev, t.next, t.first, t.last, t.val} : f \in [Nodes -> Values]

Nowhere == [n \in Nodes |-> None]
JustRoot == [live |-> {Root}, parent |-> Nowhere, prev |-> Nowhere, next |-> Nowhere,
             first |-> Nowhere, last |-> Nowhere, val |-> Nowhere, index |-> {}, grave |-> {}]

-----------------------------------------------------------------------------
(* Walking the pointers.                                                     *)

(* n, to[n], to[to[n]] and so on, at most as many as there are nodes.        *)
Chain(to, n) ==
    LET From[w \in Nat \X Values] ==
          IF w[1] = 0 \/ w[2] = None THEN <<>>
          ELSE <<w[2]>> \o From[<<w[1] - 1, to[w[2]]>>]
    IN  From[<<Cardinality(Nodes), n>>]

Kids(t, n) == Chain(t.next, t.first[n])
Backwards(t, n) == Reverse(Chain(t.prev, t.last[n]))

(* The siblings from a to b.                                                 *)
Run(t, a, b) ==
    LET on == Chain(t.next, a) IN SubSeq(on, 1, CHOOSE i \in DOMAIN on : on[i] = b)

(* Everything below the nodes of a run and they themselves, in document order. *)
PreOrder(t, run) ==
    LET From[w \in Nat \X Seq(Nodes)] ==
          IF w[1] = 0 \/ w[2] = <<>> THEN <<>>
          ELSE LET n == Head(w[2]) IN
               <<n>> \o From[<<w[1] - 1, Backwards(t, n) \o Tail(w[2])>>]
    IN  From[<<(Cardinality(Nodes) + 1) * Cardinality(Nodes), run>>]

Under(t, run) == {n \in Nodes : Contains(run, n) \/ Contains(PreOrder(t, run), n)}

(* The pointers of n and of its children agree.                              *)
Agree(t, n) ==
    /\ Kids(t, n) = Backwards(t, n)
    /\ \A k \in ToSet(Kids(t, n)) : t.parent[k] = n

(* A tree: from the root the pointers lead to every node of the document, to  *)
(* each one once, and they agree.                                            *)
IsTree(t) ==
    /\ TreeType(t)
    /\ LET all == PreOrder(t, <<Root>>) IN ToSet(all) = t.live /\ Len(all) = Cardinality(t.live)
    /\ \A n \in t.live : Agree(t, n)
    /\ <<t.parent[Root], t.prev[Root], t.next[Root]>> = <<None, None, None>>

(* What a document says: which nodes are in it, in which order, their fields. *)
Content(t) == [kids |-> [n \in t.live |-> Kids(t, n)], val |-> [n \in t.live |-> t.val[n]]]

-----------------------------------------------------------------------------
(* Changing them.                                                            *)

Put(f, n, v) == [m \in Nodes |-> IF m = n THEN v ELSE f[m]]

(* Mutant: the sibling after the run goes on pointing back into it. *)
DetachForward(t, a, b) ==
    LET before == t.prev[a]   after == t.next[b] IN
    [t EXCEPT !.next = Put(@, before, after),
              !.first = IF before = None THEN Put(@, t.parent[a], after) ELSE @,
              !.last = IF after = None THEN Put(@, t.parent[a], before) ELSE @]

(* Unlink the siblings from a to b; what they point to stays as it is.       *)
Detach(t, a, b) ==
    LET before == t.prev[a]   after == t.next[b] IN
    [t EXCEPT !.next = Put(@, before, after),
              !.prev = Put(@, after, before),
              !.first = IF before = None THEN Put(@, t.parent[a], after) ELSE @,
              !.last = IF after = None THEN Put(@, t.parent[a], before) ELSE @]

(* Link a run of siblings into p, between two neighbours.                    *)
Link(t, p, before, after, run) ==
    LET At(n) == CHOOSE i \in DOMAIN run : run[i] = n
        In(n) == Contains(run, n)
    IN  [t EXCEPT
           !.parent = [n \in Nodes |-> IF In(n) THEN p ELSE @[n]],
           !.prev = [n \in Nodes |->
                       IF In(n) THEN IF At(n) = 1 THEN before ELSE run[At(n) - 1]
                       ELSE IF n = after THEN Last(run) ELSE @[n]],
           !.next = [n \in Nodes |->
                       IF In(n) THEN IF At(n) = Len(run) THEN after ELSE run[At(n) + 1]
                       ELSE IF n = before THEN Head(run) ELSE @[n]],
           !.first = IF before = None THEN Put(@, p, Head(run)) ELSE @,
           !.last = IF after = None THEN Put(@, p, Last(run)) ELSE @]

(* The node before a place: the place is before `at', or the end of p.       *)
Before(t, p, at) == IF at = None THEN t.last[p] ELSE t.prev[at]

(* The entries of the reverse index that the nodes of S make.                *)
References(t, S) == {<<t.val[n], n>> : n \in {m \in S : t.val[m] # None}}

WithIndex(t) == [t EXCEPT !.index = References(t, t.live)]

(* A place somebody may insert at or move to.                                *)
IsPlace(t, p, at) == p \in t.live /\ (at # None => at \in t.live /\ t.parent[at] = p)

-----------------------------------------------------------------------------
(* The operations on it, each with what it refuses.                          *)

CanInsert(t, run, p, at) ==
    LET all == PreOrder(t, run) IN
    IsPlace(t, p, at) /\ Under(t, run) \cap t.live = {} /\ Len(all) = Cardinality(ToSet(all))

InsertInto(t, run, p, at) ==
    LET u == Link(t, p, Before(t, p, at), at, run)   new == Under(t, run) IN
    [u EXCEPT !.live = @ \cup new, !.index = @ \cup References(u, new)]

IsRange(t, a, b) == {a, b} \subseteq t.live /\ Contains(Chain(t.next, a), b)

CanDelete(t, a, b) == IsRange(t, a, b) /\ a # Root

(* Mutant: only the top of a deleted subtree leaves the reverse index. *)
DeleteRangeTop(t, a, b) ==
    LET gone == Under(t, Run(t, a, b)) IN
    [Detach(t, a, b) EXCEPT !.live = @ \ gone, !.grave = @ \cup gone,
                            !.index = @ \ References(t, ToSet(Run(t, a, b)))]

DeleteRange(t, a, b) ==
    LET gone == Under(t, Run(t, a, b)) IN
    [Detach(t, a, b) EXCEPT !.live = @ \ gone, !.grave = @ \cup gone,
                            !.index = @ \ References(t, gone)]

(* Moving a run to where it is changes nothing, and records nothing.         *)
CanMove(t, a, b, p, at) ==
    /\ IsRange(t, a, b) /\ IsPlace(t, p, at)
    /\ at \notin ToSet(Run(t, a, b)) /\ Before(t, p, at) # b
    /\ ToSet(Chain(t.parent, p)) \cap ToSet(Run(t, a, b)) = {}

(* Mutant: the run is linked to its new neighbours first, and unlinked then. *)
MoveRangeLinkFirst(t, a, b, p, at) ==
    Detach(Link(t, p, Before(t, p, at), at, Run(t, a, b)), a, b)

MoveRange(t, a, b, p, at) ==
    Link(Detach(t, a, b), p, Before(t, p, at), at, Run(t, a, b))

SetField(t, n, v) ==
    [t EXCEPT !.val[n] = v,
              !.index = IF n \in t.live
                        THEN (@ \ {<<t.val[n], n>>}) \cup {<<x, n>> : x \in {v} \ {None}} ELSE @]

(* An insert operation names ids. An id with a removed object gets that one, *)
(* reset, as it is taken out of the graveyard, and any other gets a new one. *)
Reborn(t, S) ==
    LET blank == S \cap (t.grave \cup (Nodes \ t.live))
        Clear(f) == [n \in Nodes |-> IF n \in blank THEN None ELSE f[n]]
    IN  [t EXCEPT !.parent = Clear(@), !.prev = Clear(@), !.next = Clear(@),
                  !.first = Clear(@), !.last = Clear(@), !.val = Clear(@), !.grave = @ \ S]

-----------------------------------------------------------------------------
(* Recorded operations.                                                      *)

InsertOp(run, p, before, after) ==
    [op |-> "insert", run |-> run, parent |-> p, prev |-> before, next |-> after]
DeleteOp(a, b) == [op |-> "delete", run |-> <<a, b>>, parent |-> None, prev |-> None, next |-> None]
MoveOp(a, b, p, before, after) ==
    [op |-> "move", run |-> <<a, b>>, parent |-> p, prev |-> before, next |-> after]

(* Where an insertion or a move lands: after `prev' if the document has it,  *)
(* else before `next', else at the end. A move takes the parent of that      *)
(* neighbour, where an insertion is refused if it is not the parent named.   *)
Target(t, o) ==
    IF o.prev \in t.live THEN t.next[o.prev]
    ELSE IF o.next \in t.live THEN o.next ELSE None
Neighbour(t, o) ==
    IF o.prev \in t.live THEN o.prev ELSE IF o.next \in t.live THEN o.next ELSE None
Parent(t, o) ==
    IF o.op = "move" /\ Neighbour(t, o) # None THEN t.parent[Neighbour(t, o)] ELSE o.parent
Beside(t, o) == Neighbour(t, o) # None => t.parent[Neighbour(t, o)] = o.parent

(* One operation applied leniently. An insertion that is refused raises, a   *)
(* deletion or a move that is refused, or whose nodes are gone, does nothing. *)
Applied(s, o) ==
    LET t == IF o.op = "insert" THEN Reborn(s, ToSet(o.run)) ELSE s
        a == Head(o.run)   b == Last(o.run)   p == Parent(t, o)   at == Target(t, o)
        fits == Beside(t, o) /\ CanInsert(t, o.run, p, at)
    IN  [raised |-> o.op = "insert" /\ p \in t.live /\ ~fits,
         tree |-> CASE o.op = "insert" /\ p \in t.live /\ fits -> InsertInto(t, o.run, p, at)
                    [] o.op = "delete" /\ CanDelete(t, a, b) -> DeleteRange(t, a, b)
                    [] o.op = "move" /\ o.parent \in t.live /\ CanMove(t, a, b, p, at) ->
                         MoveRange(t, a, b, p, at)
                    [] OTHER -> t]

WithFields(t, patch) ==
    LET set == DOMAIN patch \cap t.live
        u == [t EXCEPT !.val = [n \in Nodes |-> IF n \in set THEN patch[n] ELSE @[n]]]
    IN  [u EXCEPT !.index = (@ \ References(t, set)) \cup References(u, set)]

(* A set of operations: the ordered ones and then, unless one raised, the    *)
(* fields of the nodes that are there.                                       *)
ApplyAll(t, ops, patch) ==
    LET Step(r, o) == IF r.raised THEN r ELSE Applied(r.tree, o)
        r == FoldLeft(Step, [tree |-> t, raised |-> FALSE], ops)
    IN  IF r.raised THEN r.tree ELSE WithFields(r.tree, patch)
===============================================================================
