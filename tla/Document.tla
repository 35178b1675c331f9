------------------------------ MODULE Document ------------------------------
(* The transactions of a document: calls that change the tree, the           *)
(* operations and inverse operations recorded for each, commit and abort.    *)
(* (atomdoc/_operations.py, atomdoc/_transaction.py, atomdoc/_doc.py)        *)
(*                                                                           *)
(* A call made outside a transaction is a transaction of one call. Calls     *)
(* join the open transaction, whoever makes them: a host, a normalizer, or   *)
(* the operations of a peer. Nothing awaits, so no two calls overlap.        *)
EXTENDS DocumentTree

CONSTANTS Starts,       \* the trees that documents are loaded with
          MaxCalls,     \* bound: calls that change something, in a transaction
          MaxCommits,   \* bound: transactions
          Faults        \* sequences of calls that go wrong, which callers may make

ASSUME DocumentAssumption ==
    MaxCalls \in Nat /\ MaxCommits \in Nat /\ \A t \in Starts : IsTree(t)

VARIABLES tree,         \* the document
          tx,           \* what the open transaction has recorded
          stage,        \* _lifecycle_stage: idle or update; abort while it rolls back
          todo,         \* the inverse operations that are left to roll back
          calls, commits,
          base,         \* auxiliary: the document when the transaction began
          gone          \* auxiliary: what the transaction has ever deleted of it

vars == <<tree, tx, stage, todo, calls, commits, base, gone>>

NoPatch == <<>>
With(f, n, v) == [m \in DOMAIN f \cup {n} |-> IF m = n THEN v ELSE f[m]]
Without(f, S) == Restrict(f, DOMAIN f \ S)

(* patch and undoPatch are the fields in _operations and _inverse_operations,*)
(* the rest of the record is the Diff.                                       *)
NoRecord == [ops |-> <<>>, inverse |-> <<>>, patch |-> NoPatch, undoPatch |-> NoPatch,
             inserted |-> {}, deleted |-> {}, moved |-> {}, updated |-> {}]

HasChanges(x) == x.inserted \cup x.deleted \cup x.moved \cup DOMAIN x.patch # {}

(* The elements of s that are in S, in their order.                          *)
Keep(s, S) ==
    LET Kept[i \in Nat] ==
          IF i = 0 THEN <<>>
          ELSE IF s[i] \in S THEN Append(Kept[i - 1], s[i]) ELSE Kept[i - 1]
    IN  Kept[Len(s)]

-----------------------------------------------------------------------------
(* What a call records, in x, about the tree t it is made in.                *)

(* A removed subtree that is inserted again is recorded one list of children *)
(* at a time; a list is found by its first node.                             *)
Lists(t, run) ==
    LET heads == Keep(PreOrder(t, run), {n \in Nodes : ~Contains(run, n) /\ t.prev[n] = None})
    IN  [i \in DOMAIN heads |-> [parent |-> t.parent[heads[i]],
                                 kids |-> Kids(t, t.parent[heads[i]])]]

(* Mutant: the fields that inserted nodes have are not recorded. *)
RecordInsertBare(x, t, run, p, at) ==
    [x EXCEPT !.ops = Append(@, InsertOp(run, p, Before(t, p, at), at)),
              !.inverse = Append(@, DeleteOp(Head(run), Last(run))),
              !.inserted = @ \cup (Under(t, run) \ x.deleted),
              !.deleted = @ \ Under(t, run),
              !.updated = @ \cup (Under(t, run) \cap x.deleted),
              !.moved = @ \cup (Under(t, run) \cap x.deleted)]

RecordInsert(x, t, run, p, at) ==
    LET all == Under(t, run)
        lists == Lists(t, run)
        new == x.inserted \cup (all \ x.deleted)
        old == Keep(lists, {l \in ToSet(lists) : l.parent \notin new})
        state == {n \in all : t.val[n] # None}
    IN  [x EXCEPT
           !.ops = Append(@, InsertOp(run, p, Before(t, p, at), at)) \o
                   [i \in DOMAIN lists |-> InsertOp(lists[i].kids, lists[i].parent, None, None)],
           !.inverse = (IF p \in x.inserted THEN @
                        ELSE Append(@, DeleteOp(Head(run), Last(run)))) \o
                       [i \in DOMAIN old |-> DeleteOp(Head(old[i].kids), Last(old[i].kids))],
           !.inserted = new,
           !.deleted = @ \ all,
           !.moved = @ \cup (all \cap x.deleted),
           !.updated = @ \cup (all \cap x.deleted),
           !.patch = [n \in DOMAIN @ \cup state |-> IF n \in state THEN t.val[n] ELSE @[n]]]

RecordDelete(x, t, a, b) ==
    LET all == Under(t, Run(t, a, b))
        old == all \ x.inserted
        parents == Keep(PreOrder(t, Run(t, a, b)), {n \in Nodes : Kids(t, n) # <<>>})
        state == DOMAIN x.undoPatch \cup {n \in old : t.val[n] # None}
        back == <<InsertOp(Run(t, a, b), t.parent[a], t.prev[a], t.next[b])>> \o
                [i \in DOMAIN parents |-> InsertOp(Kids(t, parents[i]), parents[i], None, None)]
    IN  [x EXCEPT
           !.ops = Append(@, DeleteOp(a, b)),
           !.inverse = IF t.parent[a] \in x.inserted THEN @ ELSE @ \o Reverse(back),
           !.inserted = @ \ all,
           !.deleted = @ \cup old,
           !.moved = @ \ (all \cap x.inserted),
           !.updated = @ \ all,
           !.patch = Without(@, all),
           !.undoPatch = [n \in state |-> IF n \in DOMAIN @ THEN @[n] ELSE t.val[n]]]

RecordMove(x, t, a, b, p, at) ==
    [x EXCEPT
       !.ops = Append(@, MoveOp(a, b, p, Before(t, p, at), at)),
       !.inverse = Append(@, MoveOp(a, b, t.parent[a], t.prev[a], t.next[b])),
       !.moved = @ \cup (ToSet(Run(t, a, b)) \ x.inserted)]

(* The first value a field had in the transaction is kept.                   *)
Original(x, t, n) ==
    IF n \in x.inserted \cup DOMAIN x.undoPatch THEN x.undoPatch
    ELSE With(x.undoPatch, n, t.val[n])

Unchanged(x, n) ==
    [x EXCEPT !.patch = Without(@, {n}), !.undoPatch = Without(@, {n}), !.updated = @ \ {n}]
Changed(x, t, n, v) ==
    [x EXCEPT !.patch = With(@, n, v), !.undoPatch = Original(x, t, n),
              !.updated = @ \cup ({n} \ x.inserted)]

(* A host's assignment.                                                      *)
RecordSet(x, t, n, v) ==
    LET was == Original(x, t, n) IN
    IF n \in DOMAIN x.patch /\ v = (IF n \in DOMAIN was THEN was[n] ELSE None)
    THEN Unchanged(x, n) ELSE Changed(x, t, n, v)

(* A peer's patch.                                                           *)
RecordPatch(x, t, n, v) ==
    IF n \notin x.inserted /\ Original(x, t, n)[n] = v
    THEN Unchanged(x, n) ELSE Changed(x, t, n, v)

-----------------------------------------------------------------------------
(* Calls.                                                                    *)

Init ==
    /\ tree \in {WithIndex(t) : t \in Starts}
    /\ tx = NoRecord /\ stage = "idle" /\ todo = <<>>
    /\ calls = 0 /\ commits = 0
    /\ base = tree /\ gone = {}

Begin ==
    /\ stage = "idle" /\ commits < MaxCommits
    /\ stage' = "update" /\ commits' = commits + 1
    /\ UNCHANGED <<tree, tx, todo, calls, base, gone>>

Open == stage = "update" /\ calls < MaxCalls
Call(t, x) ==
    /\ calls' = calls + 1
    /\ tree' = t /\ tx' = x /\ gone' = gone \cup x.deleted
    /\ UNCHANGED <<stage, todo, commits, base>>

(* What callers must not do, unless the fault is allowed: "below new" is to   *)
(* delete, or to insert again, below a node that the transaction inserted, a *)
(* node that was there before it; "revive" is to insert by id a node that    *)
(* was removed, inserted again as an object, and is in the document; "give    *)
(* back" is to give a node that was deleted and inserted again the value it  *)
(* had; "stale" is to insert an object again although a node below it was    *)
(* inserted elsewhere; "amid" is to insert, below a node that the            *)
(* transaction inserted, where it moved a run of several to; "moved out" is  *)
(* to delete, below such a node, a node that something was moved out of.     *)
GivenBack(n, v) == n \in gone \cap tree.live /\ v = Original(tx, tree, n)[n]
Stale(n) ==
    \/ ~Agree(tree, n)
    \/ n \in gone \ DOMAIN tx.undoPatch /\ tree.val[n] # None
Named == UNION {ToSet(tx.inverse[i].run) : i \in DOMAIN tx.inverse}
BelowNew(p, S) == p \in tx.inserted /\ S # {}
Amid(p) ==
    p \in tx.inserted /\ \E i \in DOMAIN tx.ops :
      LET o == tx.ops[i] IN o.op = "move" /\ o.parent = p /\ Head(o.run) # Last(o.run)
MovedOut(p, S) ==
    p \in tx.inserted /\ \E i \in DOMAIN tx.inverse :
      LET o == tx.inverse[i] IN o.op = "move" /\ o.parent \in S
Spared(fault, case) == case => fault \in Faults

(* append, prepend, insert, insert_before and insert_after of objects that   *)
(* are not in the document: created, or removed from it and kept.            *)
Insert(run, p, at) ==
    /\ Open /\ CanInsert(tree, run, p, at)
    /\ Spared("stale", \E n \in Under(tree, run) : Stale(n))
    /\ Spared("below new", BelowNew(p, Under(tree, run) \cap Named))
    /\ Spared("amid", Amid(p))
    /\ Call(InsertInto(tree, run, p, at), RecordInsert(tx, tree, run, p, at))

(* The same by an operation, which brings ids.                               *)
InsertsOf(runs) ==
    {InsertOp(run, p, near[1], near[2]) :
       run \in runs, p \in Nodes, near \in (Values \X {None}) \cup ({None} \X Nodes)}

InsertIds(o) ==
    LET t == Reborn(tree, ToSet(o.run))   at == Target(t, o) IN
    /\ Open /\ Beside(t, o) /\ CanInsert(t, o.run, o.parent, at)
    /\ Spared("below new", BelowNew(o.parent, ToSet(o.run) \cap Named))
    /\ Spared("amid", Amid(o.parent))
    /\ Call(InsertInto(t, o.run, o.parent, at), RecordInsert(tx, t, o.run, o.parent, at))

(* Where the parent it names is gone, the operation is skipped, after the    *)
(* removed objects it names were reset.                                      *)
InsertSkipped(n) ==
    /\ Open /\ n \in tree.grave
    /\ Spared("revive", n \in tree.live)
    /\ Call(Reborn(tree, {n}), tx)

Delete(a, b) ==
    /\ Open /\ CanDelete(tree, a, b)
    /\ Spared("below new", BelowNew(tree.parent[a], Under(tree, Run(tree, a, b)) \ (tx.inserted \ Named)))
    /\ Spared("moved out", MovedOut(tree.parent[a], Under(tree, Run(tree, a, b))))
    /\ Call(DeleteRange(tree, a, b), RecordDelete(tx, tree, a, b))

Move(a, b, p, at) ==
    /\ Open /\ CanMove(tree, a, b, p, at)
    /\ Call(MoveRange(tree, a, b, p, at), RecordMove(tx, tree, a, b, p, at))

Set(n, v) ==
    /\ Open /\ tree.val[n] # v
    /\ Spared("give back", GivenBack(n, v))
    /\ Call(SetField(tree, n, v), IF n \in tree.live THEN RecordSet(tx, tree, n, v) ELSE tx)

Patch(n, v) ==
    /\ Open /\ n \in tree.live
    /\ Spared("give back", GivenBack(n, v))
    /\ Call(SetField(tree, n, v), RecordPatch(tx, tree, n, v))

-----------------------------------------------------------------------------
(* The end of a transaction.                                                 *)

Dangling(t) == {n \in t.live : t.val[n] \notin t.live \cup {None}}

(* Mutant: only what was written is checked, not what was deleted. *)
CheckRefIntegrityWritten(t, x) ==
    \A n \in (x.inserted \cup x.updated) \cap t.live : t.val[n] \in t.live \cup {None}

(* References written in the transaction resolve, and nothing that is left   *)
(* refers to a node that went.                                               *)
CheckRefIntegrity(t, x) ==
    /\ \A n \in (x.inserted \cup x.updated) \cap t.live : t.val[n] \in t.live \cup {None}
    /\ \A e \in t.index : e[1] \in x.deleted => e[2] \notin t.live

Close(t) ==
    /\ tree' = t /\ base' = t
    /\ tx' = NoRecord /\ stage' = "idle" /\ todo' = <<>> /\ calls' = 0 /\ gone' = {}
    /\ UNCHANGED commits

Commit ==
    /\ stage = "update"
    /\ HasChanges(tx) => CheckRefIntegrity(tree, tx)
    /\ Close(tree)

(* Mutant: the inverse operations are applied as they were recorded. *)
RollbackForward(t) ==
    /\ stage = "update" /\ stage' = "abort"
    /\ tree' = t /\ todo' = tx.inverse
    /\ UNCHANGED <<tx, calls, commits, base, gone>>

(* A caller, a normalizer, the validation of a node or the check of          *)
(* references raises. The inverse operations are applied newest first.       *)
Rollback(t) ==
    /\ stage = "update" /\ stage' = "abort"
    /\ tree' = t /\ todo' = Reverse(tx.inverse)
    /\ UNCHANGED <<tx, calls, commits, base, gone>>

Abort == Rollback(tree)

(* An insert operation is refused. The objects it names are reset by then.   *)
InsertRefused(run) ==
    LET t == Reborn(tree, ToSet(run)) IN
    /\ Spared("revive", ToSet(run) \cap tree.live \cap tree.grave # {})
    /\ ~\A o \in InsertsOf({run}) : Beside(t, o) /\ CanInsert(t, run, o.parent, Target(t, o))
    /\ Rollback(t)

Undo ==
    /\ stage = "abort" /\ todo # <<>>
    /\ ~Applied(tree, Head(todo)).raised
    /\ tree' = Applied(tree, Head(todo)).tree /\ todo' = Tail(todo)
    /\ UNCHANGED <<tx, stage, calls, commits, base, gone>>

(* The fields come last. Whatever happens, the index is built anew.          *)
AbortDone ==
    /\ stage = "abort"
    /\ \/ todo = <<>> /\ Close(WithIndex(WithFields(tree, tx.undoPatch)))
       \/ /\ todo # <<>> /\ Applied(tree, Head(todo)).raised
          /\ Close(WithIndex(Applied(tree, Head(todo)).tree))

-----------------------------------------------------------------------------
Singles == {<<n>> : n \in Nodes}
Runs == Singles \cup {<<n, m>> : n \in Nodes, m \in Nodes}

AnyCall ==
    \/ \E run \in Runs, p \in Nodes, at \in Values : Insert(run, p, at)
    \/ \E o \in InsertsOf(Runs) : InsertIds(o)
    \/ \E n \in Nodes : InsertSkipped(n)
    \/ \E a, b \in Nodes : Delete(a, b)
    \/ \E a, b, p \in Nodes, at \in Values : Move(a, b, p, at)
    \/ \E n \in Nodes, v \in Values : Set(n, v) \/ Patch(n, v)

Next ==
    \/ Begin \/ AnyCall \/ Commit \/ Abort \/ Undo \/ AbortDone
    \/ \E run \in Singles : InsertRefused(run)

Spec == Init /\ [][Next]_vars

-----------------------------------------------------------------------------
(* The reverse index is that of the fields of the nodes in the document,     *)
(* whatever is inserted, deleted, revived, written or rolled back.           *)
IndexExact == stage # "abort" => tree.index = References(tree, tree.live)

(* Whatever was done, and wherever it was interrupted, a rollback leads back *)
(* to the document the transaction began with, order of siblings included.   *)
Reversible == [][AbortDone => Content(tree') = Content(base)]_vars

(* Whoever had the document when the transaction began and applies what it   *)
(* recorded, without the objects it removed, has the document; and the Diff  *)
(* that listeners get says what is new and what has gone, however often a    *)
(* node went and came back meanwhile.                                        *)
Replica == ApplyAll([base EXCEPT !.grave = {}], tx.ops, tx.patch)
Replays ==
    stage = "update" =>
        /\ Content(tree) = Content(IF HasChanges(tx) THEN Replica ELSE base)
        /\ tx.inserted = tree.live \ base.live
        /\ tx.deleted = base.live \ tree.live

(* A commit leaves no reference behind that did not dangle before, although  *)
(* only what the transaction wrote and deleted is checked.                   *)
RefsResolve == [][Commit => Dangling(tree') \subseteq Dangling(base)]_vars

(* Every variable has its type.                                              *)
TypeOK ==
    /\ TreeType(tree) /\ TreeType(base)
    /\ stage \in {"idle", "update", "abort"} /\ (stage = "idle" => tx = NoRecord)
    /\ gone \subseteq Nodes /\ calls \in 0..MaxCalls /\ commits \in 0..MaxCommits

(* Every pointer and field leads to a node or nowhere, the node map has      *)
(* exactly the nodes that the pointers lead to, and the pointers of siblings,*)
(* parents and children agree, also half way through a rollback.             *)
Pointers ==
    TypeOK /\ IsTree(tree)

(* What a rollback is about to insert again is not in the document: what     *)
(* took it out of it has been undone by then, and what put it back there.    *)
PutsBackAbsent ==
    stage = "abort" /\ todo # <<>> /\ Head(todo).op = "insert" =>
        ToSet(Head(todo).run) \cap tree.live = {}

Saved == <<Content(base).kids, Content(base).val>>
Ordered == INSTANCE OrderedTree WITH
    kids <- Content(tree).kids, val <- Content(tree).val, saved <- Saved
(* Every call, and every step of a rollback, removes, adds or moves one run  *)
(* with what is below it or writes one field and touches nothing else, and a *)
(* transaction ends with its changes or with none.                           *)
Implements == Ordered!Spec
===============================================================================
