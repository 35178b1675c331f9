-------------------------------- MODULE Scope --------------------------------
(* Partial replication: what a scoped client holds of a document, and how    *)
(* each commit is projected onto it.                                         *)
(* (atomdoc/_scope.py; the client: typescript/src/thick/local-doc.ts)        *)
(*                                                                           *)
(* A projection is made inside the commit. The client gets it at once here:  *)
(* that patches arrive, in order, and on the right side of a scope change is *)
(* what Session is about.                                                    *)
EXTENDS Document

CONSTANTS Scopes    \* the scopes a client may ask for: depths of anchors

ASSUME ScopeAssumption == \A A \in Scopes : DOMAIN A \subseteq Nodes /\ A \in [DOMAIN A -> Nat]

VARIABLES anchors, held, placed,    \* ClientView
          copy,                     \* the client's document: a tree of its own
          stubs,                    \* the nodes it knows by identity only
          lost                      \* the client gave up: a patch did not apply

client == <<copy, stubs, lost>>
view == <<anchors, held, placed>>

-----------------------------------------------------------------------------
(* Classification.                                                           *)

Up(t, n) == Chain(t.parent, n)

(* Some anchor lies so far up that n is `over' levels below its depth.       *)
Beyond(t, A, n) == {i - 1 - A[Up(t, n)[i]] : i \in {j \in DOMAIN Up(t, n) : Up(t, n)[j] \in DOMAIN A}}
IsFull(t, A, n) == \E d \in Beyond(t, A, n) : d <= 0
AtBound(t, A, n) == 1 \in Beyond(t, A, n)

AnchorAncestors(t, A) == UNION {ToSet(Tail(Up(t, n))) : n \in DOMAIN A \cap t.live}

Classify(t, A, n) ==
    CASE n \notin t.live -> "none"
      [] n \in t.live /\ IsFull(t, A, n) -> "full"
      [] OTHER ->
           IF \/ AtBound(t, A, n) \/ n \in AnchorAncestors(t, A) \/ n = Root
              \/ \E e \in t.index : e[1] = n /\ e[2] \in t.live /\ IsFull(t, A, e[2])
           THEN "stub" ELSE "none"

(* From scratch, down from the anchors.                                      *)
ComputeAll(t, A) ==
    LET full == {n \in t.live : IsFull(t, A, n)}
        some == {n \in t.live : AtBound(t, A, n)} \cup AnchorAncestors(t, A) \cup {Root}
                \cup ({t.val[n] : n \in full} \cap t.live)
    IN  [n \in Nodes |-> CASE n \in full -> "full" [] n \in some \ full -> "stub"
                           [] OTHER -> "none"]

HeldIn(h) == {n \in Nodes : h[n] # "none"}
StubsIn(h) == {n \in Nodes : h[n] = "stub"}

(* In the client's tree: held with every ancestor.                           *)
InTree(t, h, S) == {n \in S \cap t.live : ToSet(Up(t, n)) \subseteq HeldIn(h)}

(* The snapshot a client gets.                                               *)
Snapshot(t, h) ==
    LET in == InTree(t, h, Nodes) IN
    [kids |-> [n \in HeldIn(h) |->
                 IF n \in in THEN SelectSeq(Kids(t, n), LAMBDA k : h[k] # "none") ELSE <<>>],
     val |-> [n \in HeldIn(h) |-> IF h[n] = "full" THEN t.val[n] ELSE None]]

(* Parents before children, siblings in order.                               *)
ByOrderKey(t, S) ==
    LET in == SelectSeq(PreOrder(t, <<Root>>), LAMBDA n : n \in S)
    IN  FlattenSeq([d \in 1..Cardinality(Nodes) |-> SelectSeq(in, LAMBDA n : Len(Up(t, n)) = d)])

-----------------------------------------------------------------------------
(* Emitting. e is what is emitted about: the tree, what is held and placed   *)
(* so far, the nodes that were looked at again and the kinds that all have   *)
(* now, and what was deleted and moved.                                      *)
(* s simulates the client: present, placed, the moves still to come, what    *)
(* has entered with its state, what was emitted.                             *)

PlacedAfter(e, n) == \A m \in ToSet(Up(e.tree, n)) : e.after[m] # "none"
Movers(e) ==
    {n \in e.moved \cap e.placed \cap e.tree.live : e.after[n] # "none" /\ PlacedAfter(e, n)}

Op(op, n) == [op |-> op, run |-> <<n>>, parent |-> None, prev |-> None, next |-> None, stubs |-> {}]
Entry(e, run, p, prev, next) ==
    [op |-> "insert", run |-> run, parent |-> p, prev |-> prev, next |-> next,
     stubs |-> {n \in ToSet(run) : e.after[n] = "stub"}]

Entered(e, s, run, p, prev, next) ==
    [s EXCEPT !.ops = Append(@, Entry(e, run, p, prev, next)),
              !.present = @ \cup ToSet(run), !.placed = @ \cup ToSet(run),
              !.done = @ \cup ToSet(run),
              !.entered = @ \cup {n \in ToSet(run) : e.after[n] = "full"}]

(* Mutant: siblings that are still to be moved count as in place. *)
NearestPlaced(s, siblings) ==
    LET in == SelectSeq(siblings, LAMBDA n : n \in s.placed) IN IF in = <<>> THEN None ELSE Head(in)

(* The nearest siblings that the client has in place already.                *)
Nearest(s, siblings) ==
    LET in == SelectSeq(siblings, LAMBDA n : n \in s.placed \ s.moving)
    IN  IF in = <<>> THEN None ELSE Head(in)
PrevOf(e, s, n) == Nearest(s, Tail(Chain(e.tree.prev, n)))
NextOf(e, s, n) == Nearest(s, Tail(Chain(e.tree.next, n)))

(* The children of n, in runs between the children that are there.           *)
PlaceRuns(e, s, n) ==
    LET kids == SelectSeq(Kids(e.tree, n), LAMBDA k : e.after[k] # "none" /\ k \notin s.moving)
        Is(i) == i \in DOMAIN kids /\ kids[i] \notin s.placed
        At(i) == IF i \in DOMAIN kids THEN kids[i] ELSE None
        starts == SelectSeq([i \in DOMAIN kids |-> i], LAMBDA i : Is(i) /\ ~Is(i - 1))
        End(i) == CHOOSE j \in i..Len(kids) : (\A k \in i..j : Is(k)) /\ ~Is(j + 1)
    IN  FoldLeft(LAMBDA w, i : Entered(e, w, SubSeq(kids, i, End(i)), n, At(i - 1), At(End(i) + 1)),
                 s, starts)

(* The children of a node that enters in full, then theirs if they enter so. *)
PlaceChildren(e, s, n) ==
    LET Enters(w, k) == k = n \/ k \in w.entered \ s.entered
    IN  FoldLeft(LAMBDA w, k : IF Enters(w, k) THEN PlaceRuns(e, w, k) ELSE w,
                 s, PreOrder(e.tree, <<n>>))

(* 1. One deletion per top-most node in the client's tree, and per detached  *)
(* stub.                                                                     *)
EmitDeletes(e, s) ==
    LET dead == e.deleted \cap s.present
        Covered(n) == n \in s.placed /\ ToSet(Tail(Up(e.tree, n))) \cap e.deleted \cap s.placed # {}
        tops == SetToSeq({n \in dead : ~Covered(n)})
    IN  [s EXCEPT !.ops = @ \o [i \in DOMAIN tops |-> Op("delete", tops[i])],
                  !.present = @ \ dead, !.placed = @ \ dead]

(* 2. What is new to the client, parents first.                              *)
Arrive(e, s, n) ==
    CASE n \in s.done -> s
      [] n \notin s.done /\ ~PlacedAfter(e, n) ->
           IF n \in s.present THEN s
           ELSE [s EXCEPT !.ops = Append(@, Op("detached", n)), !.present = @ \cup {n},
                          !.done = @ \cup {n}]
      [] n \notin s.done /\ PlacedAfter(e, n) /\ n \in s.placed ->
           IF e.after[n] = "full" /\ e.held[n] # "full"
           THEN PlaceChildren(e, [s EXCEPT !.ops = Append(@, Op("fill", n)),
                                           !.entered = @ \cup {n}, !.done = @ \cup {n}], n)
           ELSE s
      [] OTHER ->
           IF e.tree.parent[n] \notin s.placed THEN s
           ELSE LET u == Entered(e, s, <<n>>, e.tree.parent[n], PrevOf(e, s, n), NextOf(e, s, n))
                IN  IF e.after[n] = "full" THEN PlaceChildren(e, u, n) ELSE u

EmitArrivals(e, s) ==
    LET new == {n \in e.seen \cap e.tree.live :
                  /\ e.after[n] # "none"
                  /\ \/ e.held[n] = "none"
                     \/ e.held[n] = "stub" /\ e.after[n] = "full"
                     \/ n \notin s.placed /\ PlacedAfter(e, n)}
    IN  FoldLeft(LAMBDA w, n : Arrive(e, w, n), s, ByOrderKey(e.tree, new))

(* 3. What the client keeps and has to move.                                 *)
EmitMoves(e, s) ==
    LET Moved(w, n) ==
          [w EXCEPT !.ops = Append(@, [Op("move", n) EXCEPT !.parent = e.tree.parent[n],
                                         !.prev = PrevOf(e, w, n), !.next = NextOf(e, w, n)]),
                    !.moving = @ \ {n}]
    IN  FoldLeft(Moved, s, ByOrderKey(e.tree, Movers(e)))

(* 4. What leaves the client or its tree, or becomes a stub.                 *)
Leave(e, s, n) ==
    LET under == n \in s.placed /\ ToSet(Tail(Up(e.tree, n))) \cap s.dropped # {} IN
    CASE e.after[n] = "none" ->
           [s EXCEPT !.ops = IF under THEN @ ELSE Append(@, Op("exit", n)),
                     !.placed = @ \ {n}, !.dropped = @ \cup {n}]
      [] e.after[n] # "none" /\ n \in s.placed /\ ~PlacedAfter(e, n) ->
           [s EXCEPT !.ops = Append(@, Op("detached", n)),
                     !.placed = @ \ {n}, !.dropped = @ \cup {n}]
      [] OTHER -> IF n \in s.placed THEN [s EXCEPT !.ops = Append(@, Op("stub", n))] ELSE s

(* Mutant: every stub is made a stub again. *)
EmitLeavingAll(e, s) ==
    LET out == {n \in (e.seen \cap e.tree.live) \ e.deleted :
                  e.held[n] # "none" /\ (e.after[n] # "full" \/ (n \in s.placed /\ ~PlacedAfter(e, n)))}
    IN  FoldLeft(LAMBDA w, n : Leave(e, w, n), s, ByOrderKey(e.tree, out))

EmitLeaving(e, s) ==
    LET out == {n \in (e.seen \cap e.tree.live) \ e.deleted :
                  /\ e.held[n] # "none"
                  /\ \/ e.after[n] = "none"
                     \/ e.held[n] = "full" /\ e.after[n] = "stub"
                     \/ n \in s.placed /\ ~PlacedAfter(e, n)}
    IN  FoldLeft(LAMBDA w, n : Leave(e, w, n), s, ByOrderKey(e.tree, out))

(* 5. The fields of what entered, and the commit's of what was held in full. *)
EmitState(e, s, patch) ==
    LET whole == {n \in s.entered : e.tree.val[n] # None}
        kept == {n \in DOMAIN patch \ s.entered : e.held[n] = "full" /\ e.after[n] = "full"}
    IN  [n \in whole \cup kept |-> IF n \in whole THEN e.tree.val[n] ELSE patch[n]]

Simulated(e) ==
    EmitLeaving(e, EmitMoves(e, EmitArrivals(e, EmitDeletes(e,
        [ops |-> <<>>, present |-> HeldIn(e.held), placed |-> e.placed, moving |-> Movers(e),
         entered |-> {}, done |-> {}, dropped |-> {}]))))

HeldAfter(e) ==
    [n \in Nodes |-> IF n \in e.deleted THEN "none" ELSE e.after[n]]

PlacedNext(e) ==
    LET again == e.seen \cup e.deleted
    IN  (e.placed \ again) \cup InTree(e.tree, HeldAfter(e), again)

Below(t, S) == UNION {Under(t, <<n>>) : n \in S}

(* Mutant: the targets of references are not looked at again. *)
ProjectUntargeted(t, x) ==
    LET deleted == Below(t, x.deleted)
        touched == Below(t, (x.inserted \cup x.moved) \cap t.live)
        above == UNION {ToSet(Up(t, n)) : n \in touched \cap DOMAIN anchors}
        candidates == (touched \cup above \cup x.updated \cup StubsIn(held)) \ deleted
    IN  [tree |-> t, held |-> held, placed |-> placed, deleted |-> deleted, moved |-> x.moved,
         seen |-> candidates,
         after |-> [n \in Nodes |-> IF n \in candidates THEN Classify(t, anchors, n) ELSE held[n]]]

(* What a commit may have done to the view: x is its record, t the tree.     *)
Project(t, x) ==
    LET deleted == Below(t, x.deleted)
        touched == Below(t, (x.inserted \cup x.moved) \cap t.live)
        above == UNION {ToSet(Up(t, n)) : n \in touched \cap DOMAIN anchors}
        changed == touched \cup above \cup x.updated
        targets == {t.val[n] : n \in (changed \cap t.live) \cup deleted}
                   \cup {x.undoPatch[n] : n \in DOMAIN x.undoPatch \cap t.live}
        candidates == ((changed \cup targets \cup StubsIn(held)) \ {None}) \ deleted
    IN  [tree |-> t, held |-> held, placed |-> placed, deleted |-> deleted, moved |-> x.moved,
         seen |-> candidates,
         after |-> [n \in Nodes |-> IF n \in candidates THEN Classify(t, anchors, n) ELSE held[n]]]

Rescope(t, A) ==
    LET all == ComputeAll(t, A) IN
    [tree |-> t, held |-> held, placed |-> placed, deleted |-> {}, moved |-> {},
     seen |-> HeldIn(held) \cup HeldIn(all), after |-> all]

-----------------------------------------------------------------------------
(* The client. c is its document while a patch is applied.                   *)

IsDetached(c, n) == n \in (c.tree.live \cap c.stubs) \ {Root} /\ c.tree.parent[n] = None
Drop(t, n) == IF t.parent[n] = None THEN [t EXCEPT !.live = @ \ {n}] ELSE DeleteRange(t, n, n)
Failed(c) == [c EXCEPT !.failed = TRUE]

(* A detached stub is taken into the tree, as the same object.               *)
Inserted(c, o) ==
    LET t == [c.tree EXCEPT !.live = @ \ {n \in ToSet(o.run) : IsDetached(c, n)}]
        r == Applied(t, o)
    IN  CASE r.raised -> Failed(c)
          [] ~r.raised /\ o.parent \notin t.live -> c
          [] OTHER -> [c EXCEPT !.tree = r.tree, !.stubs = (@ \ ToSet(o.run)) \cup o.stubs,
                                !.changed = @ \cup ToSet(o.run)]

Deleted(c, n) ==
    LET t == Drop(c.tree, n) IN
    IF n \notin c.tree.live \/ n = Root THEN c
    ELSE [c EXCEPT !.tree = t, !.stubs = @ \cap t.live,
                   !.deleted = @ \cup (c.tree.live \ t.live)]

Moved(c, o) ==
    LET n == Head(o.run)   p == Parent(c.tree, o)   at == Target(c.tree, o) IN
    IF n \in c.tree.live /\ CanMove(c.tree, n, n, p, at)
    THEN [c EXCEPT !.tree = MoveRange(c.tree, n, n, p, at)] ELSE c

Exited(c, n) ==
    LET t == Drop(c.tree, n) IN
    CASE n \notin c.tree.live -> c
      [] n \in c.tree.live /\ n = Root -> Failed(c)
      [] OTHER -> [c EXCEPT !.tree = t, !.stubs = @ \cap t.live]

Detached(c, n) ==
    LET out == Exited(c, n) IN
    CASE n = Root -> Failed(c)
      [] n # Root /\ n \in c.tree.live /\ c.tree.parent[n] = None -> c
      [] OTHER -> [out EXCEPT !.tree = [Reborn(@, {n}) EXCEPT !.live = @ \cup {n}],
                              !.stubs = @ \cup {n}]

Demoted(c, n) ==
    IF n \in c.tree.live \ c.stubs
    THEN [c EXCEPT !.tree = SetField(@, n, None), !.stubs = @ \cup {n}] ELSE c

Filled(c, n) ==
    IF n \in c.stubs /\ ~IsDetached(c, n)
    THEN [c EXCEPT !.stubs = @ \ {n}, !.changed = @ \cup {n}] ELSE Failed(c)

Land(c, o) ==
    LET n == Head(o.run) IN
    CASE c.failed -> c
      [] ~c.failed /\ o.op = "insert" -> Inserted(c, o)
      [] ~c.failed /\ o.op = "delete" -> Deleted(c, n)
      [] ~c.failed /\ o.op = "move" -> Moved(c, o)
      [] ~c.failed /\ o.op = "stub" -> Demoted(c, n)
      [] ~c.failed /\ o.op = "exit" -> Exited(c, n)
      [] ~c.failed /\ o.op = "detached" -> Detached(c, n)
      [] ~c.failed /\ o.op = "fill" -> Filled(c, n)

(* What the client has of a node it no longer holds it resets on its return. *)
Forgotten(t) ==
    LET Clear(f) == [n \in Nodes |-> IF n \in t.live THEN f[n] ELSE None]
    IN  [t EXCEPT !.parent = Clear(@), !.prev = Clear(@), !.next = Clear(@), !.first = Clear(@),
                  !.last = Clear(@), !.val = Clear(@), !.grave = {}]

(* The references that the patch brought must resolve on the client too.     *)
Receive(ops, state) ==
    LET c == FoldLeft(Land, [tree |-> copy, stubs |-> stubs, failed |-> FALSE,
                             changed |-> {}, deleted |-> {}], ops)
        u == WithFields(c.tree, state)
        x == [inserted |-> c.changed \ c.stubs, updated |-> DOMAIN state, deleted |-> c.deleted \ u.live]
    IN  IF c.failed \/ DOMAIN state \cap c.stubs # {} \/ ~CheckRefIntegrity(u, x)
        THEN lost' = TRUE /\ UNCHANGED <<copy, stubs>>
        ELSE copy' = Forgotten(u) /\ stubs' = c.stubs /\ UNCHANGED lost

Deliver(e, patch) ==
    \E s \in {Simulated(e)} :
      /\ held' = HeldAfter(e) /\ placed' = PlacedNext(e)
      /\ IF lost THEN UNCHANGED client ELSE Receive(s.ops, EmitState(e, s, patch))

-----------------------------------------------------------------------------
(* A client connects, with a scope, before anything happens.                 *)
Load(t, h) ==
    LET shown == Snapshot(t, h)
        placedIn == InTree(t, h, Nodes)
        Kids_(n) == shown.kids[n]
        ParentOf(n) == IF n \in placedIn THEN t.parent[n] ELSE None
        Beside_(n, d) ==
          IF ParentOf(n) = None THEN None
          ELSE LET k == Kids_(t.parent[n])   i == CHOOSE j \in DOMAIN k : k[j] = n
               IN  IF i + d \in DOMAIN k THEN k[i + d] ELSE None
        Over(F(_)) == [n \in Nodes |-> IF n \in HeldIn(h) THEN F(n) ELSE None]
    IN  WithIndex([live |-> HeldIn(h), parent |-> Over(ParentOf),
          prev |-> Over(LAMBDA n : Beside_(n, -1)), next |-> Over(LAMBDA n : Beside_(n, 1)),
          first |-> Over(LAMBDA n : IF Kids_(n) = <<>> THEN None ELSE Head(Kids_(n))),
          last |-> Over(LAMBDA n : IF Kids_(n) = <<>> THEN None ELSE Last(Kids_(n))),
          val |-> Over(LAMBDA n : shown.val[n]), index |-> {}, grave |-> {}])

ScopeInit ==
    /\ Init
    /\ anchors \in Scopes
    /\ held = ComputeAll(tree, anchors) /\ placed = InTree(tree, held, Nodes)
    /\ copy = Load(tree, held) /\ stubs = StubsIn(held) /\ lost = FALSE

(* Commits that are projected wrongly, which a run leaves out unless it      *)
(* allows for them.                                                          *)
Above(t, n) == ToSet(Tail(Up(t, n)))
Departs(e) == (e.moved \cap e.placed \cap e.tree.live) \ Movers(e)
Comes(e, n) == e.after[n] # "none" /\ (n \notin e.placed \/ n \in e.moved)
Careful(e) ==
    /\ Spared("exit under", \E n \in Departs(e), m \in e.seen :
                 /\ m \in Above(e.tree, n) /\ e.after[n] = "none"
                 /\ e.held[m] # "none" /\ e.after[m] = "none")
    /\ Spared("beside", \E n \in Departs(e), m \in e.tree.live :
                 m # n /\ e.tree.parent[m] = e.tree.parent[n] /\ Comes(e, m))
    /\ Spared("revived", e.deleted \cap e.tree.live # {})
    /\ Spared("left", \E n \in e.tree.live \cap e.placed : Above(base, n) \cap e.deleted # {})
    /\ Spared("joined", \E n \in e.deleted \cap e.placed :
                 Above(base, n) \cap e.deleted = {} /\ Above(e.tree, n) \cap e.deleted # {})
    /\ Spared("blank", \E n \in gone \cap e.tree.live : e.tree.val[n] # base.val[n])

ScopeCommit ==
    /\ Commit
    /\ UNCHANGED anchors
    /\ IF HasChanges(tx) THEN \E e \in {Project(tree, tx)} : Careful(e) /\ Deliver(e, tx.patch)
       ELSE UNCHANGED <<held, placed, client>>

ChangeScope(A) ==
    /\ stage = "idle" /\ A # anchors
    /\ anchors' = A
    /\ \E e \in {Rescope(tree, A)} : Deliver(e, <<>>)
    /\ UNCHANGED vars

ScopeNext ==
    \/ (Begin \/ AnyCall) /\ UNCHANGED <<view, client>>
    \/ ScopeCommit
    \/ \E A \in Scopes : ChangeScope(A)

scopeVars == <<vars, view, client>>
ScopeSpec == ScopeInit /\ [][ScopeNext]_scopeVars

-----------------------------------------------------------------------------
(* The server's view has a kind for every node and places only what it       *)
(* holds; the client has its stubs, and its pointers lead to nodes or        *)
(* nowhere.                                                                  *)
ViewTypeOK ==
    /\ anchors \in Scopes /\ held \in [Nodes -> {"full", "stub", "none"}]
    /\ placed \subseteq HeldIn(held)
ClientTypeOK == TreeType(copy) /\ stubs \subseteq copy.live /\ lost \in BOOLEAN

(* The view, which each commit and each change of scope brings up to date    *)
(* from the few nodes it may have touched, is the view from scratch.         *)
ViewExact ==
    /\ ViewTypeOK
    /\ stage = "idle" => held = ComputeAll(tree, anchors) /\ placed = InTree(tree, held, Nodes)

(* The client that applied every patch it was sent has what one that asks    *)
(* for a snapshot now gets: the same nodes, order, fields and stubs; and no  *)
(* patch was ever one that it could not apply.                               *)
Mirrors ==
    /\ ClientTypeOK
    /\ stage = "idle" => /\ ~lost /\ stubs = StubsIn(held)
                         /\ Content(copy) = Snapshot(tree, held)
                         /\ \A n \in copy.live : Agree(copy, n)
                         /\ copy.index = References(copy, copy.live)

Names(e) == UNION {ToSet(o.run) : o \in ToSet(Simulated(e).ops)}
Sent(e) == \A n \in Names(e) : \/ n \in e.deleted \cup e.moved \/ held'[n] # held[n]
                                \/ (n \in placed) # (n \in placed')
(* A patch is a delta, never a snapshot: it names the nodes that the commit  *)
(* deleted or moved and those that the client now holds otherwise, in        *)
(* another kind or place, and no node that has only neighbours like that.    *)
Delta ==
    [][/\ (stage = "update" /\ stage' = "idle" /\ HasChanges(tx)) =>
              \A e \in {Project(tree, tx)} : Sent(e)
       /\ anchors' # anchors => \A e \in {Rescope(tree, anchors')} : Sent(e)]_scopeVars
===============================================================================
